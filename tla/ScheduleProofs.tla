----------------------------- MODULE ScheduleProofs -----------------------------
(***************************************************************************)
(* Proofs about the schedule: about ArtifactRotation, for any number of    *)
(* compiler processes, feeds and compiler versions, and about              *)
(* RoutingWindow with the compiler and loader it extends, for every feed,  *)
(* every sequence of calls and every size of the caches; and that Router   *)
(* may scan what a window holds.                                           *)
(***************************************************************************)
EXTENDS ArtifactRotation, RoutingWindow, FiniteSetTheorems, SequenceTheorems,
        WellFoundedInduction, TLAPS

-------------------------------------------------------------------------------
(* Rotation: the inductive invariant.                                      *)

\* A payload file holds the artifact it is named for.
OwnName == \A f \in DOMAIN payloads : payloads[f] = f

\* What a compiler is about to publish: an artifact of the deployed version,
\* whose payload is visible before the manifest is written.
Unpublished ==
  \A c \in Compilers :
    /\ step[c] \in {"payload", "manifest"}
         => artifact[c] \in Artifacts /\ artifact[c].version = version
    /\ step[c] = "manifest" => Whole(artifact[c])

Running == {"downloading", "compiling", "payload", "manifest"}

\* A rotation that may keep the artifact on disk - the two reasons that Fail
\* answers with exit code 0 - still finds one of the deployed version there.
Keepable ==
  \A c \in Compilers :
    step[c] \in Running /\ reason[c] \in {"feed-out-of-date", "feed-changed"}
      => manifest # NoManifest /\ manifest.version = version

RotationInv ==
  /\ TypeOK
  /\ OwnName
  /\ PublishedPairIsWhole
  /\ Unpublished
  /\ Keepable

\* No compiler runs at the start, and nothing is published.
LEMMA RotationInitHolds == Init => RotationInv
BY ArtifactRotationAssumption
   DEF Init, RotationInv, TypeOK, Artifacts, Reasons, OwnName, PublishedPairIsWhole,
       Unpublished, Keepable, Running

\* Every step of a compiler, the server, the clock and the operator keeps it.
LEMMA RotationNextKeeps ==
  ASSUME RotationInv, [Next]_vars
  PROVE  RotationInv'
<1> USE ArtifactRotationAssumption
    DEF RotationInv, TypeOK, Artifacts, Reasons, OwnName, PublishedPairIsWhole,
        Unpublished, Keepable, Running, Whole, PayloadFile, Goto, Exit,
        clockVars, diskVars, compilerVars, serverVars
<1>1. ASSUME NEW c \in Compilers, StartRotation(c)
      PROVE  RotationInv'
  BY <1>1 DEF StartRotation, Decision
<1>2. ASSUME NEW c \in Compilers, StartOffline(c)
      PROVE  RotationInv'
  BY <1>2 DEF StartOffline
<1>3. ASSUME NEW c \in Compilers, KeepFresh(c)
      PROVE  RotationInv'
  BY <1>3 DEF KeepFresh
<1>4. ASSUME NEW c \in Compilers, Downloaded(c)
      PROVE  RotationInv'
  BY <1>4 DEF Downloaded
<1>5. ASSUME NEW c \in Compilers, Compile(c)
      PROVE  RotationInv'
  BY <1>5 DEF Compile
<1>6. ASSUME NEW c \in Compilers, PublishPayload(c)
      PROVE  RotationInv'
  BY <1>6 DEF PublishPayload
<1>7. ASSUME NEW c \in Compilers, PublishManifest(c)
      PROVE  RotationInv'
  BY <1>7 DEF PublishManifest
<1>8. ASSUME NEW c \in Compilers, Fail(c) \/ Kill(c) \/ StartAgain(c)
      PROVE  RotationInv'
  BY <1>8 DEF Fail, Kill, StartAgain
<1>9. CASE LoadCached \/ ReadManifest \/ ReadPayload \/ RestartServer
  BY <1>9 DEF LoadCached, ReadManifest, ReadPayload, RestartServer
<1>10. CASE DayPasses \/ FeedPublished
  BY <1>10 DEF DayPasses, FeedPublished
<1>11. CASE Deploy
  BY <1>11 DEF Deploy, NoCompilerRuns
<1>12. CASE Prune
  BY <1>12 DEF Prune, NoCompilerRuns, Loadable, Restrict
<1>13. CASE UNCHANGED vars
  BY <1>13 DEF vars
<1> QED
  BY <1>1, <1>2, <1>3, <1>4, <1>5, <1>6, <1>7, <1>8, <1>9, <1>10, <1>11, <1>12,
     <1>13 DEF Next

\* Whatever compilers overlap, fail or are killed, what is on disk is whole and
\* what they are about to publish is of the deployed version.
THEOREM RotationInvariant == Spec => []RotationInv
<1>1. RotationInv /\ [Next]_vars => RotationInv'
  BY RotationNextKeeps
<1> QED
  BY RotationInitHolds, <1>1, PTL DEF Spec

-------------------------------------------------------------------------------
(* Rotation: what follows from it.                                         *)

\* Every reachable state is well typed.
THEOREM TypeCorrect == Spec => []TypeOK
<1>1. RotationInv => TypeOK
  BY DEF RotationInv
<1> QED
  BY RotationInvariant, <1>1, PTL

\* No crash and no overlap of compilers leaves a manifest without its payload.
THEOREM PairsAreWhole == Spec => []PublishedPairIsWhole
<1>1. RotationInv => PublishedPairIsWhole
  BY DEF RotationInv
<1> QED
  BY RotationInvariant, <1>1, PTL

\* A rotation that exits with 0 leaves an artifact of the deployed compiler
\* version, although other compilers may have replaced the manifest it judged.
THEOREM ExitZeroIsCurrent == Spec => ExitZeroLeavesCurrentArtifact
<1> DEFINE Current ==
      \A c \in Compilers :
        exit[c] = "none" /\ exit'[c] = "zero"
        => manifest' # NoManifest /\ manifest'.version = version
<1>1. ASSUME RotationInv, NEW c \in Compilers, NEW code, Exit(c, code)
      PROVE  \A k \in Compilers \ {c} : exit'[k] = exit[k]
  BY <1>1 DEF Exit, RotationInv, TypeOK
<1>2. ASSUME RotationInv, NEW c \in Compilers, KeepFresh(c) \/ Fail(c)
      PROVE  Current
  <2>1. exit'[c] = "zero" => manifest' # NoManifest /\ manifest'.version = version
    BY <1>2 DEF KeepFresh, Fail, Exit, RotationInv, TypeOK, Keepable, Running, diskVars
  <2> QED
    BY <1>1, <1>2, <2>1 DEF KeepFresh, Fail
<1>3. ASSUME RotationInv, NEW c \in Compilers, PublishManifest(c)
      PROVE  Current
  BY <1>3, ArtifactRotationAssumption DEF PublishManifest, RotationInv, Unpublished
<1>4. ASSUME RotationInv, NEW c \in Compilers, Kill(c) \/ StartAgain(c)
      PROVE  Current
  BY <1>4 DEF Kill, StartAgain, Exit, RotationInv, TypeOK
<1>5. ASSUME NEW c \in Compilers,
             \/ StartRotation(c) \/ StartOffline(c) \/ Downloaded(c)
             \/ Compile(c) \/ PublishPayload(c)
      PROVE  UNCHANGED exit
  BY <1>5 DEF StartRotation, StartOffline, Downloaded, Compile, PublishPayload
<1>6. ASSUME \/ LoadCached \/ ReadManifest \/ ReadPayload \/ RestartServer
             \/ DayPasses \/ FeedPublished \/ Deploy \/ Prune
      PROVE  UNCHANGED exit
  BY <1>6
     DEF LoadCached, ReadManifest, ReadPayload, RestartServer, DayPasses,
         FeedPublished, Deploy, Prune, compilerVars
<1>7. RotationInv /\ [Next]_vars => [Current]_vars
  BY <1>2, <1>3, <1>4, <1>5, <1>6 DEF Next
<1> QED
  BY RotationInvariant, <1>7, PTL DEF Spec, ExitZeroLeavesCurrentArtifact

\* The server never answers from a schedule that is not valid today.
THEOREM ScheduleIsValid == Spec => []ServesValidSchedule
<1>1. Init => ServesValidSchedule
  BY DEF Init, ServesValidSchedule
<1>2. ASSUME ServesValidSchedule, [Next]_vars
      PROVE  ServesValidSchedule'
  <2> USE <1>2 DEF ServesValidSchedule, Valid, clockVars, serverVars
  <2>1. ASSUME NEW c \in Compilers,
               \/ StartRotation(c) \/ StartOffline(c) \/ KeepFresh(c)
               \/ Downloaded(c) \/ Compile(c) \/ PublishPayload(c)
               \/ PublishManifest(c) \/ Fail(c) \/ Kill(c) \/ StartAgain(c)
        PROVE  ServesValidSchedule'
    BY <2>1
       DEF StartRotation, StartOffline, KeepFresh, Downloaded, Compile,
           PublishPayload, PublishManifest, Fail, Kill, StartAgain
  <2>2. CASE LoadCached \/ ReadManifest \/ ReadPayload \/ RestartServer
    BY <2>2 DEF LoadCached, ReadManifest, ReadPayload, RestartServer
  <2>3. CASE DayPasses \/ FeedPublished \/ Deploy \/ Prune
    BY <2>3 DEF DayPasses, FeedPublished, Deploy, Prune
  <2>4. CASE UNCHANGED vars
    BY <2>4 DEF vars
  <2> QED
    BY <2>1, <2>2, <2>3, <2>4 DEF Next
<1> QED
  BY <1>1, <1>2, PTL DEF Spec

-------------------------------------------------------------------------------
(* Numbers and orders.                                                     *)

\* A nonempty set of numbers has a least one.
LEMMA LeastOf ==
  ASSUME NEW S \in SUBSET Nat, S # {}
  PROVE  \E m \in S : \A i \in S : m <= i
<1>1. PICK m \in S : \A i \in S : ~(<<i, m>> \in OpToRel(<, Nat))
  BY NatLessThanWellFounded, WFMin
<1>2. \A i \in S : <<i, m>> \in OpToRel(<, Nat) <=> i < m
  BY DEF OpToRel
<1>3. \A i \in S : ~(i < m)
  BY <1>1, <1>2, Zenon
<1> QED BY <1>3

\* A nonempty set of integers that are at least lo has a minimum.
LEMMA MinOf ==
  ASSUME NEW S \in SUBSET Int, S # {}, NEW lo \in Int, \A i \in S : lo <= i
  PROVE  Min(S) \in S /\ \A i \in S : Min(S) <= i
<1> DEFINE shifted == {n \in Nat : lo + n \in S}
<1>1. shifted # {}
  <2>1. PICK i \in S : TRUE
    OBVIOUS
  <2>2. i - lo \in Nat /\ lo + (i - lo) = i
    BY <2>1
  <2> QED BY <2>2
<1>2. PICK n \in shifted : \A m \in shifted : n <= m
  <2>1. shifted \in SUBSET Nat
    OBVIOUS
  <2> HIDE DEF shifted
  <2> QED BY <1>1, <2>1, LeastOf
<1>3. \A i \in S : lo + n <= i
  <2> TAKE i \in S
  <2>1. i - lo \in Nat /\ lo + (i - lo) = i
    OBVIOUS
  <2>2. n <= i - lo
    BY <1>2, <2>1
  <2> QED BY <2>2
<1>4. \E x \in S : \A y \in S : x =< y
  BY <1>2, <1>3
<1> QED BY <1>4 DEF Min

\* A nonempty set of integers that are at most hi has a maximum.
LEMMA MaxOf ==
  ASSUME NEW S \in SUBSET Int, S # {}, NEW hi \in Int, \A i \in S : i <= hi
  PROVE  Max(S) \in S /\ \A i \in S : i <= Max(S)
<1> DEFINE shifted == {n \in Nat : hi - n \in S}
<1>1. shifted # {}
  <2>1. PICK i \in S : TRUE
    OBVIOUS
  <2>2. hi - i \in Nat /\ hi - (hi - i) = i
    BY <2>1
  <2> QED BY <2>2
<1>2. PICK n \in shifted : \A m \in shifted : n <= m
  <2>1. shifted \in SUBSET Nat
    OBVIOUS
  <2> HIDE DEF shifted
  <2> QED BY <1>1, <2>1, LeastOf
<1>3. \A i \in S : i <= hi - n
  <2> TAKE i \in S
  <2>1. hi - i \in Nat /\ hi - (hi - i) = i
    OBVIOUS
  <2>2. n <= hi - i
    BY <1>2, <2>1
  <2> QED BY <2>2
<1>4. \E x \in S : \A y \in S : x >= y
  BY <1>2, <1>3
<1>5. Max(S) \in S /\ \A y \in S : Max(S) >= y
  BY <1>4 DEF Max
<1> QED BY <1>5

\* What goes from each number to the next goes up to n.
LEMMA UpTo ==
  ASSUME NEW lo \in Nat, NEW n \in Nat, NEW good \in SUBSET Nat,
         lo \in good,
         \A i \in Nat : lo <= i /\ i < n /\ i \in good => i + 1 \in good
  PROVE  lo .. n \subseteq good
<1> DEFINE bad == {i \in lo .. n : i \notin good}
<1>1. SUFFICES ASSUME bad # {} PROVE FALSE
  OBVIOUS
<1>2. PICK m \in bad : \A i \in bad : m <= i
  <2>1. bad \in SUBSET Nat
    OBVIOUS
  <2> HIDE DEF bad
  <2> QED BY <1>1, <2>1, LeastOf
<1>3. m \in Nat /\ lo <= m /\ m <= n /\ m # lo
  OBVIOUS
<1>4. m - 1 \in Nat /\ lo <= m - 1 /\ m - 1 < n /\ (m - 1) + 1 = m
  BY <1>3
<1>5. m - 1 \notin bad
  BY <1>2, <1>4
<1>6. m - 1 \in good
  BY <1>3, <1>4, <1>5
<1> QED BY <1>4, <1>6

\* Division rounds down.
LEMMA Division ==
  ASSUME NEW a \in Nat, NEW b \in Nat \ {0}
  PROVE  a \div b \in Nat /\ \A k \in Int : k > a \div b => a < b * k
<1>1. a \div b \in Nat /\ a < b * (a \div b) + b
  OBVIOUS
<1>2. ASSUME NEW k \in Int, k > a \div b
      PROVE  a < b * k
  <2>1. ASSUME NEW q \in Int, q < k
        PROVE  b * q + b <= b * k
    <3>1. k - (q + 1) \in Nat
      BY <2>1
    <3>2. b * (k - (q + 1)) >= 0
      BY <3>1
    <3>3. b * (k - (q + 1)) = b * k - b * q - b
      OBVIOUS
    <3> QED BY <3>2, <3>3
  <2>2. b * (a \div b) + b <= b * k
    BY <1>1, <1>2, <2>1
  <2>3. b * k \in Int /\ b * (a \div b) \in Int
    BY <1>1
  <2> QED BY <1>1, <2>2, <2>3
<1> QED BY <1>1, <1>2

\* A relation that orders a set.
Orders(R, S) ==
  /\ \A x \in S : <<x, x>> \notin R
  /\ \A x, y, z \in S : <<x, y>> \in R /\ <<y, z>> \in R => <<x, z>> \in R
  /\ \A x, y \in S : x = y \/ <<x, y>> \in R \/ <<y, x>> \in R

\* The members before x.
Before(R, S, x) == {y \in S : <<y, x>> \in R}

\* The members of a finite ordered set can be counted in their order.
LEMMA Ranked ==
  ASSUME NEW S, IsFiniteSet(S), NEW R, Orders(R, S)
  PROVE  /\ Cardinality(S) \in Nat
         /\ \A x \in S : Cardinality(Before(R, S, x)) \in 0 .. Cardinality(S) - 1
         /\ \A x, y \in S :
              <<x, y>> \in R <=> Cardinality(Before(R, S, x)) < Cardinality(Before(R, S, y))
         /\ \A x, y \in S : Cardinality(Before(R, S, x)) = Cardinality(Before(R, S, y)) => x = y
         /\ \A n \in 0 .. Cardinality(S) - 1 : \E x \in S : Cardinality(Before(R, S, x)) = n
<1> DEFINE rank == [x \in S |-> Cardinality(Before(R, S, x))]
<1>1. Cardinality(S) \in Nat
  BY FS_CardinalityType
<1>2. ASSUME NEW x \in S
      PROVE  /\ IsFiniteSet(Before(R, S, x)) /\ Cardinality(Before(R, S, x)) \in Nat
             /\ Cardinality(Before(R, S, x)) <= Cardinality(S) - 1
  <2>1. Before(R, S, x) \subseteq S \ {x}
    BY DEF Before, Orders
  <2>2. IsFiniteSet(S \ {x}) /\ Cardinality(S \ {x}) = Cardinality(S) - 1
    BY FS_RemoveElement
  <2>3. IsFiniteSet(Before(R, S, x)) /\ Cardinality(Before(R, S, x)) <= Cardinality(S \ {x})
    BY <2>1, <2>2, FS_Subset
  <2> QED BY <2>2, <2>3, FS_CardinalityType
<1>3. ASSUME NEW x \in S, NEW y \in S, <<x, y>> \in R
      PROVE  Cardinality(Before(R, S, x)) < Cardinality(Before(R, S, y))
  <2>1. x \notin Before(R, S, x) /\ Before(R, S, x) \cup {x} \subseteq Before(R, S, y)
    BY <1>3 DEF Before, Orders
  <2>2. Cardinality(Before(R, S, x) \cup {x}) = Cardinality(Before(R, S, x)) + 1
    BY <1>2, <2>1, FS_AddElement
  <2>3. Cardinality(Before(R, S, x) \cup {x}) <= Cardinality(Before(R, S, y))
    BY <1>2, <2>1, FS_Subset
  <2> QED BY <1>2, <2>2, <2>3
<1>4. ASSUME NEW x \in S, NEW y \in S
      PROVE  /\ <<x, y>> \in R <=> Cardinality(Before(R, S, x)) < Cardinality(Before(R, S, y))
             /\ Cardinality(Before(R, S, x)) = Cardinality(Before(R, S, y)) => x = y
  <2>1. Cardinality(Before(R, S, x)) \in Nat /\ Cardinality(Before(R, S, y)) \in Nat
    BY <1>2
  <2>2. x = y \/ <<x, y>> \in R \/ <<y, x>> \in R
    BY DEF Orders
  <2>3. CASE x = y
    BY <2>1, <2>3 DEF Orders
  <2>4. CASE <<x, y>> \in R
    BY <1>3, <2>1, <2>4
  <2>5. CASE <<y, x>> \in R
    <3>1. <<x, y>> \notin R
      BY <2>5 DEF Orders
    <3>2. Cardinality(Before(R, S, y)) < Cardinality(Before(R, S, x))
      BY <1>3, <2>5
    <3> QED BY <2>1, <3>1, <3>2
  <2> QED BY <2>2, <2>3, <2>4, <2>5
<1>5. rank \in Injection(S, 0 .. Cardinality(S) - 1)
  <2>1. \A x \in S : rank[x] \in 0 .. Cardinality(S) - 1
    BY <1>1, <1>2
  <2>2. rank \in [S -> 0 .. Cardinality(S) - 1]
    BY <2>1
  <2>3. \A x, y \in S : rank[x] = rank[y] => x = y
    BY <1>4
  <2> QED BY <2>2, <2>3 DEF Injection, IsInjective
<1>6. rank \in Surjection(S, 0 .. Cardinality(S) - 1)
  <2>1. IsFiniteSet(0 .. Cardinality(S) - 1)
        /\ Cardinality(0 .. Cardinality(S) - 1) = Cardinality(S)
    <3>1. CASE Cardinality(S) = 0
      <4>1. 0 .. Cardinality(S) - 1 = {}
        BY <3>1
      <4> QED BY <3>1, <4>1, FS_EmptySet
    <3>2. CASE Cardinality(S) # 0
      <4>1. 0 \in Int /\ Cardinality(S) - 1 \in Int
        BY <1>1
      <4>2. Cardinality(0 .. Cardinality(S) - 1) = (Cardinality(S) - 1) - 0 + 1
        BY <1>1, <3>2, <4>1, FS_Interval
      <4> QED BY <1>1, <4>1, <4>2, FS_Interval
    <3> QED BY <3>1, <3>2
  <2> HIDE DEF rank
  <2> QED BY <1>5, <2>1, FS_Injection
<1>7. ASSUME NEW n \in 0 .. Cardinality(S) - 1
      PROVE  \E x \in S : Cardinality(Before(R, S, x)) = n
  <2>1. PICK x \in S : rank[x] = n
    <3> HIDE DEF rank
    <3> QED BY <1>6 DEF Surjection
  <2>2. rank[x] = Cardinality(Before(R, S, x))
    OBVIOUS
  <2> HIDE DEF rank
  <2> QED BY <2>1, <2>2
<1>8. \A x \in S : Cardinality(Before(R, S, x)) \in 0 .. Cardinality(S) - 1
  BY <1>1, <1>2
<1> HIDE DEF rank
<1>9. \A x, y \in S :
        /\ <<x, y>> \in R <=> Cardinality(Before(R, S, x)) < Cardinality(Before(R, S, y))
        /\ Cardinality(Before(R, S, x)) = Cardinality(Before(R, S, y)) => x = y
  BY <1>4
<1> QED BY <1>1, <1>7, <1>8, <1>9, Zenon

\* The order of compareScheduledConnections: by departure, arrival, service,
\* trip and visit.
Sooner(c, d) ==
  \/ c.departure < d.departure
  \/ c.departure = d.departure /\ c.arrival < d.arrival
  \/ c.departure = d.departure /\ c.arrival = d.arrival /\ c.service < d.service
  \/ /\ c.departure = d.departure /\ c.arrival = d.arrival /\ c.service = d.service
     /\ c.trip < d.trip
  \/ /\ c.departure = d.departure /\ c.arrival = d.arrival /\ c.service = d.service
     /\ c.trip = d.trip /\ c.visit < d.visit

\* The keys are compared entry by entry.
LEMMA SortKeysCompare ==
  ASSUME NEW c, NEW d
  PROVE  Precedes(SortKey(c), SortKey(d)) <=> Sooner(c, d)
<1> DEFINE a == SortKey(c)  b == SortKey(d)
<1>1. /\ DOMAIN a = 1 .. 5
      /\ a[1] = c.departure /\ a[2] = c.arrival /\ a[3] = c.service /\ a[4] = c.trip /\ a[5] = c.visit
      /\ b[1] = d.departure /\ b[2] = d.arrival /\ b[3] = d.service /\ b[4] = d.trip /\ b[5] = d.visit
  BY DEF SortKey
<1> HIDE DEF a, b
<1>2. 1 .. 5 = {1, 2, 3, 4, 5}
  OBVIOUS
<1>3. 1 .. 1 - 1 = {} /\ 1 .. 2 - 1 = {1} /\ 1 .. 3 - 1 = {1, 2} /\ 1 .. 4 - 1 = {1, 2, 3} /\ 1 .. 5 - 1 = {1, 2, 3, 4}
  OBVIOUS
<1>4. Precedes(a, b) <=> \E i \in {1, 2, 3, 4, 5} : a[i] < b[i] /\ \A j \in 1 .. i - 1 : a[j] = b[j]
  BY <1>1, <1>2 DEF Precedes
<1>5. Precedes(a, b) <=>
        \/ a[1] < b[1] /\ \A j \in 1 .. 1 - 1 : a[j] = b[j]
        \/ a[2] < b[2] /\ \A j \in 1 .. 2 - 1 : a[j] = b[j]
        \/ a[3] < b[3] /\ \A j \in 1 .. 3 - 1 : a[j] = b[j]
        \/ a[4] < b[4] /\ \A j \in 1 .. 4 - 1 : a[j] = b[j]
        \/ a[5] < b[5] /\ \A j \in 1 .. 5 - 1 : a[j] = b[j]
  BY <1>4
<1>6. Precedes(a, b) <=>
        \/ a[1] < b[1]
        \/ a[2] < b[2] /\ a[1] = b[1]
        \/ a[3] < b[3] /\ a[1] = b[1] /\ a[2] = b[2]
        \/ a[4] < b[4] /\ a[1] = b[1] /\ a[2] = b[2] /\ a[3] = b[3]
        \/ a[5] < b[5] /\ a[1] = b[1] /\ a[2] = b[2] /\ a[3] = b[3] /\ a[4] = b[4]
  BY <1>3, <1>5
<1> QED BY <1>1, <1>6 DEF Sooner, a, b

-------------------------------------------------------------------------------
(* The visits of a trip.                                                   *)

\* A sequence of stop times of a trip that parseConnections accepts.
IsTrip(s) ==
  /\ s \in Seq(ToSet(s))
  /\ \A i \in DOMAIN s : /\ s[i].arrival \in Nat /\ s[i].departure \in Nat
                         /\ s[i].pickup \in BOOLEAN /\ s[i].dropOff \in BOOLEAN
  /\ Chronological(s)

\* The stop times of a trip are in order of time.
LEMMA TimesIncrease ==
  ASSUME NEW s, IsTrip(s)
  PROVE  /\ DOMAIN s = 1 .. Len(s) /\ Len(s) \in Nat /\ Len(s) >= 2
         /\ \A i, j \in 1 .. Len(s) :
              i <= j => s[i].arrival <= s[j].arrival /\ s[i].departure <= s[j].departure
         /\ \A i, j \in 1 .. Len(s) : i < j => s[i].departure <= s[j].arrival
<1>1. DOMAIN s = 1 .. Len(s) /\ Len(s) \in Nat /\ Len(s) >= 2
  BY DEF IsTrip, Chronological
<1>2. /\ \A i \in 1 .. Len(s) : /\ s[i].arrival \in Nat /\ s[i].departure \in Nat
                                /\ s[i].arrival <= s[i].departure
      /\ \A i \in 2 .. Len(s) : s[i - 1].departure <= s[i].arrival
  BY <1>1 DEF IsTrip, Chronological
<1>3. ASSUME NEW i \in 1 .. Len(s)
      PROVE  \A j \in i + 1 .. Len(s) : s[i].departure <= s[j].arrival
  <2> DEFINE good == {j \in Nat : j \in i + 1 .. Len(s) => s[i].departure <= s[j].arrival}
  <2>1. i \in good
    BY <1>1
  <2>2. ASSUME NEW j \in Nat, i <= j, j < Len(s), j \in good
        PROVE  j + 1 \in good
    <3>1. j + 1 \in 2 .. Len(s) /\ j \in 1 .. Len(s) /\ (j + 1) - 1 = j
      BY <1>1, <2>2
    <3>2. s[j].departure <= s[j + 1].arrival /\ s[j].arrival <= s[j].departure
      BY <1>2, <3>1
    <3>3. CASE j = i
      BY <3>2, <3>3
    <3>4. CASE j # i
      <4>1. s[i].departure <= s[j].arrival
        BY <2>2, <3>1, <3>4
      <4>2. /\ s[i].departure \in Nat /\ s[j].arrival \in Nat /\ s[j].departure \in Nat
            /\ s[j + 1].arrival \in Nat
        BY <1>2, <3>1
      <4> QED BY <3>2, <4>1, <4>2
    <3> QED BY <3>3, <3>4
  <2>3. i .. Len(s) \subseteq good
    <3>1. i \in Nat /\ good \in SUBSET Nat
      BY <1>1
    <3> HIDE DEF good
    <3> QED BY <1>1, <2>1, <2>2, <3>1, UpTo
  <2>4. \A j \in i + 1 .. Len(s) : j \in i .. Len(s)
    BY <1>1
  <2> QED BY <2>3, <2>4
<1>4. ASSUME NEW i \in 1 .. Len(s), NEW j \in 1 .. Len(s), i < j
      PROVE  s[i].departure <= s[j].arrival
  <2>1. j \in i + 1 .. Len(s)
    BY <1>1, <1>4
  <2> QED BY <1>3, <2>1
<1>5. ASSUME NEW i \in 1 .. Len(s), NEW j \in 1 .. Len(s), i <= j
      PROVE  s[i].arrival <= s[j].arrival /\ s[i].departure <= s[j].departure
  <2>1. CASE i = j
    BY <1>2, <2>1
  <2>2. CASE i # j
    <3>1. s[i].departure <= s[j].arrival
      BY <1>1, <1>4, <1>5, <2>2
    <3> QED BY <1>2, <3>1
  <2> QED BY <2>1, <2>2
<1> QED BY <1>1, <1>4, <1>5

\* The places at which a trip changes areas, up to i.
Changes(s, i) == {j \in 2 .. i : s[j].area # s[j - 1].area}

\* Visits are counted from 1, one for each change of area.
LEMMA VisitsCount ==
  ASSUME NEW s
  PROVE  /\ VisitOf(s, 1) = 1
         /\ \A i \in Nat \ {0} : VisitOf(s, i) \in Nat \ {0}
         /\ \A i \in Nat \ {0} :
              VisitOf(s, i + 1) = VisitOf(s, i) + (IF s[i + 1].area # s[i].area THEN 1 ELSE 0)
         /\ \A i, j \in Nat \ {0} : i <= j => VisitOf(s, i) <= VisitOf(s, j)
<1>1. ASSUME NEW i \in Nat
      PROVE  /\ IsFiniteSet(Changes(s, i)) /\ Cardinality(Changes(s, i)) \in Nat
             /\ VisitOf(s, i) = 1 + Cardinality(Changes(s, i))
  <2>1. IsFiniteSet(2 .. i)
    BY FS_Interval
  <2>2. Changes(s, i) \subseteq 2 .. i
    BY DEF Changes
  <2> QED BY <2>1, <2>2, FS_Subset, FS_CardinalityType DEF VisitOf, Changes
<1>2. VisitOf(s, 1) = 1
  <2>1. Changes(s, 1) = {}
    BY DEF Changes
  <2> QED BY <1>1, <2>1, FS_EmptySet
<1>3. ASSUME NEW i \in Nat \ {0}
      PROVE  VisitOf(s, i + 1) = VisitOf(s, i) + (IF s[i + 1].area # s[i].area THEN 1 ELSE 0)
  <2>1. (i + 1) - 1 = i /\ i + 1 \in 2 .. i + 1 /\ i + 1 \notin 2 .. i /\ 2 .. i + 1 = (2 .. i) \cup {i + 1}
    OBVIOUS
  <2>2. CASE s[i + 1].area # s[i].area
    <3>1. Changes(s, i + 1) = Changes(s, i) \cup {i + 1} /\ i + 1 \notin Changes(s, i)
      BY <2>1, <2>2 DEF Changes
    <3>2. Cardinality(Changes(s, i + 1)) = Cardinality(Changes(s, i)) + 1
      BY <1>1, <3>1, FS_AddElement
    <3> QED BY <1>1, <2>2, <3>2
  <2>3. CASE s[i + 1].area = s[i].area
    <3>1. Changes(s, i + 1) = Changes(s, i)
      BY <2>1, <2>3 DEF Changes
    <3> QED BY <1>1, <2>3, <3>1
  <2> QED BY <2>2, <2>3
<1>4. ASSUME NEW i \in Nat \ {0}, NEW j \in Nat \ {0}, i <= j
      PROVE  VisitOf(s, i) <= VisitOf(s, j)
  <2>1. Changes(s, i) \subseteq Changes(s, j)
    BY <1>4 DEF Changes
  <2>2. Cardinality(Changes(s, i)) <= Cardinality(Changes(s, j))
    BY <1>1, <2>1, FS_Subset
  <2> QED BY <1>1, <2>2
<1> QED BY <1>1, <1>2, <1>3, <1>4

\* Stops have one visit exactly if the trip does not leave the area between
\* them; and every visit up to the last has a stop.
LEMMA VisitsAreRuns ==
  ASSUME NEW s, NEW n \in Nat \ {0}
  PROVE  /\ \A i, j \in 1 .. n :
              i <= j => (VisitOf(s, i) < VisitOf(s, j) <=> \E m \in i + 1 .. j : s[m].area # s[i].area)
         /\ \A i, j \in 1 .. n : VisitOf(s, i) < VisitOf(s, j) => i < j
         /\ \A i, j \in 1 .. n : VisitOf(s, i) = VisitOf(s, j) => s[i].area = s[j].area
         /\ \A v \in 1 .. VisitOf(s, n) : \E i \in 1 .. n : VisitOf(s, i) = v
<1>1. /\ VisitOf(s, 1) = 1
      /\ \A i \in Nat \ {0} : VisitOf(s, i) \in Nat \ {0}
      /\ \A i \in Nat \ {0} :
           VisitOf(s, i + 1) = VisitOf(s, i) + (IF s[i + 1].area # s[i].area THEN 1 ELSE 0)
      /\ \A i, j \in Nat \ {0} : i <= j => VisitOf(s, i) <= VisitOf(s, j)
  BY VisitsCount
<1>2. ASSUME NEW i \in 1 .. n, NEW j \in 1 .. n, i <= j, VisitOf(s, i) = VisitOf(s, j)
      PROVE  \A m \in i .. j : s[m].area = s[i].area
  <2> DEFINE good == {m \in Nat : m \in i .. j => s[m].area = s[i].area}
  <2>1. i \in good
    OBVIOUS
  <2>2. ASSUME NEW m \in Nat, i <= m, m < j, m \in good
        PROVE  m + 1 \in good
    <3>1. /\ i \in Nat \ {0} /\ m \in Nat \ {0} /\ m + 1 \in Nat \ {0} /\ j \in Nat \ {0}
          /\ m \in i .. j /\ m + 1 <= j
      BY <2>2
    <3>2. VisitOf(s, i) <= VisitOf(s, m) /\ VisitOf(s, m + 1) <= VisitOf(s, j)
      BY <1>1, <2>2, <3>1
    <3>3. VisitOf(s, m + 1) = VisitOf(s, m) + (IF s[m + 1].area # s[m].area THEN 1 ELSE 0)
      BY <1>1, <3>1
    <3>4. VisitOf(s, i) \in Nat /\ VisitOf(s, m) \in Nat
      BY <1>1, <3>1
    <3>5. s[m + 1].area = s[m].area
      BY <1>2, <3>2, <3>3, <3>4
    <3> QED BY <2>2, <3>1, <3>5
  <2>3. i .. j \subseteq good
    <3>1. i \in Nat /\ j \in Nat /\ good \in SUBSET Nat
      OBVIOUS
    <3> HIDE DEF good
    <3> QED BY <2>1, <2>2, <3>1, UpTo
  <2> QED BY <2>3
<1>3. ASSUME NEW i \in 1 .. n, NEW j \in 1 .. n, i <= j, VisitOf(s, i) < VisitOf(s, j)
      PROVE  \E m \in i + 1 .. j : s[m].area # s[i].area
  <2>1. SUFFICES ASSUME \A m \in i + 1 .. j : s[m].area = s[i].area PROVE FALSE
    OBVIOUS
  <2> DEFINE good == {m \in Nat : m \in i .. j => VisitOf(s, m) = VisitOf(s, i)}
  <2>2. i \in good
    OBVIOUS
  <2>3. ASSUME NEW m \in Nat, i <= m, m < j, m \in good
        PROVE  m + 1 \in good
    <3>1. i \in Nat \ {0} /\ m \in Nat \ {0} /\ m \in i .. j /\ m + 1 \in i + 1 .. j
      BY <2>3
    <3>2. s[m].area = s[i].area
      <4>1. m = i \/ m \in i + 1 .. j
        BY <3>1
      <4> QED BY <2>1, <4>1
    <3>3. s[m + 1].area = s[i].area
      BY <2>1, <3>1
    <3>4. VisitOf(s, m + 1) = VisitOf(s, m) + 0
      BY <1>1, <3>1, <3>2, <3>3
    <3>5. VisitOf(s, m) \in Nat /\ VisitOf(s, m) = VisitOf(s, i)
      BY <1>1, <2>3, <3>1
    <3> QED BY <3>4, <3>5
  <2>4. i .. j \subseteq good
    <3>1. i \in Nat /\ j \in Nat /\ good \in SUBSET Nat
      OBVIOUS
    <3> HIDE DEF good
    <3> QED BY <2>2, <2>3, <3>1, UpTo
  <2>5. VisitOf(s, j) = VisitOf(s, i)
    BY <1>3, <2>4
  <2>6. VisitOf(s, i) \in Nat
    BY <1>1
  <2> QED BY <1>3, <2>5, <2>6
<1>4. ASSUME NEW i \in 1 .. n, NEW j \in 1 .. n, i <= j, NEW m \in i + 1 .. j, s[m].area # s[i].area
      PROVE  VisitOf(s, i) < VisitOf(s, j)
  <2>1. m \in i .. j /\ i \in Nat \ {0} /\ j \in Nat \ {0}
    OBVIOUS
  <2>2. VisitOf(s, i) # VisitOf(s, j)
    BY <1>2, <1>4, <2>1
  <2>3. VisitOf(s, i) <= VisitOf(s, j) /\ VisitOf(s, i) \in Nat /\ VisitOf(s, j) \in Nat
    BY <1>1, <1>4, <2>1
  <2> QED BY <2>2, <2>3
<1>5. ASSUME NEW i \in 1 .. n, NEW j \in 1 .. n, VisitOf(s, i) < VisitOf(s, j)
      PROVE  i < j
  <2>1. ~(j <= i)
    <3>1. i \in Nat \ {0} /\ j \in Nat \ {0}
      OBVIOUS
    <3>2. VisitOf(s, i) \in Nat /\ VisitOf(s, j) \in Nat /\ (j <= i => VisitOf(s, j) <= VisitOf(s, i))
      BY <1>1, <3>1
    <3> QED BY <1>5, <3>2
  <2> QED BY <2>1
<1>6. ASSUME NEW i \in 1 .. n, NEW j \in 1 .. n, VisitOf(s, i) = VisitOf(s, j)
      PROVE  s[i].area = s[j].area
  <2>1. CASE i <= j
    <3>1. j \in i .. j
      BY <2>1
    <3> QED BY <1>2, <1>6, <2>1, <3>1
  <2>2. CASE j <= i
    <3>1. i \in j .. i
      BY <2>2
    <3> QED BY <1>2, <1>6, <2>2, <3>1
  <2> QED BY <2>1, <2>2
<1>7. ASSUME NEW v \in 1 .. VisitOf(s, n)
      PROVE  \E i \in 1 .. n : VisitOf(s, i) = v
  <2> DEFINE late == {i \in 1 .. n : v <= VisitOf(s, i)}
  <2>1. n \in late /\ late \in SUBSET Nat
    BY <1>1
  <2>2. PICK i \in late : \A j \in late : i <= j
    <3> HIDE DEF late
    <3> QED BY <2>1, LeastOf
  <2>3. i \in Nat \ {0} /\ VisitOf(s, i) \in Nat /\ v \in Nat /\ v <= VisitOf(s, i) /\ i \in 1 .. n
    BY <1>1
  <2>4. CASE i = 1
    BY <1>1, <2>3, <2>4
  <2>5. CASE i # 1
    <3>1. i - 1 \in Nat \ {0} /\ (i - 1) + 1 = i /\ i - 1 \in 1 .. n /\ i - 1 < i
      BY <2>3, <2>5
    <3>2. i - 1 \notin late
      BY <2>2, <3>1
    <3>3. VisitOf(s, i - 1) < v
      BY <1>1, <2>3, <3>1, <3>2
    <3>4. VisitOf(s, (i - 1) + 1)
            = VisitOf(s, i - 1) + (IF s[(i - 1) + 1].area # s[i - 1].area THEN 1 ELSE 0)
      BY <1>1, <3>1
    <3>5. VisitOf(s, i - 1) \in Nat
      BY <1>1, <3>1
    <3>6. VisitOf(s, i) = VisitOf(s, i - 1) \/ VisitOf(s, i) = VisitOf(s, i - 1) + 1
      BY <3>1, <3>4, <3>5
    <3> QED BY <2>3, <3>3, <3>5, <3>6
  <2> QED BY <2>4, <2>5
<1> QED BY <1>2, <1>3, <1>4, <1>5, <1>6, <1>7

\* A visit departs and arrives when one of its stops does, no later than any
\* of them that takes passengers up or sets them down.
LEMMA VisitTimes ==
  ASSUME NEW s, IsTrip(s), NEW v \in 1 .. VisitOf(s, Len(s))
  PROVE  /\ Visit(s, v).departure \in Nat /\ Visit(s, v).arrival \in Nat
         /\ \E i \in 1 .. Len(s) : /\ VisitOf(s, i) = v /\ Visit(s, v).departure = s[i].departure
                                   /\ Visit(s, v).pickup => s[i].pickup
         /\ \E i \in 1 .. Len(s) : /\ VisitOf(s, i) = v /\ Visit(s, v).arrival = s[i].arrival
                                   /\ Visit(s, v).dropOff => s[i].dropOff
         /\ \A i \in 1 .. Len(s) : VisitOf(s, i) = v =>
              /\ Visit(s, v).area = s[i].area
              /\ s[i].pickup => Visit(s, v).pickup /\ Visit(s, v).departure <= s[i].departure
              /\ s[i].dropOff => Visit(s, v).dropOff /\ Visit(s, v).arrival <= s[i].arrival
<1> DEFINE stops == {i \in DOMAIN s : VisitOf(s, i) = v}
           pickups == {i \in stops : s[i].pickup}
           dropOffs == {i \in stops : s[i].dropOff}
           leaving == IF pickups = {} THEN stops ELSE pickups
           coming == IF dropOffs = {} THEN stops ELSE dropOffs
           departures == {s[i].departure : i \in leaving}
           arrivals == {s[i].arrival : i \in coming}
<1>1. /\ Visit(s, v).area = s[Min(stops)].area
      /\ Visit(s, v).departure = Min(departures) /\ Visit(s, v).arrival = Min(arrivals)
      /\ Visit(s, v).pickup = (pickups # {}) /\ Visit(s, v).dropOff = (dropOffs # {})
  BY DEF Visit
<1>2. DOMAIN s = 1 .. Len(s) /\ Len(s) \in Nat \ {0}
  BY TimesIncrease
<1>3. \A i \in 1 .. Len(s) : s[i].departure \in Nat /\ s[i].arrival \in Nat
  BY <1>2 DEF IsTrip
<1>4. PICK first \in 1 .. Len(s) : VisitOf(s, first) = v
  BY <1>2, VisitsAreRuns
<1>5. first \in stops /\ stops \subseteq 1 .. Len(s)
  BY <1>2, <1>4
<1>6. /\ \A i \in stops : VisitOf(s, i) = v
      /\ pickups \subseteq stops /\ dropOffs \subseteq stops
      /\ \A i \in pickups : s[i].pickup
      /\ \A i \in dropOffs : s[i].dropOff
  OBVIOUS
<1>7. \A i \in 1 .. Len(s) : VisitOf(s, i) = v =>
        /\ i \in stops
        /\ s[i].pickup => i \in pickups
        /\ s[i].dropOff => i \in dropOffs
  BY <1>2
<1> HIDE DEF stops, pickups, dropOffs
<1>8. /\ leaving # {} /\ leaving \subseteq stops /\ (pickups # {} => leaving = pickups)
      /\ coming # {} /\ coming \subseteq stops /\ (dropOffs # {} => coming = dropOffs)
  BY <1>5, <1>6
<1> HIDE DEF leaving, coming
<1>9. /\ Min(departures) \in departures /\ \A x \in departures : Min(departures) <= x
      /\ departures \in SUBSET Nat
  <2>1. departures \in SUBSET Nat /\ departures # {}
    BY <1>3, <1>5, <1>8
  <2>2. departures \in SUBSET Int /\ 0 \in Int /\ \A i \in departures : 0 <= i
    BY <2>1
  <2> HIDE DEF departures
  <2> QED BY <2>1, <2>2, MinOf
<1>10. /\ Min(arrivals) \in arrivals /\ \A x \in arrivals : Min(arrivals) <= x
       /\ arrivals \in SUBSET Nat
  <2>1. arrivals \in SUBSET Nat /\ arrivals # {}
    BY <1>3, <1>5, <1>8
  <2>2. arrivals \in SUBSET Int /\ 0 \in Int /\ \A i \in arrivals : 0 <= i
    BY <2>1
  <2> HIDE DEF arrivals
  <2> QED BY <2>1, <2>2, MinOf
<1>11. Visit(s, v).departure \in Nat /\ Visit(s, v).arrival \in Nat
  BY <1>1, <1>9, <1>10
<1>12. \E i \in 1 .. Len(s) : /\ VisitOf(s, i) = v /\ Visit(s, v).departure = s[i].departure
                              /\ Visit(s, v).pickup => s[i].pickup
  <2>1. PICK i \in leaving : Min(departures) = s[i].departure
    BY <1>9
  <2>2. i \in 1 .. Len(s) /\ VisitOf(s, i) = v
    BY <1>5, <1>6, <1>8
  <2>3. Visit(s, v).pickup => s[i].pickup
    BY <1>1, <1>6, <1>8
  <2> QED BY <1>1, <2>1, <2>2, <2>3
<1>13. \E i \in 1 .. Len(s) : /\ VisitOf(s, i) = v /\ Visit(s, v).arrival = s[i].arrival
                              /\ Visit(s, v).dropOff => s[i].dropOff
  <2>1. PICK i \in coming : Min(arrivals) = s[i].arrival
    BY <1>10
  <2>2. i \in 1 .. Len(s) /\ VisitOf(s, i) = v
    BY <1>5, <1>6, <1>8
  <2>3. Visit(s, v).dropOff => s[i].dropOff
    BY <1>1, <1>6, <1>8
  <2> QED BY <1>1, <2>1, <2>2, <2>3
<1>14. Min(stops) \in stops
  <2>1. stops \in SUBSET Int /\ stops # {} /\ 0 \in Int /\ \A i \in stops : 0 <= i
    BY <1>2, <1>5
  <2> QED BY <2>1, MinOf
<1>15. ASSUME NEW i \in 1 .. Len(s), VisitOf(s, i) = v
       PROVE  /\ Visit(s, v).area = s[i].area
              /\ s[i].pickup => Visit(s, v).pickup /\ Visit(s, v).departure <= s[i].departure
              /\ s[i].dropOff => Visit(s, v).dropOff /\ Visit(s, v).arrival <= s[i].arrival
  <2>1. Visit(s, v).area = s[i].area
    <3>1. Min(stops) \in 1 .. Len(s) /\ VisitOf(s, Min(stops)) = VisitOf(s, i)
      BY <1>5, <1>6, <1>14, <1>15
    <3> QED BY <1>1, <1>2, <3>1, VisitsAreRuns
  <2>2. ASSUME s[i].pickup
        PROVE  Visit(s, v).pickup /\ Visit(s, v).departure <= s[i].departure
    <3>1. i \in pickups /\ i \in leaving
      BY <1>7, <1>8, <1>15, <2>2
    <3>2. s[i].departure \in departures
      BY <3>1
    <3> QED BY <1>1, <1>9, <3>1, <3>2
  <2>3. ASSUME s[i].dropOff
        PROVE  Visit(s, v).dropOff /\ Visit(s, v).arrival <= s[i].arrival
    <3>1. i \in dropOffs /\ i \in coming
      BY <1>7, <1>8, <1>15, <2>3
    <3>2. s[i].arrival \in arrivals
      BY <3>1
    <3> QED BY <1>1, <1>10, <3>1, <3>2
  <2> QED BY <2>1, <2>2, <2>3
<1> QED BY <1>11, <1>12, <1>13, <1>15

\* The visits of a trip are in order of time.
LEMMA VisitsIncrease ==
  ASSUME NEW s, IsTrip(s), NEW v \in 1 .. VisitOf(s, Len(s)), NEW w \in 1 .. VisitOf(s, Len(s)), v < w
  PROVE  /\ Visit(s, v).departure <= Visit(s, w).arrival
         /\ Visit(s, v).departure <= Visit(s, w).departure
         /\ Visit(s, v).arrival <= Visit(s, w).arrival
<1>1. /\ Len(s) \in Nat \ {0}
      /\ \A i, j \in 1 .. Len(s) :
              i <= j => s[i].arrival <= s[j].arrival /\ s[i].departure <= s[j].departure
      /\ \A i, j \in 1 .. Len(s) : i < j => s[i].departure <= s[j].arrival
  BY TimesIncrease
<1>2. \A i, j \in 1 .. Len(s) : VisitOf(s, i) < VisitOf(s, j) => i < j
  BY <1>1, VisitsAreRuns
<1>3. \A i, j \in 1 .. Len(s) : VisitOf(s, i) = v /\ VisitOf(s, j) = w => i < j
  BY <1>2
<1>4. PICK i \in 1 .. Len(s) : VisitOf(s, i) = v /\ Visit(s, v).departure = s[i].departure
  BY VisitTimes
<1>5. PICK h \in 1 .. Len(s) : VisitOf(s, h) = v /\ Visit(s, v).arrival = s[h].arrival
  BY VisitTimes
<1>6. PICK j \in 1 .. Len(s) : VisitOf(s, j) = w /\ Visit(s, w).departure = s[j].departure
  BY VisitTimes
<1>7. PICK k \in 1 .. Len(s) : VisitOf(s, k) = w /\ Visit(s, w).arrival = s[k].arrival
  BY VisitTimes
<1>8. i < k /\ i < j /\ h < k
  BY <1>3, <1>4, <1>5, <1>6, <1>7
<1>9. i <= j /\ h <= k
  BY <1>8
<1> QED BY <1>1, <1>4, <1>5, <1>6, <1>7, <1>8, <1>9

-------------------------------------------------------------------------------
(* The connections of a feed.                                              *)

\* A feed of which the compiler accepts the trips.
HasTrips(f) ==
  \A t \in Trips : IsTrip(f.stopTimes[t]) /\ f.service[t] \in Services

Visits(f, t) == VisitOf(f.stopTimes[t], Len(f.stopTimes[t]))
AllConnections(f) == UNION {TripConnections(f, t) : t \in Trips}

\* The connections are one for each visit but the last of each trip.
LEMMA ConnectionsOfTrips ==
  ASSUME NEW f, HasTrips(f)
  PROVE  /\ \A c \in AllConnections(f) :
              \E t \in Trips : \E v \in 1 .. Visits(f, t) - 1 : c = Connection(f, t, v)
         /\ \A t \in Trips : \A v \in 1 .. Visits(f, t) - 1 : Connection(f, t, v) \in AllConnections(f)
         /\ \A t \in Trips : Visits(f, t) \in Nat \ {0}
         /\ IsFiniteSet(AllConnections(f))
<1>1. /\ \A c \in AllConnections(f) :
              \E t \in Trips : \E v \in 1 .. Visits(f, t) - 1 : c = Connection(f, t, v)
      /\ \A t \in Trips : \A v \in 1 .. Visits(f, t) - 1 : Connection(f, t, v) \in AllConnections(f)
  BY DEF AllConnections, TripConnections, Visits
<1>2. ASSUME NEW t \in Trips
      PROVE  Visits(f, t) \in Nat \ {0}
  <2>1. Len(f.stopTimes[t]) \in Nat \ {0}
    BY TimesIncrease DEF HasTrips
  <2> QED BY <2>1, VisitsCount DEF Visits
<1>3. ASSUME NEW t \in Trips
      PROVE  IsFiniteSet(TripConnections(f, t))
  <2> DEFINE g == [v \in 1 .. Visits(f, t) - 1 |-> Connection(f, t, v)]
  <2>1. TripConnections(f, t) = {Connection(f, t, v) : v \in 1 .. Visits(f, t) - 1}
    BY DEF TripConnections, Visits
  <2>2. g \in Surjection(1 .. Visits(f, t) - 1, TripConnections(f, t))
    <3>1. g \in [1 .. Visits(f, t) - 1 -> TripConnections(f, t)]
      BY <2>1
    <3>2. \A c \in TripConnections(f, t) : \E v \in 1 .. Visits(f, t) - 1 : g[v] = c
      BY <2>1
    <3> HIDE DEF g
    <3> QED BY <3>1, <3>2 DEF Surjection
  <2>3. IsFiniteSet(1 .. Visits(f, t) - 1)
    <3>1. 1 \in Int /\ Visits(f, t) - 1 \in Int
      BY <1>2
    <3> QED BY <3>1, FS_Interval
  <2> HIDE DEF g
  <2> QED BY <2>2, <2>3, FS_Surjection
<1>4. IsFiniteSet({TripConnections(f, t) : t \in Trips})
  <2> DEFINE g == [t \in Trips |-> TripConnections(f, t)]
             T == {TripConnections(f, t) : t \in Trips}
  <2>1. g \in [Trips -> T] /\ \A c \in T : \E t \in Trips : g[t] = c
    OBVIOUS
  <2>2. IsFiniteSet(Trips)
    BY ScheduleAssumption
  <2> HIDE DEF g, T
  <2>3. g \in Surjection(Trips, T)
    BY <2>1 DEF Surjection
  <2>4. IsFiniteSet(T)
    BY <2>2, <2>3, FS_Surjection
  <2> QED BY <2>4 DEF T
<1>5. IsFiniteSet(AllConnections(f))
  BY <1>3, <1>4, FS_UNION DEF AllConnections
<1> QED BY <1>1, <1>2, <1>5

\* What a connection says.
LEMMA ConnectionFacts ==
  ASSUME NEW f, HasTrips(f), NEW t \in Trips, NEW v \in 1 .. Visits(f, t) - 1
  PROVE  LET c == Connection(f, t, v)
         IN  /\ c.trip = t /\ c.visit = v /\ c.service = f.service[t]
             /\ c.departure \in Nat /\ c.arrival \in Nat /\ c.departure <= c.arrival
             /\ \A w \in 1 .. Visits(f, t) - 1 : v < w =>
                  /\ c.departure <= Connection(f, t, w).departure
                  /\ c.arrival <= Connection(f, t, w).arrival
<1> DEFINE s == f.stopTimes[t]  c == Connection(f, t, v)
<1>1. IsTrip(s) /\ Visits(f, t) = VisitOf(s, Len(s)) /\ Visits(f, t) \in Nat \ {0}
  BY ConnectionsOfTrips DEF HasTrips, Visits
<1>2. v \in 1 .. VisitOf(s, Len(s)) /\ v + 1 \in 1 .. VisitOf(s, Len(s)) /\ v < v + 1
  BY <1>1
<1>3. /\ c.trip = t /\ c.visit = v /\ c.service = f.service[t]
      /\ c.departure = Visit(s, v).departure /\ c.arrival = Visit(s, v + 1).arrival
  BY DEF Connection
<1>4. c.departure \in Nat /\ c.arrival \in Nat /\ c.departure <= c.arrival
  BY <1>1, <1>2, <1>3, VisitTimes, VisitsIncrease
<1>5. ASSUME NEW w \in 1 .. Visits(f, t) - 1, v < w
      PROVE  /\ c.departure <= Connection(f, t, w).departure
             /\ c.arrival <= Connection(f, t, w).arrival
  <2>1. /\ w \in 1 .. VisitOf(s, Len(s)) /\ w + 1 \in 1 .. VisitOf(s, Len(s))
        /\ v + 1 < w + 1
    BY <1>1, <1>5
  <2>2. /\ Connection(f, t, w).departure = Visit(s, w).departure
        /\ Connection(f, t, w).arrival = Visit(s, w + 1).arrival
    BY DEF Connection
  <2>3. Visit(s, v).departure <= Visit(s, w).departure
    BY <1>1, <1>2, <1>5, <2>1, VisitsIncrease
  <2>4. Visit(s, v + 1).arrival <= Visit(s, w + 1).arrival
    BY <1>1, <1>2, <2>1, VisitsIncrease
  <2> QED BY <1>3, <2>2, <2>3, <2>4
<1> HIDE DEF c
<1>6. QED BY <1>3, <1>4, <1>5 DEF c

SoonerPairs(f) == {p \in AllConnections(f) \X AllConnections(f) : Sooner(p[1], p[2])}

\* Connections have numbers for all their keys.
LEMMA ConnectionType ==
  ASSUME NEW f, HasTrips(f), NEW c \in AllConnections(f)
  PROVE  /\ c.departure \in Nat /\ c.arrival \in Nat /\ c.departure <= c.arrival
         /\ c.trip \in Trips /\ c.trip \in Nat /\ c.service \in Services /\ c.service \in Nat
         /\ c.service = f.service[c.trip]
         /\ c.visit \in 1 .. Visits(f, c.trip) - 1 /\ c.visit \in Nat \ {0}
         /\ c = Connection(f, c.trip, c.visit)
<1>0. PICK t \in Trips : \E v \in 1 .. Visits(f, t) - 1 : c = Connection(f, t, v)
  BY ConnectionsOfTrips
<1>1. PICK v \in 1 .. Visits(f, t) - 1 : c = Connection(f, t, v)
  BY <1>0
<1>2. /\ c.trip = t /\ c.visit = v /\ c.service = f.service[t]
      /\ c.departure \in Nat /\ c.arrival \in Nat /\ c.departure <= c.arrival
  BY <1>1, ConnectionFacts
<1>3. t \in Nat /\ f.service[t] \in Services /\ f.service[t] \in Nat
  BY ScheduleAssumption DEF HasTrips
<1>4. v \in Nat \ {0}
  BY ConnectionsOfTrips
<1> QED BY <1>1, <1>2, <1>3, <1>4

\* compareScheduledConnections orders the connections.
LEMMA SoonerOrders ==
  ASSUME NEW f, HasTrips(f)
  PROVE  Orders(SoonerPairs(f), AllConnections(f))
<1> DEFINE all == AllConnections(f)
<1>1. \A c, d \in all : <<c, d>> \in SoonerPairs(f) <=> Sooner(c, d)
  BY DEF SoonerPairs
<1>2. \A c \in all : /\ c.departure \in Nat /\ c.arrival \in Nat /\ c.service \in Nat
                     /\ c.trip \in Nat /\ c.visit \in Nat
  BY ConnectionType
<1>3. ASSUME NEW c \in all
      PROVE  ~Sooner(c, c)
  BY <1>2 DEF Sooner
<1>4. ASSUME NEW c \in all, NEW d \in all, NEW e \in all, Sooner(c, d), Sooner(d, e)
      PROVE  Sooner(c, e)
  BY <1>2, <1>4 DEF Sooner
<1>5. ASSUME NEW c \in all, NEW d \in all, ~Sooner(c, d), ~Sooner(d, c)
      PROVE  c = d
  <2>1. c.trip = d.trip /\ c.visit = d.visit
    BY <1>2, <1>5 DEF Sooner
  <2>2. c = Connection(f, c.trip, c.visit) /\ d = Connection(f, d.trip, d.visit)
    BY ConnectionType
  <2> QED BY <2>1, <2>2
<1> QED BY <1>1, <1>3, <1>4, <1>5 DEF Orders

\* The compiled connections are those of the trips, each once, in order.
LEMMA ConnectionsAreSorted ==
  ASSUME NEW f, HasTrips(f)
  PROVE  LET cs == Connections(f)
         IN  /\ Len(cs) \in Nat /\ DOMAIN cs = 1 .. Len(cs) /\ cs \in Seq(AllConnections(f))
             /\ \A i \in 1 .. Len(cs) : cs[i] \in AllConnections(f)
             /\ \A c \in AllConnections(f) : \E i \in 1 .. Len(cs) : cs[i] = c
             /\ \A i, j \in 1 .. Len(cs) : i < j <=> Sooner(cs[i], cs[j])
             /\ \A i, j \in 1 .. Len(cs) : cs[i] = cs[j] => i = j
<1> DEFINE all == AllConnections(f)
           R == SoonerPairs(f)
           cs == Connections(f)
           rank(c) == Cardinality(Before(R, all, c))
<1>1. /\ Cardinality(all) \in Nat
      /\ \A x \in all : rank(x) \in 0 .. Cardinality(all) - 1
      /\ \A x, y \in all : <<x, y>> \in R <=> rank(x) < rank(y)
      /\ \A x, y \in all : rank(x) = rank(y) => x = y
      /\ \A n \in 0 .. Cardinality(all) - 1 : \E x \in all : rank(x) = n
  <2>1. IsFiniteSet(all) /\ Orders(R, all)
    BY ConnectionsOfTrips, SoonerOrders
  <2> HIDE DEF all, R
  <2> QED BY <2>1, Ranked
<1>2. ASSUME NEW c \in all
      PROVE  Cardinality({d \in all : Precedes(SortKey(d), SortKey(c))}) = rank(c)
  <2>1. \A d \in all : Precedes(SortKey(d), SortKey(c)) <=> Sooner(d, c)
    BY SortKeysCompare
  <2>2. \A d \in all : <<d, c>> \in R <=> Sooner(d, c)
    BY DEF SoonerPairs
  <2>3. {d \in all : Precedes(SortKey(d), SortKey(c))} = Before(R, all, c)
    <3> HIDE DEF all, R
    <3> QED BY <2>1, <2>2 DEF Before
  <2> QED BY <2>3
<1>3. cs = [n \in 1 .. Cardinality(all) |->
              CHOOSE c \in all :
                Cardinality({d \in all : Precedes(SortKey(d), SortKey(c))}) = n - 1]
  BY DEF Connections, AllConnections
<1> HIDE DEF cs, all, R, rank
<1>4. ASSUME NEW n \in 1 .. Cardinality(all)
      PROVE  cs[n] \in all /\ rank(cs[n]) = n - 1
  <2>1. n - 1 \in 0 .. Cardinality(all) - 1
    BY <1>1
  <2>2. \E c \in all : Cardinality({d \in all : Precedes(SortKey(d), SortKey(c))}) = n - 1
    BY <1>1, <1>2, <2>1
  <2>3. cs[n] = CHOOSE c \in all :
                  Cardinality({d \in all : Precedes(SortKey(d), SortKey(c))}) = n - 1
    BY <1>3
  <2>4. /\ cs[n] \in all
        /\ Cardinality({d \in all : Precedes(SortKey(d), SortKey(cs[n]))}) = n - 1
    BY <2>2, <2>3
  <2> QED BY <1>2, <2>4
<1>5. /\ Len(cs) = Cardinality(all) /\ DOMAIN cs = 1 .. Len(cs) /\ cs \in Seq(all)
      /\ Len(cs) \in Nat
  <2>1. cs \in [1 .. Cardinality(all) -> all]
    BY <1>3, <1>4
  <2> QED BY <1>1, <2>1
<1>6. \A i \in 1 .. Len(cs) : cs[i] \in all /\ rank(cs[i]) = i - 1
  BY <1>4, <1>5
<1>7. \A c \in all : \E i \in 1 .. Len(cs) : cs[i] = c
  <2> TAKE c \in all
  <2>1. rank(c) \in 0 .. Cardinality(all) - 1
    BY <1>1
  <2>2. rank(c) + 1 \in 1 .. Len(cs)
    BY <1>1, <1>5, <2>1
  <2>3. rank(cs[rank(c) + 1]) = (rank(c) + 1) - 1 /\ cs[rank(c) + 1] \in all
    BY <1>6, <2>2
  <2>4. rank(cs[rank(c) + 1]) = rank(c)
    BY <2>1, <2>3
  <2>5. cs[rank(c) + 1] = c
    BY <1>1, <2>3, <2>4
  <2> QED BY <2>2, <2>5
<1>8. ASSUME NEW i \in 1 .. Len(cs), NEW j \in 1 .. Len(cs)
      PROVE  /\ i < j <=> Sooner(cs[i], cs[j])
             /\ cs[i] = cs[j] => i = j
  <2>1. /\ cs[i] \in all /\ rank(cs[i]) = i - 1
        /\ cs[j] \in all /\ rank(cs[j]) = j - 1
    BY <1>6
  <2>2. <<cs[i], cs[j]>> \in R <=> i - 1 < j - 1
    BY <1>1, <2>1
  <2>3. <<cs[i], cs[j]>> \in R <=> Sooner(cs[i], cs[j])
    BY <2>1 DEF R, SoonerPairs, all
  <2>4. i \in Int /\ j \in Int
    BY <1>5
  <2> QED BY <2>1, <2>2, <2>3, <2>4
<1>9. \A i \in 1 .. Len(cs) : cs[i] \in all
  BY <1>6
<1> QED BY <1>5, <1>7, <1>8, <1>9 DEF cs, all

\* What the window needs to know of a sequence of connections: it is in order
\* of departure, and the connections of a trip are one for each visit, in order.
IsTimetable(cs) ==
  /\ Len(cs) \in Nat /\ DOMAIN cs = 1 .. Len(cs)
  /\ \A i \in 1 .. Len(cs) :
       /\ cs[i].departure \in Nat /\ cs[i].arrival \in Nat /\ cs[i].departure <= cs[i].arrival
       /\ cs[i].trip \in Trips /\ cs[i].service \in Services /\ cs[i].visit \in Nat \ {0}
  /\ \A i, j \in 1 .. Len(cs) : i <= j => cs[i].departure <= cs[j].departure
  /\ \A i, j \in 1 .. Len(cs) : cs[i].trip = cs[j].trip =>
       /\ cs[i].service = cs[j].service
       /\ cs[i].visit = cs[j].visit => i = j
       /\ cs[i].visit < cs[j].visit <=> i < j
  /\ \A i \in 1 .. Len(cs) : \A v \in 1 .. cs[i].visit :
       \E j \in 1 .. Len(cs) : cs[j].trip = cs[i].trip /\ cs[j].visit = v

\* The connections of a feed are a timetable.
LEMMA CompiledIsTimetable ==
  ASSUME NEW f, HasTrips(f)
  PROVE  IsTimetable(Connections(f))
<1> DEFINE cs == Connections(f)
<1>1. /\ Len(cs) \in Nat /\ DOMAIN cs = 1 .. Len(cs)
      /\ \A i \in 1 .. Len(cs) : cs[i] \in AllConnections(f)
      /\ \A c \in AllConnections(f) : \E i \in 1 .. Len(cs) : cs[i] = c
      /\ \A i, j \in 1 .. Len(cs) : i < j <=> Sooner(cs[i], cs[j])
      /\ \A i, j \in 1 .. Len(cs) : cs[i] = cs[j] => i = j
  BY ConnectionsAreSorted
<1> HIDE DEF cs
<1>2. \A i \in 1 .. Len(cs) :
        /\ cs[i].departure \in Nat /\ cs[i].arrival \in Nat /\ cs[i].departure <= cs[i].arrival
        /\ cs[i].trip \in Trips /\ cs[i].service \in Services /\ cs[i].visit \in Nat \ {0}
        /\ cs[i].service \in Nat /\ cs[i].trip \in Nat
        /\ cs[i].service = f.service[cs[i].trip]
        /\ cs[i].visit \in 1 .. Visits(f, cs[i].trip) - 1
        /\ cs[i] = Connection(f, cs[i].trip, cs[i].visit)
  BY <1>1, ConnectionType
<1>3. \A t \in Trips : Visits(f, t) \in Nat \ {0}
  BY ConnectionsOfTrips
<1>4. ASSUME NEW i \in 1 .. Len(cs), NEW j \in 1 .. Len(cs), i <= j
      PROVE  cs[i].departure <= cs[j].departure
  <2>1. CASE i = j
    BY <1>2, <2>1
  <2>2. CASE i # j
    <3>1. Sooner(cs[i], cs[j])
      BY <1>1, <1>4, <2>2
    <3> QED BY <1>2, <3>1 DEF Sooner
  <2> QED BY <2>1, <2>2
<1>5. ASSUME NEW i \in 1 .. Len(cs), NEW j \in 1 .. Len(cs), cs[i].trip = cs[j].trip,
             cs[i].visit < cs[j].visit
      PROVE  i < j
  <2>1. /\ cs[i].departure <= cs[j].departure /\ cs[i].arrival <= cs[j].arrival
    BY <1>2, <1>5, ConnectionFacts
  <2>2. cs[i].service = cs[j].service
    BY <1>2, <1>5
  <2>3. Sooner(cs[i], cs[j])
    BY <1>2, <1>5, <2>1, <2>2 DEF Sooner
  <2> QED BY <1>1, <2>3
<1>6. ASSUME NEW i \in 1 .. Len(cs), NEW j \in 1 .. Len(cs), cs[i].trip = cs[j].trip
      PROVE  /\ cs[i].service = cs[j].service
             /\ cs[i].visit = cs[j].visit => i = j
             /\ cs[i].visit < cs[j].visit <=> i < j
  <2>1. cs[i].service = cs[j].service
    BY <1>2, <1>6
  <2>2. cs[i].visit = cs[j].visit => i = j
    <3>1. cs[i].visit = cs[j].visit => cs[i] = cs[j]
      BY <1>2, <1>6
    <3> QED BY <1>1, <3>1
  <2>3. /\ cs[i].visit < cs[j].visit => i < j
        /\ cs[j].visit < cs[i].visit => j < i
    BY <1>5, <1>6
  <2>4. cs[i].visit \in Nat /\ cs[j].visit \in Nat /\ i \in Nat /\ j \in Nat
    BY <1>2
  <2> QED BY <2>1, <2>2, <2>3, <2>4
<1>7. ASSUME NEW i \in 1 .. Len(cs), NEW v \in 1 .. cs[i].visit
      PROVE  \E j \in 1 .. Len(cs) : cs[j].trip = cs[i].trip /\ cs[j].visit = v
  <2> DEFINE t == cs[i].trip
  <2>1. t \in Trips /\ cs[i].visit \in 1 .. Visits(f, t) - 1 /\ Visits(f, t) \in Nat
    BY <1>2, <1>3
  <2>2. v \in 1 .. Visits(f, t) - 1
    BY <2>1
  <2>3. Connection(f, t, v) \in AllConnections(f)
    BY <2>1, <2>2, ConnectionsOfTrips
  <2>4. Connection(f, t, v).trip = t /\ Connection(f, t, v).visit = v
    BY <2>1, <2>2, ConnectionFacts
  <2>5. PICK j \in 1 .. Len(cs) : cs[j] = Connection(f, t, v)
    BY <1>1, <2>3
  <2> QED BY <2>4, <2>5
<1>8. \A i \in 1 .. Len(cs) :
       /\ cs[i].departure \in Nat /\ cs[i].arrival \in Nat /\ cs[i].departure <= cs[i].arrival
       /\ cs[i].trip \in Trips /\ cs[i].service \in Services /\ cs[i].visit \in Nat \ {0}
  BY <1>2
<1> QED BY <1>1, <1>4, <1>6, <1>7, <1>8 DEF IsTimetable, cs

\* The compiled connections offer nothing but what the trips do, and all of it
\* to who is there in time.
LEMMA TripsKept ==
  ASSUME NEW f, HasTrips(f)
  PROVE  TripsAreKept(f, Connections(f))
<1> DEFINE cs == Connections(f)
<1> SUFFICES ASSUME NEW t \in Trips
             PROVE  /\ Legs(cs, t) \subseteq Hops(f, t)
                    /\ \A h \in Hops(f, t) : \E l \in Legs(cs, t) :
                         /\ l.from = h.from /\ l.departure <= h.departure
                         /\ l.to = h.to /\ l.arrival <= h.arrival
  BY DEF TripsAreKept
<1> DEFINE s == f.stopTimes[t]
           n == Len(s)
           own == {c \in ToSet(cs) : c.trip = t}
           boards == {q \in own \X own : q[1].visit <= q[2].visit /\ q[1].pickup /\ q[2].dropOff}
           rides == {q \in (DOMAIN s) \X (DOMAIN s) :
                       /\ q[1] < q[2] /\ s[q[1]].pickup /\ s[q[2]].dropOff
                       /\ \E m \in q[1] + 1 .. q[2] : s[m].area # s[q[1]].area}
<1>1. IsTrip(s) /\ DOMAIN s = 1 .. n /\ n \in Nat \ {0}
  <2>1. IsTrip(s)
    BY DEF HasTrips
  <2> QED BY <2>1, TimesIncrease
<1>2. Visits(f, t) = VisitOf(s, n) /\ VisitOf(s, n) \in Nat \ {0}
  BY <1>1, VisitsCount DEF Visits
<1>3. \A c \in own : /\ c.visit \in 1 .. VisitOf(s, n) - 1
                     /\ c = Connection(f, t, c.visit)
  <2> SUFFICES ASSUME NEW c \in own
               PROVE  c.visit \in 1 .. VisitOf(s, n) - 1 /\ c = Connection(f, t, c.visit)
    OBVIOUS
  <2>1. c \in AllConnections(f) /\ c.trip = t
    BY ConnectionsAreSorted DEF ToSet
  <2> QED BY <1>2, <2>1, ConnectionType
<1>4. ASSUME NEW v \in 1 .. VisitOf(s, n) - 1
      PROVE  Connection(f, t, v) \in own /\ Connection(f, t, v).visit = v
  <2>1. Connection(f, t, v) \in AllConnections(f)
    BY <1>2, ConnectionsOfTrips
  <2>2. Connection(f, t, v).trip = t /\ Connection(f, t, v).visit = v
    BY <1>2, ConnectionFacts
  <2>3. Connection(f, t, v) \in ToSet(cs)
    BY <2>1, ConnectionsAreSorted DEF ToSet
  <2> QED BY <2>2, <2>3
<1>5. /\ Legs(cs, t) = {[from |-> p[1].from, departure |-> p[1].departure,
                         to |-> p[2].to, arrival |-> p[2].arrival] : p \in boards}
      /\ Hops(f, t) = {[from |-> s[p[1]].area, departure |-> s[p[1]].departure,
                        to |-> s[p[2]].area, arrival |-> s[p[2]].arrival] : p \in rides}
  BY DEF Legs, Hops
<1>6. ASSUME NEW v \in 1 .. VisitOf(s, n) - 1
      PROVE  LET c == Connection(f, t, v)
             IN  /\ c.from = Visit(s, v).area /\ c.departure = Visit(s, v).departure
                 /\ c.pickup = Visit(s, v).pickup
                 /\ c.to = Visit(s, v + 1).area /\ c.arrival = Visit(s, v + 1).arrival
                 /\ c.dropOff = Visit(s, v + 1).dropOff
                 /\ v \in 1 .. VisitOf(s, n) /\ v + 1 \in 1 .. VisitOf(s, n)
  BY <1>2 DEF Connection
<1> HIDE DEF own, cs, s, n
<1>7. ASSUME NEW l \in Legs(cs, t)
      PROVE  l \in Hops(f, t)
  <2>1. PICK p \in boards : l = [from |-> p[1].from, departure |-> p[1].departure,
                                 to |-> p[2].to, arrival |-> p[2].arrival]
    BY <1>5
  <2> DEFINE b == p[1]  e == p[2]
  <2>2. b \in own /\ e \in own /\ b.visit <= e.visit /\ b.pickup /\ e.dropOff
    OBVIOUS
  <2>3. /\ b.visit \in 1 .. VisitOf(s, n) - 1 /\ b = Connection(f, t, b.visit)
        /\ e.visit \in 1 .. VisitOf(s, n) - 1 /\ e = Connection(f, t, e.visit)
    BY <1>3, <2>2
  <2> HIDE DEF b, e
  <2>4. /\ b.from = Visit(s, b.visit).area /\ b.departure = Visit(s, b.visit).departure
        /\ b.pickup = Visit(s, b.visit).pickup /\ b.visit \in 1 .. VisitOf(s, n)
        /\ e.to = Visit(s, e.visit + 1).area /\ e.arrival = Visit(s, e.visit + 1).arrival
        /\ e.dropOff = Visit(s, e.visit + 1).dropOff /\ e.visit + 1 \in 1 .. VisitOf(s, n)
    BY <1>6, <2>3
  <2>5. PICK i \in 1 .. n : /\ VisitOf(s, i) = b.visit /\ b.departure = s[i].departure /\ s[i].pickup
    <3>1. Visit(s, b.visit).pickup
      BY <2>2, <2>4
    <3>2. \E i \in 1 .. n : /\ VisitOf(s, i) = b.visit /\ Visit(s, b.visit).departure = s[i].departure
                            /\ Visit(s, b.visit).pickup => s[i].pickup
      BY <1>1, <2>4, VisitTimes DEF n
    <3> QED BY <2>4, <3>1, <3>2
  <2>6. PICK j \in 1 .. n : /\ VisitOf(s, j) = e.visit + 1 /\ e.arrival = s[j].arrival /\ s[j].dropOff
    BY <1>1, <2>2, <2>4, VisitTimes DEF n
  <2>7. b.from = s[i].area /\ e.to = s[j].area
    BY <1>1, <2>4, <2>5, <2>6, VisitTimes DEF n
  <2>8. VisitOf(s, i) < VisitOf(s, j)
    BY <1>2, <2>2, <2>3, <2>5, <2>6
  <2>9. i < j
    BY <1>1, <2>8, VisitsAreRuns
  <2>10. \E m \in i + 1 .. j : s[m].area # s[i].area
    <3>1. i <= j
      BY <1>1, <2>9
    <3> QED BY <1>1, <2>8, <3>1, VisitsAreRuns
  <2>11. <<i, j>> \in rides
    BY <1>1, <2>5, <2>6, <2>9, <2>10
  <2> HIDE DEF rides, boards
  <2>12. l = [from |-> s[i].area, departure |-> s[i].departure, to |-> s[j].area, arrival |-> s[j].arrival]
    BY <2>1, <2>5, <2>6, <2>7 DEF b, e
  <2> QED BY <1>5, <2>11, <2>12
<1>8. ASSUME NEW h \in Hops(f, t)
      PROVE  \E l \in Legs(cs, t) : /\ l.from = h.from /\ l.departure <= h.departure
                                    /\ l.to = h.to /\ l.arrival <= h.arrival
  <2>1. PICK p \in rides : h = [from |-> s[p[1]].area, departure |-> s[p[1]].departure,
                                to |-> s[p[2]].area, arrival |-> s[p[2]].arrival]
    BY <1>5
  <2> DEFINE i == p[1]  j == p[2]
  <2>2. /\ i \in 1 .. n /\ j \in 1 .. n /\ i < j /\ s[i].pickup /\ s[j].dropOff
        /\ \E m \in i + 1 .. j : s[m].area # s[i].area
    BY <1>1
  <2> HIDE DEF i, j
  <2> DEFINE v == VisitOf(s, i)  w == VisitOf(s, j) - 1
  <2>3. VisitOf(s, i) < VisitOf(s, j)
    <3>1. i <= j
      BY <1>1, <2>2
    <3> QED BY <1>1, <2>2, <3>1, VisitsAreRuns
  <2>4. /\ VisitOf(s, i) \in Nat \ {0} /\ VisitOf(s, j) \in Nat \ {0}
        /\ VisitOf(s, j) <= VisitOf(s, n)
    <3>1. i \in Nat \ {0} /\ j \in Nat \ {0} /\ j <= n
      BY <1>1, <2>2
    <3>2. VisitOf(s, i) \in Nat \ {0} /\ VisitOf(s, j) \in Nat \ {0}
      BY <3>1, VisitsCount
    <3>3. VisitOf(s, j) <= VisitOf(s, n)
      BY <1>1, <3>1, VisitsCount
    <3> QED BY <3>2, <3>3
  <2>5. /\ v \in 1 .. VisitOf(s, n) - 1 /\ w \in 1 .. VisitOf(s, n) - 1 /\ v <= w
        /\ w + 1 = VisitOf(s, j) /\ VisitOf(s, i) = v
    BY <1>2, <2>3, <2>4
  <2> HIDE DEF v, w
  <2> DEFINE b == Connection(f, t, v)  e == Connection(f, t, w)
  <2>6. b \in own /\ e \in own /\ b.visit = v /\ e.visit = w
    BY <1>4, <2>5
  <2>7. /\ b.from = Visit(s, v).area /\ b.departure = Visit(s, v).departure
        /\ b.pickup = Visit(s, v).pickup /\ v \in 1 .. VisitOf(s, n)
        /\ e.to = Visit(s, w + 1).area /\ e.arrival = Visit(s, w + 1).arrival
        /\ e.dropOff = Visit(s, w + 1).dropOff /\ w + 1 \in 1 .. VisitOf(s, n)
    BY <1>6, <2>5
  <2> HIDE DEF b, e
  <2>8. /\ Visit(s, v).area = s[i].area /\ Visit(s, v).pickup
        /\ Visit(s, v).departure <= s[i].departure
    BY <1>1, <2>2, <2>5, <2>7, VisitTimes DEF n
  <2>9. /\ Visit(s, w + 1).area = s[j].area /\ Visit(s, w + 1).dropOff
        /\ Visit(s, w + 1).arrival <= s[j].arrival
    BY <1>1, <2>2, <2>5, <2>7, VisitTimes DEF n
  <2> DEFINE l == [from |-> b.from, departure |-> b.departure, to |-> e.to, arrival |-> e.arrival]
  <2>10. <<b, e>> \in boards
    BY <2>5, <2>6, <2>7, <2>8, <2>9
  <2>11. l \in Legs(cs, t)
    <3> HIDE DEF boards, rides
    <3> QED BY <1>5, <2>10
  <2>12. /\ l.from = h.from /\ l.departure <= h.departure
         /\ l.to = h.to /\ l.arrival <= h.arrival
    BY <2>1, <2>7, <2>8, <2>9 DEF i, j
  <2> HIDE DEF l
  <2> QED BY <2>11, <2>12
<1> QED BY <1>7, <1>8 DEF cs

-------------------------------------------------------------------------------
(* What compiles loads.                                                    *)

\* Finitely many numbers have a bound.
LEMMA Bounded ==
  ASSUME NEW n \in Nat, NEW g \in [1 .. n -> Nat]
  PROVE  \E b \in Nat : \A i \in 1 .. n : g[i] <= b
<1> DEFINE good == {k \in Nat : k <= n => \E b \in Nat : \A i \in 1 .. k : g[i] <= b}
<1>1. 0 \in good
  OBVIOUS
<1>2. ASSUME NEW k \in Nat, 0 <= k, k < n, k \in good
      PROVE  k + 1 \in good
  <2>1. PICK b \in Nat : \A i \in 1 .. k : g[i] <= b
    BY <1>2
  <2>2. g[k + 1] \in Nat
    BY <1>2
  <2>3. PICK c \in Nat : b <= c /\ g[k + 1] <= c
    <3>1. b + g[k + 1] \in Nat /\ b <= b + g[k + 1] /\ g[k + 1] <= b + g[k + 1]
      BY <2>2
    <3> QED BY <3>1
  <2>4. \A i \in 1 .. k + 1 : g[i] <= c
    <3> TAKE i \in 1 .. k + 1
    <3>1. i = k + 1 \/ i \in 1 .. k
      OBVIOUS
    <3>2. i \in 1 .. n
      BY <1>2
    <3> QED BY <2>1, <2>2, <2>3, <3>1, <3>2
  <2> QED BY <2>4
<1>3. 0 .. n \subseteq good
  <2>1. good \in SUBSET Nat /\ 0 \in Nat /\ n \in Nat
    OBVIOUS
  <2>2. \A k \in Nat : 0 <= k /\ k < n /\ k \in good => k + 1 \in good
    BY <1>2
  <2> HIDE DEF good
  <2> QED BY <1>1, <2>1, <2>2, UpTo
<1>4. n \in good
  <2>1. n \in 0 .. n
    OBVIOUS
  <2> HIDE DEF good
  <2> QED BY <1>3, <2>1
<1>5. n <= n
  OBVIOUS
<1> QED BY <1>4, <1>5

\* The maximum time of connections is one of their times and none is later.
LEMMA MaximumTimeHolds ==
  ASSUME NEW cs, IsTimetable(cs)
  PROVE  /\ MaximumTime(cs) \in Nat
         /\ \A i \in 1 .. Len(cs) :
              cs[i].departure <= MaximumTime(cs) /\ cs[i].arrival <= MaximumTime(cs)
         /\ \/ MaximumTime(cs) = 0
            \/ \E i \in 1 .. Len(cs) : MaximumTime(cs) = cs[i].departure \/ MaximumTime(cs) = cs[i].arrival
<1> DEFINE n == Len(cs)
           times == {0} \cup {c.arrival : c \in ToSet(cs)} \cup {c.departure : c \in ToSet(cs)}
           g == [i \in 1 .. n |-> cs[i].arrival]
<1>1. /\ n \in Nat /\ DOMAIN cs = 1 .. n
      /\ \A i \in 1 .. n : cs[i].departure \in Nat /\ cs[i].arrival \in Nat /\ cs[i].departure <= cs[i].arrival
  BY DEF IsTimetable
<1>2. MaximumTime(cs) = Max(times)
  BY DEF MaximumTime
<1>3. \A x \in times : x = 0 \/ \E i \in 1 .. n : x = cs[i].departure \/ x = cs[i].arrival
  BY <1>1 DEF ToSet
<1>4. 0 \in times /\ \A i \in 1 .. n : cs[i].departure \in times /\ cs[i].arrival \in times
  BY <1>1 DEF ToSet
<1>5. PICK b \in Nat : \A i \in 1 .. n : cs[i].arrival <= b
  <2>1. g \in [1 .. n -> Nat]
    BY <1>1
  <2>2. \E b \in Nat : \A i \in 1 .. n : g[i] <= b
    <3> HIDE DEF g
    <3> QED BY <1>1, <2>1, Bounded
  <2> QED BY <2>2
<1> HIDE DEF times, g, n
<1>6. \A x \in times : x \in Nat /\ x <= b
  <2> TAKE x \in times
  <2>1. CASE x = 0
    BY <2>1
  <2>2. CASE \E i \in 1 .. n : x = cs[i].departure \/ x = cs[i].arrival
    BY <1>1, <1>5, <2>2
  <2> QED BY <1>3, <2>1, <2>2
<1>7. Max(times) \in times /\ \A x \in times : x <= Max(times)
  <2>1. times \in SUBSET Int /\ times # {} /\ b \in Int /\ \A x \in times : x <= b
    BY <1>4, <1>6
  <2> QED BY <2>1, MaxOf
<1> QED BY <1>2, <1>3, <1>4, <1>6, <1>7 DEF n

\* Service dates are consecutive, and each begins after the one before.
LEMMA AnchorsIncrease ==
  /\ \A d \in Dates : d \in Int /\ Anchor[d] \in Nat /\ Min(Dates) <= d /\ d <= Max(Dates)
  /\ \A d \in Int : Min(Dates) <= d /\ d <= Max(Dates) => d \in Dates
  /\ \A d, e \in Dates : d <= e => Anchor[d] <= Anchor[e]
  /\ \A d, e \in Dates : d < e => Anchor[d] < Anchor[e]
<1> DEFINE lo == Min(Dates)  hi == Max(Dates)
<1>1. lo \in Int /\ hi \in Int /\ Dates = lo .. hi /\ Anchor \in [Dates -> Nat]
      /\ \A d \in Dates \ {hi} : Anchor[d] < Anchor[d + 1]
  BY ScheduleAssumption
<1> HIDE DEF lo, hi
<1>2. /\ \A d \in Dates : d \in Int /\ Anchor[d] \in Nat /\ lo <= d /\ d <= hi
      /\ \A d \in Int : lo <= d /\ d <= hi => d \in Dates
  BY <1>1
<1>3. ASSUME NEW d \in Dates, NEW e \in Dates, d <= e
      PROVE  Anchor[d] <= Anchor[e] /\ (d < e => Anchor[d] < Anchor[e])
  <2> DEFINE good == {k \in Nat : d + k <= e =>
                        Anchor[d] <= Anchor[d + k] /\ (k > 0 => Anchor[d] < Anchor[d + k])}
  <2>1. 0 \in good
    BY <1>2
  <2>2. ASSUME NEW k \in Nat, 0 <= k, k < e - d, k \in good
        PROVE  k + 1 \in good
    <3>0. /\ d \in Int /\ e \in Int /\ lo \in Int /\ hi \in Int /\ k \in Int /\ lo <= d /\ e <= hi
          /\ k < e - d /\ 0 <= k
      BY <1>1, <1>2, <2>2
    <3>6. /\ d + k \in Int /\ lo <= d + k /\ d + k < hi /\ d + k <= e
          /\ d + (k + 1) \in Int /\ lo <= d + (k + 1) /\ d + (k + 1) <= hi
          /\ d + (k + 1) = (d + k) + 1
      BY <3>0
    <3>1. d + k \in Dates \ {hi} /\ d + (k + 1) \in Dates /\ d + (k + 1) = (d + k) + 1 /\ d + k <= e
      BY <1>2, <3>0, <3>6
    <3>2. Anchor[d + k] < Anchor[d + (k + 1)]
      BY <1>1, <3>1
    <3>3. Anchor[d] <= Anchor[d + k]
      BY <2>2, <3>1
    <3>4. Anchor[d] < Anchor[d + (k + 1)]
      BY <1>2, <3>1, <3>2, <3>3
    <3>5. Anchor[d] <= Anchor[d + (k + 1)]
      BY <1>2, <3>1, <3>4
    <3> QED BY <3>4, <3>5
  <2>3. 0 .. e - d \subseteq good
    <3>1. e - d \in Nat /\ good \in SUBSET Nat
      BY <1>2, <1>3
    <3> HIDE DEF good
    <3> QED BY <2>1, <2>2, <3>1, UpTo
  <2>4. d \in Int /\ e \in Int
    BY <1>2
  <2>5. e - d \in 0 .. e - d /\ d + (e - d) = e /\ (d < e => e - d > 0)
    BY <1>3, <2>4
  <2>6. e - d \in good
    BY <2>3, <2>5
  <2> QED BY <2>4, <2>5, <2>6
<1>4. ASSUME NEW d \in Dates, NEW e \in Dates, d < e
      PROVE  Anchor[d] < Anchor[e]
  BY <1>2, <1>3, <1>4
<1> QED BY <1>2, <1>3, <1>4 DEF lo, hi

\* The dates on which a trip of the feed runs lie between the first and the last
\* of the dates the compiler looks at, which the feed's validity surrounds.
LEMMA RangeHolds ==
  ASSUME NEW f, HasServices(f)
  PROVE  /\ RangeDates(f) \subseteq Dates
         /\ Min(RangeDates(f)) \in Dates /\ Max(RangeDates(f)) \in Dates
         /\ Min(RangeDates(f)) <= Max(RangeDates(f))
         /\ \A t \in Trips : \A d \in Dates :
              Runs(f, f.service[t], d) => Min(RangeDates(f)) <= d /\ d <= Max(RangeDates(f))
<1> DEFINE lo == Min(Dates)  hi == Max(Dates)  range == RangeDates(f)
           active(s) == {d \in Dates : InCalendar(f, s, d) /\ ~Excepted(f, s, d, "removed")}
           own(s) == BoundaryDates(f, s) \cup AdditionDates(f, s)
<1>1. /\ lo \in Int /\ hi \in Int
      /\ \A d \in Dates : d \in Int /\ lo <= d /\ d <= hi
  BY ScheduleAssumption, AnchorsIncrease
<1>2. ASSUME NEW S \in SUBSET Dates, S # {}
      PROVE  /\ Min(S) \in S /\ \A d \in S : Min(S) <= d
             /\ Max(S) \in S /\ \A d \in S : d <= Max(S)
  <2>1. S \in SUBSET Int /\ (\A d \in S : lo <= d) /\ (\A d \in S : d <= hi)
    BY <1>1
  <2> QED BY <1>1, <1>2, <2>1, MinOf, MaxOf
<1>3. ASSUME NEW s
      PROVE  /\ own(s) \subseteq Dates
             /\ \A d \in active(s) : Min(active(s)) \in own(s) /\ Max(active(s)) \in own(s)
             /\ \A d \in Dates : Excepted(f, s, d, "added") => d \in own(s)
  <2>1. active(s) # {} => active(s) \subseteq Dates /\ Min(active(s)) \in active(s) /\ Max(active(s)) \in active(s)
    <3>1. active(s) \in SUBSET Dates
      OBVIOUS
    <3> HIDE DEF active
    <3> QED BY <1>2, <3>1
  <2>2. BoundaryDates(f, s) = IF active(s) = {} THEN {} ELSE {Min(active(s)), Max(active(s))}
    BY DEF BoundaryDates
  <2>3. AdditionDates(f, s) = {d \in Dates : Excepted(f, s, d, "added")}
    BY DEF AdditionDates
  <2> HIDE DEF active
  <2> QED BY <2>1, <2>2, <2>3
<1>4. /\ range = UNION {own(f.service[t]) : t \in Trips}
      /\ \A t \in Trips : own(f.service[t]) # {}
  BY DEF RangeDates, HasServices
<1>5. \A t \in Trips : \A d \in Dates : Runs(f, f.service[t], d) =>
        d \in own(f.service[t]) \/ d \in active(f.service[t])
  BY <1>3 DEF Runs
<1>6. \A t \in Trips : active(f.service[t]) \subseteq Dates
  OBVIOUS
<1> HIDE DEF own, active, range
<1>7. range \subseteq Dates /\ range # {}
  <2>1. Trips # {}
    BY ScheduleAssumption
  <2> QED BY <1>3, <1>4, <2>1
<1>8. /\ Min(range) \in range /\ \A d \in range : Min(range) <= d
      /\ Max(range) \in range /\ \A d \in range : d <= Max(range)
  BY <1>2, <1>7
<1>9. ASSUME NEW t \in Trips, NEW d \in Dates, Runs(f, f.service[t], d)
      PROVE  Min(range) <= d /\ d <= Max(range)
  <2>1. \A e \in own(f.service[t]) : e \in range
    BY <1>4
  <2>2. CASE d \in own(f.service[t])
    BY <1>8, <2>1, <2>2
  <2>3. CASE d \in active(f.service[t])
    <3> DEFINE a == active(f.service[t])
    <3>1. a \in SUBSET Dates /\ a # {} /\ d \in a
      BY <1>6, <2>3
    <3>2. Min(a) \in range /\ Max(a) \in range
      BY <1>3, <2>1, <2>3
    <3> HIDE DEF a
    <3>3. Min(a) <= d /\ d <= Max(a)
      BY <1>2, <3>1
    <3>4. Min(range) <= Min(a) /\ Max(a) <= Max(range)
      BY <1>8, <3>2
    <3>5. Min(a) \in Int /\ Max(a) \in Int /\ d \in Int /\ Min(range) \in Int /\ Max(range) \in Int
      BY <1>1, <1>7, <1>8, <3>2
    <3> QED BY <3>3, <3>4, <3>5
  <2> QED BY <1>5, <1>9, <2>2, <2>3
<1>10. Min(range) <= Max(range)
  BY <1>8
<1> QED BY <1>7, <1>8, <1>9, <1>10 DEF range

\* What is known of a schedule the compiler makes of a feed.
IsCompiled(f, a) ==
  /\ a.connections = Connections(f) /\ a.service = f.service
  /\ a.calendars = f.calendars /\ a.exceptions = f.exceptions
  /\ a.firstDate = Min(RangeDates(f)) /\ a.lastDate = Max(RangeDates(f))
  /\ a.maximumTime = MaximumTime(Connections(f))
  /\ a.earliest = Earliest(a.firstDate, a.maximumTime) /\ a.latest = Latest(a.lastDate)
  /\ a.official = parseOfficialAttribution(f.info, f.attributions) /\ a.official # Rejected
  /\ \A s \in DOMAIN f.calendars : f.calendars[s].from <= f.calendars[s].until
  /\ HasTrips(f) /\ HasServices(f)
  /\ a.firstDate >= f.validFrom /\ a.lastDate <= f.validUntil
  /\ a.earliest <= a.latest

\* A schedule that compiles is one.
LEMMA CompiledIs ==
  ASSUME NEW f, IsParsed(f), compileScheduledArtifact(f) # Rejected
  PROVE  IsCompiled(f, compileScheduledArtifact(f))
<1> DEFINE a == compileScheduledArtifact(f)
           official == parseOfficialAttribution(f.info, f.attributions)
           cs == Connections(f)
           first == Min(RangeDates(f))
           last == Max(RangeDates(f))
           maximum == MaximumTime(cs)
           accepted == /\ \A s \in DOMAIN f.calendars : f.calendars[s].from <= f.calendars[s].until
                       /\ \A t \in Trips : Chronological(f.stopTimes[t])
                       /\ HasServices(f)
                       /\ first >= f.validFrom /\ last <= f.validUntil
                       /\ Earliest(first, maximum) <= Latest(last)
<1>1. a = IF official = Rejected THEN Rejected ELSE ImportSchedule(f, official)
  BY DEF compileScheduledArtifact
<1>2. ImportSchedule(f, official) =
        IF accepted
        THEN [connections |-> cs, service |-> f.service,
              calendars |-> f.calendars, exceptions |-> f.exceptions,
              firstDate |-> first, lastDate |-> last, maximumTime |-> maximum,
              earliest |-> Earliest(first, maximum), latest |-> Latest(last),
              official |-> official]
        ELSE Rejected
  BY DEF ImportSchedule
<1> HIDE DEF a, official, cs, first, last, maximum, accepted
<1>3. official # Rejected /\ accepted
  BY <1>1, <1>2 DEF a
<1>4. /\ a.connections = cs /\ a.service = f.service
      /\ a.calendars = f.calendars /\ a.exceptions = f.exceptions
      /\ a.firstDate = first /\ a.lastDate = last /\ a.maximumTime = maximum
      /\ a.earliest = Earliest(first, maximum) /\ a.latest = Latest(last)
      /\ a.official = official
  BY <1>1, <1>2, <1>3
<1>5. HasTrips(f)
  <2>1. \A t \in Trips : Chronological(f.stopTimes[t])
    BY <1>3 DEF accepted
  <2> QED BY <2>1 DEF HasTrips, IsTrip, IsParsed
<1>6. /\ \A s \in DOMAIN f.calendars : f.calendars[s].from <= f.calendars[s].until
      /\ HasServices(f)
      /\ first >= f.validFrom /\ last <= f.validUntil
      /\ Earliest(first, maximum) <= Latest(last)
  BY <1>3 DEF accepted
<1> QED BY <1>3, <1>4, <1>5, <1>6 DEF IsCompiled, a, cs, first, last, maximum, official

\* What a compiled schedule's dates and times are to each other.
LEMMA CompiledBounds ==
  ASSUME NEW f, NEW a, IsParsed(f), IsCompiled(f, a)
  PROVE  /\ IsTimetable(a.connections)
         /\ a.firstDate \in Dates /\ a.lastDate \in Dates /\ a.firstDate <= a.lastDate
         /\ a.firstDate - 1 \in Dates /\ a.lastDate + 1 \in Dates
         /\ a.maximumTime \in Nat
         /\ \A i \in 1 .. Len(a.connections) :
              /\ a.connections[i].departure <= a.maximumTime
              /\ a.connections[i].arrival <= a.maximumTime
         /\ a.earliest \in Int /\ a.latest \in Int /\ a.earliest <= a.latest
         /\ Anchor[a.firstDate] <= a.earliest
         /\ \A t \in Trips : \A d \in Dates :
              Runs(f, f.service[t], d) => a.firstDate <= d /\ d <= a.lastDate
<1>1. IsTimetable(a.connections)
  BY CompiledIsTimetable DEF IsCompiled
<1>2. /\ a.firstDate \in Dates /\ a.lastDate \in Dates /\ a.firstDate <= a.lastDate
      /\ \A t \in Trips : \A d \in Dates :
           Runs(f, f.service[t], d) => a.firstDate <= d /\ d <= a.lastDate
  BY RangeHolds DEF IsCompiled
<1>3. a.firstDate - 1 \in Dates /\ a.lastDate + 1 \in Dates
  <2>1. /\ a.firstDate \in Int /\ a.lastDate \in Int /\ f.validFrom \in Int /\ f.validUntil \in Int
        /\ Min(Dates) \in Int /\ Max(Dates) \in Int
        /\ Min(Dates) < f.validFrom /\ f.validFrom <= a.firstDate
        /\ f.validUntil < Max(Dates) /\ a.lastDate <= f.validUntil
        /\ a.firstDate <= a.lastDate
    BY <1>2, AnchorsIncrease, ScheduleAssumption DEF IsCompiled, IsParsed
  <2>2. /\ a.firstDate - 1 \in Int /\ Min(Dates) <= a.firstDate - 1 /\ a.firstDate - 1 <= Max(Dates)
        /\ a.lastDate + 1 \in Int /\ Min(Dates) <= a.lastDate + 1 /\ a.lastDate + 1 <= Max(Dates)
    BY <2>1
  <2> QED BY <2>2, AnchorsIncrease
<1>4. /\ a.maximumTime \in Nat
      /\ \A i \in 1 .. Len(a.connections) :
              /\ a.connections[i].departure <= a.maximumTime
              /\ a.connections[i].arrival <= a.maximumTime
  <2>1. a.maximumTime = MaximumTime(a.connections)
    BY DEF IsCompiled
  <2> QED BY <1>1, <2>1, MaximumTimeHolds
<1>5. a.earliest \in Int /\ Anchor[a.firstDate] <= a.earliest
  <2> DEFINE x == Anchor[a.firstDate]  y == Anchor[a.firstDate - 1] + a.maximumTime + 1
  <2>1. x \in Int /\ y \in Int
    BY <1>2, <1>3, <1>4, AnchorsIncrease
  <2>2. a.earliest = Max({x, y})
    BY DEF IsCompiled, Earliest
  <2> HIDE DEF x, y
  <2>3. PICK h \in Int : x <= h /\ y <= h
    BY <2>1
  <2>4. Max({x, y}) \in {x, y} /\ \A i \in {x, y} : i <= Max({x, y})
    BY <2>1, <2>3, MaxOf
  <2> QED BY <2>1, <2>2, <2>4 DEF x
<1>6. a.latest \in Int /\ a.earliest <= a.latest
  <2>1. a.latest = Anchor[a.lastDate + 1] - Day - 1 /\ a.earliest <= a.latest
    BY DEF IsCompiled, Latest
  <2>2. Anchor[a.lastDate + 1] \in Int /\ Day \in Int
    BY <1>3, AnchorsIncrease, ScheduleAssumption
  <2> QED BY <2>1, <2>2
<1> QED BY <1>1, <1>2, <1>3, <1>4, <1>5, <1>6

\* The structure of a compiled schedule is what loading checks.
LEMMA StructureHolds ==
  ASSUME NEW f, NEW a, IsParsed(f), IsCompiled(f, a)
  PROVE  BoundsAreValid(a) /\ StructureIsValid(a)
<1> DEFINE cs == a.connections
           times == {cs[i].departure : i \in DOMAIN cs} \cup {cs[i].arrival : i \in DOMAIN cs}
<1>1. /\ IsTimetable(cs) /\ a.maximumTime \in Nat /\ a.firstDate <= a.lastDate /\ a.earliest <= a.latest
      /\ \A i \in 1 .. Len(cs) : cs[i].departure <= a.maximumTime /\ cs[i].arrival <= a.maximumTime
  BY CompiledBounds
<1>2. BoundsAreValid(a)
  BY <1>1 DEF BoundsAreValid
<1>3. ServicesAreKnown(a)
  <2> SUFFICES ASSUME NEW t \in Trips
               PROVE  a.service[t] \in DOMAIN a.calendars \/ \E x \in DOMAIN a.exceptions : x[1] = a.service[t]
    BY DEF ServicesAreKnown
  <2>1. BoundaryDates(f, f.service[t]) \cup AdditionDates(f, f.service[t]) # {}
    BY DEF IsCompiled, HasServices
  <2>2. a.service = f.service /\ a.calendars = f.calendars /\ a.exceptions = f.exceptions
    BY DEF IsCompiled
  <2>3. CASE BoundaryDates(f, f.service[t]) # {}
    <3>1. {d \in Dates : InCalendar(f, f.service[t], d) /\ ~Excepted(f, f.service[t], d, "removed")} # {}
      BY <2>3 DEF BoundaryDates
    <3> QED BY <2>2, <3>1 DEF InCalendar
  <2>4. CASE AdditionDates(f, f.service[t]) # {}
    <3>1. PICK d \in Dates : Excepted(f, f.service[t], d, "added")
      BY <2>4 DEF AdditionDates
    <3>2. <<f.service[t], d>> \in DOMAIN f.exceptions
      BY <3>1 DEF Excepted
    <3> QED BY <2>2, <3>2
  <2> QED BY <2>1, <2>3, <2>4
<1>4. CalendarsAreValid(a)
  BY DEF CalendarsAreValid, IsCompiled
<1>5. /\ Len(cs) \in Nat /\ DOMAIN cs = 1 .. Len(cs)
      /\ \A i \in 1 .. Len(cs) :
           /\ cs[i].departure \in Nat /\ cs[i].arrival \in Nat /\ cs[i].departure <= cs[i].arrival
           /\ cs[i].trip \in Trips
      /\ \A i, j \in 1 .. Len(cs) : cs[i].trip = cs[j].trip /\ cs[i].visit = cs[j].visit => i = j
  BY <1>1 DEF IsTimetable
<1>6. /\ \A i \in 1 .. Len(cs) : cs[i].service = a.service[cs[i].trip]
      /\ \A i, j \in 1 .. Len(cs) : i < j => Sooner(cs[i], cs[j])
      /\ \A i, j \in 1 .. Len(cs) : i < j <=> Sooner(cs[i], cs[j])
  <2>1. cs = Connections(f) /\ a.service = f.service /\ HasTrips(f)
    BY DEF IsCompiled
  <2>2. \A i \in 1 .. Len(cs) : cs[i] \in AllConnections(f)
    BY <2>1, ConnectionsAreSorted
  <2>3. \A i \in 1 .. Len(cs) : cs[i].service = f.service[cs[i].trip]
    BY <2>1, <2>2, ConnectionType
  <2> QED BY <2>1, <2>3, ConnectionsAreSorted
<1> HIDE DEF cs
<1>7. \A i \in DOMAIN cs : ConnectionIsValid(a, cs[i])
  BY <1>5, <1>6 DEF ConnectionIsValid
<1>8. \A i \in 2 .. Len(cs) : ~Precedes(SortKey(cs[i]), SortKey(cs[i - 1]))
  <2> TAKE i \in 2 .. Len(cs)
  <2>1. i \in 1 .. Len(cs) /\ i - 1 \in 1 .. Len(cs) /\ ~(i < i - 1)
    BY <1>5
  <2>2. ~Sooner(cs[i], cs[i - 1])
    BY <1>6, <2>1
  <2> QED BY <2>2, SortKeysCompare
<1>9. \A t \in times : t <= a.maximumTime
  BY <1>1, <1>5
<1>10. a.maximumTime \in times \cup {0}
  <2>1. a.maximumTime = MaximumTime(cs)
    BY DEF IsCompiled, cs
  <2>2. \/ MaximumTime(cs) = 0
        \/ \E i \in 1 .. Len(cs) : MaximumTime(cs) = cs[i].departure \/ MaximumTime(cs) = cs[i].arrival
    BY <1>1, MaximumTimeHolds
  <2> QED BY <1>5, <2>1, <2>2
<1>11. \A i, j \in DOMAIN cs : cs[i].trip = cs[j].trip /\ cs[i].visit = cs[j].visit => i = j
  BY <1>5
<1>12. StructureIsValid(a)
  BY <1>3, <1>4, <1>7, <1>8, <1>9, <1>10, <1>11 DEF StructureIsValid, cs
<1> QED BY <1>2, <1>12

\* A feed's metadata is either refused or gives the license that every part of
\* the feed names, in a form that loading accepts.
LEMMA AttributionHolds ==
  ASSUME NEW info \in FeedInfos, NEW file \in Attributions,
         parseOfficialAttribution(info, file) # Rejected
  PROVE  LET official == parseOfficialAttribution(info, file)
             named == FeedLicenses(info) \cup RowLicenses(file.rows)
         IN  /\ OfficialIsValid(official)
             /\ \A license \in named : license = official.license
             /\ official.source = "meeet-policy" <=> ~file.present /\ named = {}
<1> DEFINE official == parseOfficialAttribution(info, file)
           named == FeedLicenses(info) \cup RowLicenses(file.rows)
<1>1. \/ ~file.present /\ named = {} /\ official = OfPolicy
      \/ ~file.present /\ IsWellFormed(info) /\ named # {} /\ official = OfFeed(named)
      \/ /\ file.present /\ RowLicenses(file.rows) # {} /\ IsOfficial(named)
         /\ official = OfFeed(named)
  <2> DEFINE whole == IsWellFormed(info)
             rowed == RowLicenses(file.rows) # {}
  <2>1. official = CASE ~whole -> Rejected
                     [] ~file.present /\ whole /\ named = {} -> OfPolicy
                     [] ~file.present /\ whole /\ named # {} -> OfFeed(named)
                     [] file.present /\ whole /\ rowed /\ IsOfficial(named) -> OfFeed(named)
                     [] OTHER -> Rejected
    BY DEF parseOfficialAttribution
  <2>2. official # Rejected
    OBVIOUS
  <2> HIDE DEF official, named, whole, rowed
  <2>3. \/ ~file.present /\ whole /\ named = {} /\ official = OfPolicy
        \/ ~file.present /\ whole /\ named # {} /\ official = OfFeed(named)
        \/ file.present /\ whole /\ rowed /\ IsOfficial(named) /\ official = OfFeed(named)
    BY <2>1, <2>2
  <2> QED BY <2>3 DEF whole, rowed
<1> DEFINE tables == UNION {[1 .. n -> Row] : n \in 0 .. 2}
<1>2. \/ file.present = TRUE /\ file.rows \in tables
      \/ file.present = FALSE /\ file.rows = <<>>
  <2>1. \/ file \in [present : {TRUE}, rows : tables]
        \/ file = [present |-> FALSE, rows |-> <<>>]
    BY DEF Attributions
  <2> HIDE DEF tables, official, named
  <2>2. CASE file \in [present : {TRUE}, rows : tables]
    <3>1. file.present \in {TRUE} /\ file.rows \in tables
      BY <2>2
    <3> QED BY <3>1
  <2>3. CASE file = [present |-> FALSE, rows |-> <<>>]
    <3>1. file.present = FALSE /\ file.rows = <<>>
      BY <2>3
    <3> QED BY <3>1
  <2> QED BY <2>1, <2>2, <2>3
<1>3. CASE ~file.present /\ named = {} /\ official = OfPolicy
  <2>1. OfficialIsValid(OfPolicy) /\ OfPolicy.source = "meeet-policy"
    BY DEF OfficialIsValid, OfPolicy, IsCcBy, IsHttps
  <2> QED BY <1>3, <2>1
<1>4. ASSUME official = OfFeed(named), NEW l, named = {l}, IsCcBy(l.name), IsHttps(l.url)
      PROVE  /\ OfficialIsValid(official)
             /\ \A license \in named : license = official.license
             /\ official.source = "feed"
  <2>1. OfFeed(named).license = l
    BY <1>4 DEF OfFeed
  <2>2. OfFeed(named).source = "feed" /\ OfFeed(named).policy = FALSE
    BY DEF OfFeed
  <2> HIDE DEF official, named
  <2>3. official.license = l /\ official.source = "feed" /\ official.policy = FALSE
    BY <1>4, <2>1, <2>2
  <2>4. OfficialIsValid(official)
    BY <1>4, <2>3 DEF OfficialIsValid
  <2> QED BY <1>4, <2>3, <2>4
<1>5. CASE ~file.present /\ IsWellFormed(info) /\ named # {} /\ official = OfFeed(named)
  <2>1. RowLicenses(file.rows) = {}
    BY <1>2, <1>5 DEF RowLicenses
  <2>2. named = FeedLicenses(info)
    BY <2>1
  <2>3. named = {[name |-> info.name, url |-> info.url]}
    BY <1>5, <2>2 DEF FeedLicenses
  <2>4. IsCcBy(info.name) /\ IsHttps(info.url)
    BY <1>5, <2>2 DEF IsWellFormed
  <2> DEFINE l == [name |-> info.name, url |-> info.url]
  <2>5. l.name = info.name /\ l.url = info.url
    OBVIOUS
  <2> HIDE DEF official, named, l
  <2>6. named = {l} /\ IsCcBy(l.name) /\ IsHttps(l.url)
    BY <2>3, <2>4, <2>5 DEF l
  <2>7. /\ OfficialIsValid(official)
        /\ \A license \in named : license = official.license
        /\ official.source = "feed"
    BY <1>4, <1>5, <2>6
  <2> QED BY <1>5, <2>7 DEF official, named
<1>6. CASE file.present /\ IsOfficial(named) /\ official = OfFeed(named)
  <2>1. Cardinality(named) = 1 /\ \A l \in named : IsCcBy(l.name) /\ IsHttps(l.url)
    BY <1>6 DEF IsOfficial
  <2>2. IsFiniteSet(named)
    <3>1. IsFiniteSet(FeedLicenses(info))
      BY FS_EmptySet, FS_Singleton DEF FeedLicenses
    <3>2. IsFiniteSet(RowLicenses(file.rows))
      <4> DEFINE places == {j \in DOMAIN file.rows : file.rows[j].organization = "MVV"}
                 g == [j \in places |-> RowLicense(file.rows[j])]
      <4>1. RowLicenses(file.rows) = {RowLicense(file.rows[j]) : j \in places}
        BY DEF RowLicenses
      <4>2. g \in [places -> RowLicenses(file.rows)] /\ \A x \in RowLicenses(file.rows) : \E j \in places : g[j] = x
        BY <4>1
      <4>3. IsFiniteSet(places)
        <5>1. PICK n \in 0 .. 2 : DOMAIN file.rows = 1 .. n
          <6>2. file.rows \in tables
            BY <1>2, <1>6
          <6> QED BY <6>2
        <5>2. IsFiniteSet(1 .. n)
          BY FS_Interval
        <5> QED BY <5>1, <5>2, FS_Subset
      <4> HIDE DEF g, places
      <4>4. g \in Surjection(places, RowLicenses(file.rows))
        BY <4>2 DEF Surjection
      <4> QED BY <4>3, <4>4, FS_Surjection
    <3> QED BY <3>1, <3>2, FS_Union
  <2> HIDE DEF official, named
  <2>3. PICK l : named = {l}
    <3>1. named # {}
      BY <2>1, FS_EmptySet
    <3>2. PICK l \in named : TRUE
      BY <3>1
    <3>3. Cardinality(named \ {l}) = 0 /\ IsFiniteSet(named \ {l})
      <4>1. /\ IsFiniteSet(named \ {l})
            /\ Cardinality(named \ {l}) = IF l \in named THEN Cardinality(named) - 1 ELSE Cardinality(named)
        BY <2>2, FS_RemoveElement
      <4> QED BY <2>1, <3>2, <4>1
    <3>4. named \ {l} = {}
      BY <3>3, FS_EmptySet
    <3> QED BY <3>2, <3>4
  <2>4. IsCcBy(l.name) /\ IsHttps(l.url)
    BY <2>1, <2>3
  <2>5. /\ OfficialIsValid(official)
        /\ \A license \in named : license = official.license
        /\ official.source = "feed"
    BY <1>4, <1>6, <2>3, <2>4
  <2> QED BY <1>6, <2>5 DEF official, named
<1> QED BY <1>1, <1>3, <1>5, <1>6

\* Every schedule that compiles passes the checks of writing and loading.
LEMMA CompiledLoads ==
  ASSUME NEW f, IsParsed(f), f.info \in FeedInfos, f.attributions \in Attributions,
         NEW a, IsCompiled(f, a)
  PROVE  Loads(a) /\ AttributionIsAgreed(f, a.official)
<1>1. BoundsAreValid(a) /\ StructureIsValid(a)
  BY StructureHolds
<1>2. a.official = parseOfficialAttribution(f.info, f.attributions) /\ a.official # Rejected
  BY DEF IsCompiled
<1>3. /\ OfficialIsValid(a.official)
      /\ \A license \in FeedLicenses(f.info) \cup RowLicenses(f.attributions.rows) : license = a.official.license
      /\ a.official.source = "meeet-policy"
           <=> ~f.attributions.present /\ FeedLicenses(f.info) \cup RowLicenses(f.attributions.rows) = {}
  BY <1>2, AttributionHolds
<1> QED BY <1>1, <1>3 DEF Loads, AttributionIsAgreed

\* The services active on a date are those the feed runs, within its range.
LEMMA ActiveServicesRun ==
  ASSUME NEW f, NEW a, IsCompiled(f, a), NEW d
  PROVE  ActiveServices(a, d) = {s \in Services : Runs(f, s, d) /\ d \in a.firstDate .. a.lastDate}
<1>1. a.calendars = f.calendars /\ a.exceptions = f.exceptions
  BY DEF IsCompiled
<1>2. \A s : /\ InCalendar(a, s, d) <=> InCalendar(f, s, d)
             /\ Excepted(a, s, d, "added") <=> Excepted(f, s, d, "added")
             /\ Excepted(a, s, d, "removed") <=> Excepted(f, s, d, "removed")
  BY <1>1 DEF InCalendar, Excepted
<1>3. \A s : Excepted(f, s, d, "added") => ~Excepted(f, s, d, "removed")
  BY DEF Excepted
<1> QED BY <1>2, <1>3 DEF ActiveServices, Runs

-------------------------------------------------------------------------------
(* The merge of the days of a window.                                      *)

RowTypes == [source : Int, date : Int, departure : Int, arrival : Int, continuation : Int]

\* The connections of a service day that depart in the day after the start.
Span(a, start, d) ==
  {i \in DOMAIN a.connections :
     a.connections[i].departure \in start - Anchor[d] .. start + Day - Anchor[d]}

\* Those whose service is active, and of them those that arrive in it.
Live(a, start, d) == {i \in Span(a, start, d) : a.connections[i].service \in ActiveServices(a, d)}
Fits(a, start, d) ==
  {i \in Live(a, start, d) : Anchor[d] + a.connections[i].arrival <= start + Day}

\* What a table says of each of its rows, complete or not.
IsTable(a, start, table) ==
  /\ table \in Seq(RowTypes)
  /\ \A r \in 1 .. Len(table) :
       /\ table[r].date \in Dates /\ table[r].source \in Fits(a, start, table[r].date)
       /\ table[r].departure = Anchor[table[r].date] + a.connections[table[r].source].departure - start
       /\ table[r].arrival = Anchor[table[r].date] + a.connections[table[r].source].arrival - start
       /\ r > 1 => table[r - 1].departure <= table[r].departure
       /\ NextRows(a.connections, table, r)
            = IF table[r].continuation = 0 THEN {} ELSE {table[r].continuation}
       /\ table[r].continuation \in {0} \cup (r + 1 .. Len(table))
  /\ \A r, q \in 1 .. Len(table) :
       table[r].date = table[q].date /\ table[r].source = table[q].source => r = q

\* A cursor has gone over a connection.
Behind(c, i) == c.candidate = 0 \/ i < c.candidate

\* How a cursor stands to the table that is built: the rides it has gone over
\* are rows, its candidate departs no earlier than any row, and the row of a
\* trip it remembers is of the last connection of the trip it has gone over.
IsCursor(a, start, c, table) ==
  /\ c.date \in Dates /\ c.active = ActiveServices(a, c.date) /\ c.range = Span(a, start, c.date)
  /\ c.candidate \in Fits(a, start, c.date) \cup {0}
  /\ c.candidate # 0 => c.index = c.candidate
  /\ \A i \in Fits(a, start, c.date) : Behind(c, i) =>
       \E r \in 1 .. Len(table) : table[r].date = c.date /\ table[r].source = i
  /\ \A r \in 1 .. Len(table) : table[r].date = c.date => Behind(c, table[r].source)
  /\ c.candidate # 0 =>
       \A r \in 1 .. Len(table) :
         table[r].departure <= Anchor[c.date] + a.connections[c.candidate].departure - start
  /\ c.previousRow \in [Trips -> Int]
  /\ \A t \in Trips :
       /\ c.previousRow[t] = 0 =>
            \A r \in 1 .. Len(table) :
              table[r].date = c.date /\ a.connections[table[r].source].trip = t =>
                \E i \in Live(a, start, c.date) :
                  Behind(c, i) /\ a.connections[i].trip = t /\ table[r].source < i
       /\ c.previousRow[t] # 0 =>
            /\ c.previousRow[t] \in 1 .. Len(table)
            /\ table[c.previousRow[t]].date = c.date
            /\ a.connections[table[c.previousRow[t]].source].trip = t
            /\ \A i \in Live(a, start, c.date) :
                 Behind(c, i) /\ a.connections[i].trip = t => i <= table[c.previousRow[t]].source

\* A table with one more row, which continues the row p if there is one.
Extends(a, start, c, table, longer) ==
  LET x == c.candidate
      p == c.previousRow[a.connections[x].trip]
      n == Len(table)
  IN  /\ longer \in Seq(RowTypes) /\ Len(longer) = n + 1
      /\ \A r \in 1 .. n :
           /\ longer[r].source = table[r].source /\ longer[r].date = table[r].date
           /\ longer[r].departure = table[r].departure /\ longer[r].arrival = table[r].arrival
           /\ longer[r].continuation = IF r = p THEN n + 1 ELSE table[r].continuation
      /\ longer[n + 1].source = x /\ longer[n + 1].date = c.date
      /\ longer[n + 1].departure = Anchor[c.date] + a.connections[x].departure - start
      /\ longer[n + 1].arrival = Anchor[c.date] + a.connections[x].arrival - start
      /\ longer[n + 1].continuation = 0

\* The connections of a service day.
LEMMA SpanFacts ==
  ASSUME NEW a, IsTimetable(a.connections), NEW start \in Int, NEW d \in Dates
  PROVE  /\ Fits(a, start, d) \subseteq Live(a, start, d)
         /\ Live(a, start, d) \subseteq Span(a, start, d)
         /\ Span(a, start, d) \subseteq 1 .. Len(a.connections)
         /\ \A i \in Span(a, start, d) : i \in Nat \ {0}
         /\ \A h, j \in Live(a, start, d) : \A i \in 1 .. Len(a.connections) :
              h <= i /\ i <= j /\ a.connections[i].service = a.connections[j].service
                => i \in Live(a, start, d)
<1> DEFINE cs == a.connections
<1>1. /\ Len(cs) \in Nat /\ DOMAIN cs = 1 .. Len(cs)
      /\ \A i \in 1 .. Len(cs) : cs[i].departure \in Nat
      /\ \A i, j \in 1 .. Len(cs) : i <= j => cs[i].departure <= cs[j].departure
  BY DEF IsTimetable
<1>2. /\ Fits(a, start, d) \subseteq Live(a, start, d)
      /\ Live(a, start, d) \subseteq Span(a, start, d)
      /\ Span(a, start, d) \subseteq 1 .. Len(cs)
  BY <1>1 DEF Fits, Live, Span
<1>3. ASSUME NEW h \in Live(a, start, d), NEW j \in Live(a, start, d), NEW i \in 1 .. Len(cs),
             h <= i, i <= j, cs[i].service = cs[j].service
      PROVE  i \in Live(a, start, d)
  <2>1. Anchor[d] \in Int /\ Day \in Int
    BY AnchorsIncrease, ScheduleAssumption
  <2>2. h \in 1 .. Len(cs) /\ j \in 1 .. Len(cs)
    BY <1>2
  <2>3. /\ start - Anchor[d] <= cs[h].departure /\ cs[j].departure <= start + Day - Anchor[d]
        /\ cs[j].service \in ActiveServices(a, d)
    BY <1>1, <2>1, <2>2 DEF Live, Span
  <2>4. cs[h].departure <= cs[i].departure /\ cs[i].departure <= cs[j].departure
    BY <1>1, <1>3, <2>2
  <2>5. /\ start - Anchor[d] \in Int /\ start + Day - Anchor[d] \in Int
        /\ cs[h].departure \in Int /\ cs[i].departure \in Int /\ cs[j].departure \in Int
    <3>1. start - Anchor[d] \in Int /\ start + Day - Anchor[d] \in Int
      BY <2>1
    <3>2. cs[h].departure \in Nat /\ cs[i].departure \in Nat /\ cs[j].departure \in Nat
      BY <1>1, <1>3, <2>2, Zenon
    <3> QED BY <3>1, <3>2
  <2>6. cs[i].departure \in start - Anchor[d] .. start + Day - Anchor[d]
    BY <2>3, <2>4, <2>5
  <2>7. i \in Span(a, start, d)
    BY <1>1, <2>6 DEF Span
  <2>8. cs[i].service \in ActiveServices(a, d)
    BY <1>3, <2>3
  <2> QED BY <2>7, <2>8 DEF Live
<1>4. \A i \in Span(a, start, d) : i \in Nat \ {0}
  BY <1>1, <1>2
<1> QED BY <1>2, <1>3, <1>4

\* A row follows another exactly if it is of the candidate of the cursor that
\* remembers the other.
LEMMA RowsFollow ==
  ASSUME NEW a, IsTimetable(a.connections), NEW start \in Int,
         NEW table, IsTable(a, start, table), NEW c, IsCursor(a, start, c, table), c.candidate # 0
  PROVE  LET cs == a.connections
             x == c.candidate
             p == c.previousRow[cs[x].trip]
         IN  /\ \A r \in 1 .. Len(table) :
                  /\ table[r].date = c.date /\ cs[x].trip = cs[table[r].source].trip
                     /\ cs[x].visit = cs[table[r].source].visit + 1
                     <=> r = p
                  /\ ~(/\ table[r].date = c.date /\ cs[x].trip = cs[table[r].source].trip
                       /\ cs[table[r].source].visit = cs[x].visit + 1)
                  /\ ~(table[r].date = c.date /\ table[r].source = x)
             /\ p # 0 => p \in 1 .. Len(table) /\ NextRows(cs, table, p) = {}
<1> DEFINE cs == a.connections
           x == c.candidate
           t == cs[x].trip
           p == c.previousRow[t]
           d == c.date
           n == Len(table)
           live == Live(a, start, d)
<1>1. /\ n \in Nat /\ DOMAIN table = 1 .. n
      /\ \A r \in 1 .. n : table[r].source \in Fits(a, start, table[r].date) /\ table[r].date \in Dates
      /\ \A r, q \in 1 .. n :
           table[r].date = table[q].date /\ table[r].source = table[q].source => r = q
  <2>1. table \in Seq(RowTypes)
    BY DEF IsTable
  <2>2. n \in Nat /\ DOMAIN table = 1 .. n
    BY <2>1
  <2>3. \A r \in 1 .. n : table[r].source \in Fits(a, start, table[r].date) /\ table[r].date \in Dates
    BY DEF IsTable
  <2>4. \A r, q \in 1 .. n :
           table[r].date = table[q].date /\ table[r].source = table[q].source => r = q
    BY DEF IsTable
  <2> HIDE DEF n
  <2> QED BY <2>2, <2>3, <2>4
<1>2. d \in Dates /\ x \in Fits(a, start, d)
  BY DEF IsCursor
<1>3. /\ live \subseteq 1 .. Len(cs) /\ Fits(a, start, d) \subseteq live
      /\ \A i \in live : i \in Nat \ {0}
      /\ \A h, j \in live : \A i \in 1 .. Len(cs) :
              h <= i /\ i <= j /\ cs[i].service = cs[j].service => i \in live
  BY <1>2, SpanFacts
<1>4. /\ x \in live /\ x \in 1 .. Len(cs) /\ t \in Trips
      /\ \A r \in 1 .. n : table[r].date = d => table[r].source \in live /\ table[r].source \in 1 .. Len(cs)
  BY <1>1, <1>2, <1>3 DEF IsTimetable
<1>5. \A r \in 1 .. n : table[r].date = d => table[r].source < x
  BY DEF IsCursor, Behind
<1>6. /\ p = 0 => \A r \in 1 .. n : table[r].date = d /\ cs[table[r].source].trip = t =>
                    \E i \in live : i < x /\ cs[i].trip = t /\ table[r].source < i
      /\ p # 0 => /\ p \in 1 .. n /\ table[p].date = d /\ cs[table[p].source].trip = t
                  /\ \A i \in live : i < x /\ cs[i].trip = t => i <= table[p].source
  BY <1>4 DEF IsCursor, Behind
<1>7. /\ \A i \in 1 .. Len(cs) : cs[i].visit \in Nat \ {0} /\ cs[i].trip \in Trips
      /\ \A i, j \in 1 .. Len(cs) : cs[i].trip = cs[j].trip =>
           /\ cs[i].service = cs[j].service
           /\ cs[i].visit = cs[j].visit => i = j
           /\ cs[i].visit < cs[j].visit <=> i < j
      /\ \A i \in 1 .. Len(cs) : \A v \in 1 .. cs[i].visit :
           \E j \in 1 .. Len(cs) : cs[j].trip = cs[i].trip /\ cs[j].visit = v
  BY DEF IsTimetable
<1>8. DOMAIN table = 1 .. n
  BY <1>1
<1> HIDE DEF cs, x, t, p, d, n, live
<1>9. ASSUME p # 0
      PROVE  p \in 1 .. n /\ table[p].date = d /\ cs[table[p].source].trip = t
             /\ cs[x].visit = cs[table[p].source].visit + 1
  <2> DEFINE y == table[p].source  w == cs[y].visit + 1
  <2>1. p \in 1 .. n /\ table[p].date = d /\ cs[y].trip = t /\ y \in live /\ y \in 1 .. Len(cs) /\ y < x
    BY <1>4, <1>5, <1>6, <1>9
  <2> HIDE DEF y
  <2>2. cs[x].trip = t /\ cs[y].visit < cs[x].visit
    BY <1>4, <1>7, <2>1 DEF t
  <2>3. w \in 1 .. cs[x].visit
    BY <1>4, <1>7, <2>1, <2>2
  <2>4. PICK j \in 1 .. Len(cs) : cs[j].trip = t /\ cs[j].visit = w
    BY <1>4, <1>7, <2>2, <2>3
  <2>5. y < j
    BY <1>7, <2>1, <2>4
  <2>6. ASSUME w # cs[x].visit PROVE FALSE
    <3>1. cs[j].visit < cs[x].visit
      BY <1>4, <1>7, <2>1, <2>3, <2>4, <2>6
    <3>2. j < x
      BY <1>4, <1>7, <2>2, <2>4, <3>1
    <3>3. cs[j].service = cs[x].service
      BY <1>4, <1>7, <2>2, <2>4
    <3>4. y <= j /\ j <= x
      BY <1>3, <1>4, <2>1, <2>5, <3>2
    <3>5. j \in live
      BY <1>3, <1>4, <2>1, <3>3, <3>4
    <3>6. j <= y
      BY <1>6, <1>9, <2>4, <3>2, <3>5 DEF y
    <3> QED BY <1>3, <2>1, <2>5, <3>5, <3>6
  <2> QED BY <2>1, <2>6 DEF y
<1>10. ASSUME NEW r \in 1 .. n, table[r].date = d, t = cs[table[r].source].trip,
              cs[x].visit = cs[table[r].source].visit + 1
       PROVE  r = p
  <2> DEFINE y == table[r].source
  <2>1. y \in live /\ y \in 1 .. Len(cs) /\ y < x /\ cs[x].trip = t
    BY <1>4, <1>5, <1>10 DEF t
  <2>2. ASSUME p = 0 PROVE FALSE
    <3>1. PICK i \in live : i < x /\ cs[i].trip = t /\ y < i
      BY <1>6, <1>10, <2>2
    <3>2. i \in 1 .. Len(cs)
      BY <1>3
    <3>3. cs[y].visit < cs[i].visit /\ cs[i].visit < cs[x].visit
      BY <1>4, <1>7, <1>10, <2>1, <3>1, <3>2
    <3> QED BY <1>4, <1>7, <1>10, <2>1, <3>2, <3>3
  <2>3. p \in 1 .. n /\ table[p].date = d /\ cs[table[p].source].trip = t
        /\ cs[x].visit = cs[table[p].source].visit + 1
    BY <1>9, <2>2
  <2> DEFINE z == table[p].source
  <2>4. z \in 1 .. Len(cs) /\ cs[z].trip = t /\ cs[x].visit = cs[z].visit + 1
        /\ cs[y].trip = t /\ cs[x].visit = cs[y].visit + 1
    BY <1>4, <1>10, <2>3
  <2> HIDE DEF y, z
  <2>5. cs[y].visit \in Nat /\ cs[z].visit \in Nat
    BY <1>7, <2>1, <2>4
  <2>7. cs[y].visit = cs[z].visit
    BY <2>4, <2>5
  <2>8. y = z
    <3>1. \A i, j \in 1 .. Len(cs) : cs[i].trip = cs[j].trip /\ cs[i].visit = cs[j].visit => i = j
      BY <1>7
    <3> QED BY <2>1, <2>4, <2>7, <3>1, Zenon
  <2>6. y = table[p].source
    BY <2>8 DEF z
  <2> QED BY <1>1, <1>10, <2>3, <2>6 DEF y
<1>11. ASSUME NEW r \in 1 .. n, r = p
       PROVE  /\ table[r].date = d /\ t = cs[table[r].source].trip
              /\ cs[x].visit = cs[table[r].source].visit + 1
  <2>1. p # 0
    BY <1>1, <1>11 DEF n
  <2> QED BY <1>9, <1>11, <2>1
<1>12. ASSUME NEW r \in 1 .. n, table[r].date = d, t = cs[table[r].source].trip
       PROVE  cs[table[r].source].visit # cs[x].visit + 1
  <2>1. table[r].source \in 1 .. Len(cs) /\ table[r].source < x /\ cs[x].trip = t
    BY <1>4, <1>5, <1>12 DEF t
  <2>2. cs[table[r].source].visit < cs[x].visit
    BY <1>4, <1>7, <1>12, <2>1
  <2> QED BY <1>4, <1>7, <2>1, <2>2
<1>13. ASSUME NEW r \in 1 .. n, table[r].date = d
       PROVE  table[r].source # x
  BY <1>3, <1>4, <1>5, <1>13
<1>14. ASSUME p # 0
       PROVE  p \in 1 .. n /\ NextRows(cs, table, p) = {}
  <2> DEFINE z == table[p].source
  <2>1. /\ p \in 1 .. n /\ table[p].date = d /\ cs[z].trip = t /\ z \in 1 .. Len(cs)
        /\ \A i \in live : i < x /\ cs[i].trip = t => i <= z
    BY <1>4, <1>6, <1>14
  <2>2. ASSUME NEW s \in NextRows(cs, table, p)
        PROVE  FALSE
    <3>1. /\ s \in 1 .. n /\ table[s].date = d /\ cs[table[s].source].trip = t
          /\ cs[table[s].source].visit = cs[z].visit + 1
      BY <1>8, <2>1 DEF NextRows
    <3>2. table[s].source \in live /\ table[s].source \in 1 .. Len(cs) /\ table[s].source < x
      BY <1>4, <1>5, <3>1
    <3>3. table[s].source <= z
      BY <2>1, <3>1, <3>2
    <3>4. cs[z].visit < cs[table[s].source].visit
      BY <1>7, <2>1, <3>1, <3>2
    <3>5. z < table[s].source
      BY <1>7, <2>1, <3>1, <3>2, <3>4
    <3> QED BY <1>3, <2>1, <3>2, <3>3, <3>5
  <2> QED BY <2>1, <2>2
<1> QED BY <1>10, <1>11, <1>12, <1>13, <1>14 DEF cs, x, t, p, d, n

\* The rows of a table are not empty of numbers.
LEMMA TableFacts ==
  ASSUME NEW a, NEW start, NEW table, IsTable(a, start, table)
  PROVE  /\ table \in Seq(RowTypes) /\ Len(table) \in Nat /\ DOMAIN table = 1 .. Len(table)
         /\ \A r \in 1 .. Len(table) :
              /\ table[r].source \in Int /\ table[r].date \in Dates
              /\ table[r].departure \in Int /\ table[r].arrival \in Int /\ table[r].continuation \in Int
              /\ table[r].source \in Fits(a, start, table[r].date)
<1>1. table \in Seq(RowTypes)
  BY DEF IsTable
<1>2. Len(table) \in Nat /\ DOMAIN table = 1 .. Len(table) /\ \A r \in 1 .. Len(table) : table[r] \in RowTypes
  BY <1>1
<1>3. \A r \in 1 .. Len(table) :
         /\ table[r].source \in Int /\ table[r].departure \in Int /\ table[r].arrival \in Int
         /\ table[r].continuation \in Int
  BY <1>2 DEF RowTypes
<1>4. \A r \in 1 .. Len(table) : table[r].date \in Dates /\ table[r].source \in Fits(a, start, table[r].date)
  BY DEF IsTable
<1> QED BY <1>1, <1>2, <1>3, <1>4

\* The table stays one when the least candidate joins it.
LEMMA LongerIsTable ==
  ASSUME NEW a, IsTimetable(a.connections), NEW start \in Int,
         NEW table, IsTable(a, start, table), NEW c, IsCursor(a, start, c, table), c.candidate # 0,
         NEW longer, Extends(a, start, c, table, longer)
  PROVE  IsTable(a, start, longer)
<1> DEFINE cs == a.connections
           x == c.candidate
           p == c.previousRow[cs[x].trip]
           n == Len(table)
           q == n + 1
           follows(r) == /\ table[r].date = c.date /\ cs[x].trip = cs[table[r].source].trip
                         /\ cs[x].visit = cs[table[r].source].visit + 1
<1>1. /\ n \in Nat /\ DOMAIN table = 1 .. n
      /\ \A r \in 1 .. n : table[r].date \in Dates /\ table[r].source \in Fits(a, start, table[r].date)
      /\ \A r \in 1 .. n : table[r].departure \in Int
  BY TableFacts
<1>2. /\ longer \in Seq(RowTypes) /\ Len(longer) = q
      /\ \A r \in 1 .. n :
           /\ longer[r].source = table[r].source /\ longer[r].date = table[r].date
           /\ longer[r].departure = table[r].departure /\ longer[r].arrival = table[r].arrival
           /\ longer[r].continuation = IF r = p THEN q ELSE table[r].continuation
      /\ longer[q].source = x /\ longer[q].date = c.date
      /\ longer[q].departure = Anchor[c.date] + cs[x].departure - start
      /\ longer[q].arrival = Anchor[c.date] + cs[x].arrival - start
      /\ longer[q].continuation = 0
  BY DEF Extends
<1>3. DOMAIN longer = 1 .. q /\ (\A r \in 1 .. q : r \in 1 .. n \/ r = q) /\ q \in Nat /\ n < q /\ q \in 1 .. q
      /\ \A r \in 1 .. n : r \in 1 .. q
  BY <1>1, <1>2
<1>4. c.date \in Dates /\ x \in Fits(a, start, c.date)
  BY DEF IsCursor
<1>5. /\ \A r \in 1 .. n : follows(r) <=> r = p
      /\ \A r \in 1 .. n : ~(/\ table[r].date = c.date /\ cs[x].trip = cs[table[r].source].trip
                             /\ cs[table[r].source].visit = cs[x].visit + 1)
      /\ \A r \in 1 .. n : ~(table[r].date = c.date /\ table[r].source = x)
      /\ p # 0 => p \in 1 .. n /\ NextRows(cs, table, p) = {}
  BY RowsFollow
<1>6. \A r \in 1 .. n :
       /\ table[r].departure = Anchor[table[r].date] + cs[table[r].source].departure - start
       /\ table[r].arrival = Anchor[table[r].date] + cs[table[r].source].arrival - start
       /\ r > 1 => table[r - 1].departure <= table[r].departure
       /\ NextRows(cs, table, r)
            = IF table[r].continuation = 0 THEN {} ELSE {table[r].continuation}
       /\ table[r].continuation \in {0} \cup (r + 1 .. n)
  BY DEF IsTable
<1>7. \A r \in 1 .. n : table[r].departure <= Anchor[c.date] + cs[x].departure - start
  BY DEF IsCursor
<1>8. cs[x].visit \in Nat /\ x \in 1 .. Len(cs)
  BY <1>4, SpanFacts DEF IsTimetable
<1>19. \A r, s \in 1 .. n :
         table[r].date = table[s].date /\ table[r].source = table[s].source => r = s
  BY DEF IsTable
<1> HIDE DEF cs, x, p, n, q, follows
<1>9. ASSUME NEW r \in 1 .. q
      PROVE  /\ longer[r].date \in Dates /\ longer[r].source \in Fits(a, start, longer[r].date)
             /\ longer[r].departure = Anchor[longer[r].date] + cs[longer[r].source].departure - start
             /\ longer[r].arrival = Anchor[longer[r].date] + cs[longer[r].source].arrival - start
  <2>1. CASE r \in 1 .. n
    BY <1>1, <1>2, <1>6, <2>1
  <2>2. CASE r = q
    BY <1>2, <1>4, <2>2
  <2> QED BY <1>3, <2>1, <2>2
<1>10. ASSUME NEW r \in 1 .. q, r > 1
       PROVE  longer[r - 1].departure <= longer[r].departure
  <2>1. r - 1 \in 1 .. n
    BY <1>1, <1>10 DEF q
  <2>2. CASE r \in 1 .. n
    BY <1>2, <1>6, <1>10, <2>1, <2>2
  <2>3. CASE r = q
    BY <1>2, <1>7, <2>1, <2>3
  <2> QED BY <1>3, <2>2, <2>3
<1>11. ASSUME NEW r \in 1 .. n
       PROVE  NextRows(cs, longer, r) = NextRows(cs, table, r) \cup (IF r = p THEN {q} ELSE {})
  <2>1. \A s \in 1 .. n : s \in NextRows(cs, longer, r) <=> s \in NextRows(cs, table, r)
    <3> TAKE s \in 1 .. n
    <3>1. /\ longer[s].date = table[s].date /\ longer[s].source = table[s].source
          /\ longer[r].date = table[r].date /\ longer[r].source = table[r].source
          /\ s \in DOMAIN longer /\ s \in DOMAIN table
      BY <1>1, <1>2, <1>3
    <3> QED BY <3>1 DEF NextRows
  <2>2. q \in NextRows(cs, longer, r) <=> r = p
    <3>1. /\ longer[q].date = c.date /\ longer[q].source = x
          /\ longer[r].date = table[r].date /\ longer[r].source = table[r].source
          /\ q \in DOMAIN longer
      BY <1>2, <1>3
    <3>2. q \in NextRows(cs, longer, r) <=> follows(r)
      BY <3>1 DEF NextRows, follows
    <3> QED BY <1>5, <3>2
  <2>3. NextRows(cs, table, r) \subseteq 1 .. n /\ NextRows(cs, longer, r) \subseteq 1 .. q
    BY <1>1, <1>3 DEF NextRows
  <2>4. q \notin 1 .. n
    BY <1>1 DEF q
  <2> QED BY <1>3, <2>1, <2>2, <2>3, <2>4
<1>12. NextRows(cs, longer, q) = {}
  <2> SUFFICES ASSUME NEW s \in NextRows(cs, longer, q) PROVE FALSE
    OBVIOUS
  <2>1. /\ s \in 1 .. q /\ longer[s].date = c.date
        /\ cs[longer[s].source].trip = cs[x].trip
        /\ cs[longer[s].source].visit = cs[x].visit + 1
    BY <1>2, <1>3 DEF NextRows
  <2>2. CASE s \in 1 .. n
    BY <1>2, <1>5, <2>1, <2>2
  <2>3. CASE s = q
    BY <1>2, <1>8, <2>1, <2>3
  <2> QED BY <1>3, <2>1, <2>2, <2>3
<1>13. ASSUME NEW r \in 1 .. q
       PROVE  /\ NextRows(cs, longer, r)
                   = IF longer[r].continuation = 0 THEN {} ELSE {longer[r].continuation}
              /\ longer[r].continuation \in {0} \cup (r + 1 .. q)
  <2>1. CASE r = q
    BY <1>2, <1>12, <2>1
  <2>2. CASE r \in 1 .. n /\ r = p
    <3>1. longer[r].continuation = q /\ q # 0
      BY <1>1, <1>2, <2>2 DEF q
    <3>2. p # 0
      BY <1>1, <2>2
    <3>3. NextRows(cs, longer, r) = {q}
      BY <1>5, <1>11, <2>2, <3>2
    <3>4. q \in r + 1 .. q
      BY <1>1, <2>2 DEF q
    <3> QED BY <3>1, <3>3, <3>4
  <2>3. CASE r \in 1 .. n /\ r # p
    <3>1. longer[r].continuation = table[r].continuation
      BY <1>2, <2>3
    <3>2. NextRows(cs, longer, r) = NextRows(cs, table, r)
      BY <1>11, <2>3
    <3>3. table[r].continuation \in {0} \cup (r + 1 .. q)
      BY <1>1, <1>6, <2>3 DEF q
    <3> QED BY <1>6, <2>3, <3>1, <3>2, <3>3
  <2> QED BY <1>3, <2>1, <2>2, <2>3
<1>14. ASSUME NEW r \in 1 .. q, NEW s \in 1 .. q,
              longer[r].date = longer[s].date, longer[r].source = longer[s].source
       PROVE  r = s
  <2>1. CASE r \in 1 .. n /\ s \in 1 .. n
    BY <1>2, <1>14, <1>19, <2>1
  <2>2. CASE r = q /\ s \in 1 .. n
    BY <1>2, <1>5, <1>14, <2>2
  <2>3. CASE r \in 1 .. n /\ s = q
    BY <1>2, <1>5, <1>14, <2>3
  <2>4. CASE r = q /\ s = q
    BY <2>4
  <2> QED BY <1>3, <2>1, <2>2, <2>3, <2>4
<1>15. \A r \in 1 .. Len(longer) :
       /\ longer[r].date \in Dates /\ longer[r].source \in Fits(a, start, longer[r].date)
       /\ longer[r].departure = Anchor[longer[r].date] + cs[longer[r].source].departure - start
       /\ longer[r].arrival = Anchor[longer[r].date] + cs[longer[r].source].arrival - start
       /\ r > 1 => longer[r - 1].departure <= longer[r].departure
       /\ NextRows(cs, longer, r)
            = IF longer[r].continuation = 0 THEN {} ELSE {longer[r].continuation}
       /\ longer[r].continuation \in {0} \cup (r + 1 .. Len(longer))
  BY <1>2, <1>9, <1>10, <1>13
<1>16. \A r, s \in 1 .. Len(longer) :
         longer[r].date = longer[s].date /\ longer[r].source = longer[s].source => r = s
  BY <1>2, <1>14
<1> QED BY <1>2, <1>15, <1>16 DEF IsTable, cs

\* The other cursors stand to the longer table as to the shorter one.
LEMMA OthersStay ==
  ASSUME NEW a, IsTimetable(a.connections), NEW start \in Int,
         NEW table, IsTable(a, start, table), NEW c, IsCursor(a, start, c, table), c.candidate # 0,
         NEW longer, Extends(a, start, c, table, longer),
         NEW e, IsCursor(a, start, e, table), e.date # c.date,
         e.candidate # 0 =>
           Anchor[c.date] + a.connections[c.candidate].departure
             <= Anchor[e.date] + a.connections[e.candidate].departure
  PROVE  IsCursor(a, start, e, longer)
<1> DEFINE cs == a.connections
           n == Len(table)
           q == n + 1
           d == e.date
<1>1. n \in Nat
  BY TableFacts
<1>2. /\ Len(longer) = q
      /\ \A r \in 1 .. n :
           /\ longer[r].source = table[r].source /\ longer[r].date = table[r].date
           /\ longer[r].departure = table[r].departure
      /\ longer[q].date = c.date
      /\ longer[q].departure = Anchor[c.date] + cs[c.candidate].departure - start
  BY DEF Extends
<1>3. (\A r \in 1 .. q : r \in 1 .. n \/ r = q) /\ \A r \in 1 .. n : r \in 1 .. q
  BY <1>1
<1>4. \A r \in 1 .. q : longer[r].date = d => r \in 1 .. n /\ table[r].date = d /\ longer[r].source = table[r].source
  BY <1>2, <1>3
<1>5. \A r \in 1 .. n : table[r].date = d => r \in 1 .. q /\ longer[r].date = d /\ longer[r].source = table[r].source
  BY <1>2, <1>3
<1>6. /\ d \in Dates /\ e.active = ActiveServices(a, d) /\ e.range = Span(a, start, d)
      /\ e.candidate \in Fits(a, start, d) \cup {0} /\ (e.candidate # 0 => e.index = e.candidate)
      /\ e.previousRow \in [Trips -> Int]
  BY DEF IsCursor
<1>7. \A i \in Fits(a, start, d) : Behind(e, i) =>
       \E r \in 1 .. n : table[r].date = d /\ table[r].source = i
  BY DEF IsCursor
<1>8. \A r \in 1 .. n : table[r].date = d => Behind(e, table[r].source)
  BY DEF IsCursor
<1>9. e.candidate # 0 =>
       \A r \in 1 .. n : table[r].departure <= Anchor[d] + cs[e.candidate].departure - start
  BY DEF IsCursor
<1>10. \A t \in Trips :
         /\ e.previousRow[t] = 0 =>
            \A r \in 1 .. n : table[r].date = d /\ cs[table[r].source].trip = t =>
                \E i \in Live(a, start, d) : Behind(e, i) /\ cs[i].trip = t /\ table[r].source < i
         /\ e.previousRow[t] # 0 =>
            /\ e.previousRow[t] \in 1 .. n
            /\ table[e.previousRow[t]].date = d
            /\ cs[table[e.previousRow[t]].source].trip = t
            /\ \A i \in Live(a, start, d) :
                 Behind(e, i) /\ cs[i].trip = t => i <= table[e.previousRow[t]].source
  BY DEF IsCursor
<1>11. e.candidate # 0 => Anchor[c.date] + cs[c.candidate].departure <= Anchor[d] + cs[e.candidate].departure
  OBVIOUS
<1>12. /\ Anchor[c.date] \in Int /\ cs[c.candidate].departure \in Int
       /\ e.candidate # 0 => Anchor[d] \in Int /\ cs[e.candidate].departure \in Int
  <2>1. c.date \in Dates /\ c.candidate \in Fits(a, start, c.date)
    BY DEF IsCursor
  <2>4. \A i \in 1 .. Len(cs) : cs[i].departure \in Int
    BY DEF IsTimetable
  <2>5. Anchor[c.date] \in Int /\ Anchor[d] \in Int
    BY <1>6, <2>1, AnchorsIncrease
  <2>6. c.candidate \in 1 .. Len(cs) /\ (e.candidate # 0 => e.candidate \in 1 .. Len(cs))
    BY <1>6, <2>1, SpanFacts
  <2> HIDE DEF cs, d
  <2>2. cs[c.candidate].departure \in Int /\ Anchor[c.date] \in Int
    BY <2>4, <2>5, <2>6
  <2>3. e.candidate # 0 => cs[e.candidate].departure \in Int /\ Anchor[d] \in Int
    BY <2>4, <2>5, <2>6
  <2> QED BY <2>2, <2>3
<1>17. longer[q].departure = Anchor[c.date] + cs[c.candidate].departure - start
  BY DEF Extends
<1> HIDE DEF n, q, d, cs
<1>13. \A i \in Fits(a, start, d) : Behind(e, i) =>
         \E r \in 1 .. q : longer[r].date = d /\ longer[r].source = i
  <2> TAKE i \in Fits(a, start, d)
  <2> HAVE Behind(e, i)
  <2>1. PICK r \in 1 .. n : table[r].date = d /\ table[r].source = i
    BY <1>7
  <2> QED BY <1>5, <2>1
<1>14. \A r \in 1 .. q : longer[r].date = d => Behind(e, longer[r].source)
  BY <1>4, <1>8
<1>15. ASSUME e.candidate # 0, NEW r \in 1 .. q
       PROVE  longer[r].departure <= Anchor[d] + cs[e.candidate].departure - start
  <2>1. CASE r \in 1 .. n
    BY <1>2, <1>9, <1>15, <2>1
  <2>2. CASE r = q
    <3>1. longer[r].departure = Anchor[c.date] + cs[c.candidate].departure - start
      BY <1>17, <2>2
    <3>2. Anchor[c.date] + cs[c.candidate].departure <= Anchor[d] + cs[e.candidate].departure
      BY <1>11, <1>15
    <3> QED BY <1>12, <1>15, <3>1, <3>2
  <2> QED BY <1>3, <2>1, <2>2
<1>16. ASSUME NEW t \in Trips
       PROVE  /\ e.previousRow[t] = 0 =>
                  \A r \in 1 .. q : longer[r].date = d /\ cs[longer[r].source].trip = t =>
                    \E i \in Live(a, start, d) : Behind(e, i) /\ cs[i].trip = t /\ longer[r].source < i
              /\ e.previousRow[t] # 0 =>
                  /\ e.previousRow[t] \in 1 .. q
                  /\ longer[e.previousRow[t]].date = d
                  /\ cs[longer[e.previousRow[t]].source].trip = t
                  /\ \A i \in Live(a, start, d) :
                       Behind(e, i) /\ cs[i].trip = t => i <= longer[e.previousRow[t]].source
  <2>1. ASSUME e.previousRow[t] = 0, NEW r \in 1 .. q, longer[r].date = d, cs[longer[r].source].trip = t
        PROVE  \E i \in Live(a, start, d) : Behind(e, i) /\ cs[i].trip = t /\ longer[r].source < i
    <3>1. r \in 1 .. n /\ table[r].date = d /\ longer[r].source = table[r].source
      BY <1>4, <2>1
    <3> QED BY <1>10, <2>1, <3>1
  <2>2. ASSUME e.previousRow[t] # 0
        PROVE  /\ e.previousRow[t] \in 1 .. q
               /\ longer[e.previousRow[t]].date = d
               /\ cs[longer[e.previousRow[t]].source].trip = t
               /\ \A i \in Live(a, start, d) :
                    Behind(e, i) /\ cs[i].trip = t => i <= longer[e.previousRow[t]].source
    BY <1>5, <1>10, <2>2
  <2> QED BY <2>1, <2>2
<1> QED BY <1>2, <1>6, <1>13, <1>14, <1>15, <1>16 DEF IsCursor, d, cs

\* A cursor moves on to the next connection that fits, and forgets the rows of
\* the trips it passes over.
Advances(a, start, c, e) ==
  LET fits == {i \in Fits(a, start, c.date) : i > c.index}
      live == {i \in Live(a, start, c.date) : i > c.index}
  IN  /\ e.date = c.date /\ e.active = c.active /\ e.range = c.range
      /\ fits = {} => e.candidate = 0
      /\ fits # {} => e.candidate \in fits /\ \A i \in fits : e.candidate <= i
      /\ e.candidate # 0 => e.index = e.candidate
      /\ e.previousRow \in [Trips -> Int]
      /\ \A t \in Trips :
           e.previousRow[t] = IF \E i \in live : Behind(e, i) /\ a.connections[i].trip = t
                              THEN 0 ELSE c.previousRow[t]

\* What a cursor that has moved on has gone over.
LEMMA AdvancesFacts ==
  ASSUME NEW a, IsTimetable(a.connections), NEW start \in Int, NEW c, c.date \in Dates,
         c.index \in Nat, NEW e, Advances(a, start, c, e)
  PROVE  /\ e.date = c.date /\ e.active = c.active /\ e.range = c.range
         /\ e.candidate \in Fits(a, start, c.date) \cup {0}
         /\ e.candidate # 0 => e.index = e.candidate
         /\ \A i \in Fits(a, start, c.date) : Behind(e, i) <=> i <= c.index
         /\ \A i \in Nat : i <= c.index => Behind(e, i)
         /\ e.candidate # 0 => e.candidate > c.index
<1> DEFINE fits == {i \in Fits(a, start, c.date) : i > c.index}
<1>1. \A i \in Fits(a, start, c.date) : i \in Nat \ {0}
  BY SpanFacts
<1>2. /\ fits = {} => e.candidate = 0
      /\ fits # {} => e.candidate \in fits /\ \A i \in fits : e.candidate <= i
  BY DEF Advances
<1>3. /\ e.date = c.date /\ e.active = c.active /\ e.range = c.range
      /\ e.candidate # 0 => e.index = e.candidate
  BY DEF Advances
<1>4. e.candidate \in Fits(a, start, c.date) \cup {0} /\ (e.candidate # 0 => e.candidate > c.index)
  BY <1>2
<1>5. ASSUME NEW i \in Nat, i <= c.index PROVE Behind(e, i)
  <2>1. CASE e.candidate = 0
    BY <2>1 DEF Behind
  <2>2. CASE e.candidate # 0
    <3>1. e.candidate > c.index /\ e.candidate \in Nat
      BY <1>1, <1>4, <2>2
    <3> QED BY <1>5, <3>1 DEF Behind
  <2> QED BY <2>1, <2>2
<1>6. ASSUME NEW i \in Fits(a, start, c.date), Behind(e, i), i > c.index PROVE FALSE
  <2>1. i \in fits
    BY <1>6
  <2>2. e.candidate \in fits /\ e.candidate <= i
    BY <1>2, <2>1
  <2>3. e.candidate \in Nat \ {0} /\ i \in Nat
    BY <1>1, <2>2
  <2> QED BY <1>6, <2>2, <2>3 DEF Behind
<1>7. \A i \in Fits(a, start, c.date) : Behind(e, i) <=> i <= c.index
  <2> TAKE i \in Fits(a, start, c.date)
  <2>1. i \in Nat
    BY <1>1
  <2> QED BY <1>5, <1>6, <2>1
<1> QED BY <1>3, <1>4, <1>5, <1>7

\* A cursor that is opened stands to the empty table as it should.
LEMMA OpenCursor ==
  ASSUME NEW a, IsTimetable(a.connections), NEW start \in Int, NEW c, c.date \in Dates,
         c.active = ActiveServices(a, c.date), c.range = Span(a, start, c.date),
         c.index = 0, c.previousRow = [t \in Trips |-> 0],
         NEW e, Advances(a, start, c, e)
  PROVE  IsCursor(a, start, e, <<>>)
<1>1. \A i \in Fits(a, start, c.date) : i \in Nat \ {0}
  BY SpanFacts
<1>2. c.index \in Nat
  OBVIOUS
<1>3. /\ e.date = c.date /\ e.active = c.active /\ e.range = c.range
      /\ e.candidate \in Fits(a, start, c.date) \cup {0}
      /\ e.candidate # 0 => e.index = e.candidate
      /\ \A i \in Fits(a, start, c.date) : Behind(e, i) <=> i <= c.index
  BY <1>2, AdvancesFacts
<1>4. e.previousRow \in [Trips -> Int] /\ \A t \in Trips : e.previousRow[t] = 0
  BY DEF Advances
<1>5. \A i \in Fits(a, start, e.date) : ~Behind(e, i)
  BY <1>1, <1>3
<1>6. Len(<<>>) = 0 /\ 1 .. Len(<<>>) = {}
  OBVIOUS
<1> QED BY <1>3, <1>4, <1>5, <1>6 DEF IsCursor

\* A cursor whose candidate has become a row stands to the longer table as it
\* should once it has moved on.
LEMMA MergeCursor ==
  ASSUME NEW a, IsTimetable(a.connections), NEW start \in Int,
         NEW table, IsTable(a, start, table), NEW c, IsCursor(a, start, c, table), c.candidate # 0,
         NEW longer, Extends(a, start, c, table, longer),
         NEW b, b.date = c.date, b.active = c.active, b.range = c.range, b.index = c.index,
         \A t \in Trips : b.previousRow[t] = IF t = a.connections[c.candidate].trip
                                             THEN Len(table) + 1 ELSE c.previousRow[t],
         NEW e, Advances(a, start, b, e)
  PROVE  IsCursor(a, start, e, longer)
<1> DEFINE cs == a.connections
           x == c.candidate
           n == Len(table)
           q == n + 1
           d == c.date
           fits == Fits(a, start, d)
           live == Live(a, start, d)
<1>1. /\ n \in Nat /\ d \in Dates /\ x \in fits /\ x = c.index
      /\ c.active = ActiveServices(a, d) /\ c.range = Span(a, start, d)
  BY TableFacts DEF IsCursor
<1>2. /\ fits \subseteq live /\ live \subseteq 1 .. Len(cs) /\ \A i \in live : i \in Nat \ {0}
  BY <1>1, SpanFacts
<1>3. x \in Nat \ {0} /\ x \in 1 .. Len(cs) /\ x \in live /\ b.index \in Nat /\ b.index = x /\ b.date \in Dates
  BY <1>1, <1>2
<1>4. /\ e.date = d /\ e.active = c.active /\ e.range = c.range
      /\ e.candidate \in fits \cup {0}
      /\ e.candidate # 0 => e.index = e.candidate
      /\ \A i \in fits : Behind(e, i) <=> i <= x
      /\ \A i \in Nat : i <= x => Behind(e, i)
      /\ e.candidate # 0 => e.candidate > x
  BY <1>3, AdvancesFacts
<1>5. /\ e.previousRow \in [Trips -> Int]
      /\ \A t \in Trips :
           e.previousRow[t] = IF \E i \in live : i > x /\ Behind(e, i) /\ cs[i].trip = t
                              THEN 0 ELSE b.previousRow[t]
  <2>1. /\ e.previousRow \in [Trips -> Int]
        /\ \A t \in Trips :
             e.previousRow[t] = IF \E i \in {j \in live : j > x} : Behind(e, i) /\ cs[i].trip = t
                                THEN 0 ELSE b.previousRow[t]
    BY <1>3 DEF Advances
  <2> HIDE DEF live, cs, x
  <2>2. ASSUME NEW t \in Trips
        PROVE  e.previousRow[t] = IF \E i \in live : i > x /\ Behind(e, i) /\ cs[i].trip = t
                                  THEN 0 ELSE b.previousRow[t]
    <3>1. (\E i \in {j \in live : j > x} : Behind(e, i) /\ cs[i].trip = t)
            <=> (\E i \in live : i > x /\ Behind(e, i) /\ cs[i].trip = t)
      OBVIOUS
    <3> QED BY <2>1, <3>1
  <2> QED BY <2>1, <2>2
<1>6. /\ Len(longer) = q
      /\ \A r \in 1 .. n :
           /\ longer[r].source = table[r].source /\ longer[r].date = table[r].date
           /\ longer[r].departure = table[r].departure
      /\ longer[q].source = x /\ longer[q].date = d
      /\ longer[q].departure = Anchor[d] + cs[x].departure - start
  BY DEF Extends
<1>7. (\A r \in 1 .. q : r \in 1 .. n \/ r = q) /\ (\A r \in 1 .. n : r \in 1 .. q) /\ q \in 1 .. q /\ q # 0
  BY <1>1
<1>8. \A i \in fits : i < x => \E r \in 1 .. n : table[r].date = d /\ table[r].source = i
  BY DEF IsCursor, Behind
<1>9. \A r \in 1 .. n : table[r].date = d => table[r].source < x
  BY DEF IsCursor, Behind
<1>10. \A r \in 1 .. n : table[r].departure <= Anchor[d] + cs[x].departure - start
  BY DEF IsCursor
<1>11. \A t \in Trips :
         /\ c.previousRow[t] = 0 =>
            \A r \in 1 .. n : table[r].date = d /\ cs[table[r].source].trip = t =>
                \E i \in live : i < x /\ cs[i].trip = t /\ table[r].source < i
         /\ c.previousRow[t] # 0 =>
            /\ c.previousRow[t] \in 1 .. n
            /\ table[c.previousRow[t]].date = d
            /\ cs[table[c.previousRow[t]].source].trip = t
            /\ \A i \in live : i < x /\ cs[i].trip = t => i <= table[c.previousRow[t]].source
  BY DEF IsCursor, Behind
<1>12. /\ \A i \in 1 .. Len(cs) : cs[i].trip \in Trips /\ cs[i].departure \in Int
       /\ \A i, j \in 1 .. Len(cs) : i <= j => cs[i].departure <= cs[j].departure
  BY DEF IsTimetable
<1>13. \A r \in 1 .. n : table[r].date = d => table[r].source \in Nat /\ table[r].source \in live
  BY <1>2, TableFacts
<1>14. Anchor[d] \in Int /\ \A r \in 1 .. n : table[r].departure \in Int
  BY <1>1, AnchorsIncrease, TableFacts
<1>15. \A t \in Trips : b.previousRow[t] = IF t = cs[x].trip THEN q ELSE c.previousRow[t]
  OBVIOUS
<1> HIDE DEF cs, x, n, q, d, fits, live
<1>16. \A i \in fits : Behind(e, i) => \E r \in 1 .. q : longer[r].date = d /\ longer[r].source = i
  <2> TAKE i \in fits
  <2> HAVE Behind(e, i)
  <2>1. i <= x /\ i \in Nat
    BY <1>2, <1>4
  <2>2. CASE i = x
    BY <1>6, <1>7, <2>2
  <2>3. CASE i # x
    <3>1. i < x
      BY <1>3, <2>1, <2>3
    <3>2. PICK r \in 1 .. n : table[r].date = d /\ table[r].source = i
      BY <1>8, <3>1
    <3> QED BY <1>6, <1>7, <3>2
  <2> QED BY <2>2, <2>3
<1>17. ASSUME NEW r \in 1 .. q, longer[r].date = d PROVE longer[r].source <= x /\ longer[r].source \in Nat
  <2>1. CASE r \in 1 .. n
    BY <1>3, <1>6, <1>9, <1>13, <1>17, <2>1
  <2>2. CASE r = q
    BY <1>3, <1>6, <2>2
  <2> QED BY <1>7, <2>1, <2>2
<1>18. \A r \in 1 .. q : longer[r].date = d => Behind(e, longer[r].source)
  BY <1>4, <1>17
<1>19. ASSUME e.candidate # 0, NEW r \in 1 .. q
       PROVE  longer[r].departure <= Anchor[d] + cs[e.candidate].departure - start
  <2>0. e.candidate \in fits /\ e.candidate > x
    BY <1>4, <1>19
  <2>1. e.candidate \in 1 .. Len(cs) /\ x <= e.candidate
    <3>1. e.candidate \in live
      BY <1>2, <2>0
    <3>2. e.candidate \in Nat /\ e.candidate \in 1 .. Len(cs)
      BY <1>2, <3>1
    <3> QED BY <1>3, <2>0, <3>2
  <2>2. cs[x].departure <= cs[e.candidate].departure /\ cs[x].departure \in Int /\ cs[e.candidate].departure \in Int
    BY <1>3, <1>12, <2>1
  <2>3. longer[r].departure <= Anchor[d] + cs[x].departure - start /\ longer[r].departure \in Int
    <3>1. CASE r \in 1 .. n
      BY <1>6, <1>10, <1>14, <3>1
    <3>2. CASE r = q
      BY <1>6, <1>14, <2>2, <3>2
    <3> QED BY <1>7, <3>1, <3>2
  <2> QED BY <1>14, <2>2, <2>3
<1>20. ASSUME NEW t \in Trips
       PROVE  /\ e.previousRow[t] = 0 =>
                  \A r \in 1 .. q : longer[r].date = d /\ cs[longer[r].source].trip = t =>
                    \E i \in live : Behind(e, i) /\ cs[i].trip = t /\ longer[r].source < i
              /\ e.previousRow[t] # 0 =>
                  /\ e.previousRow[t] \in 1 .. q
                  /\ longer[e.previousRow[t]].date = d
                  /\ cs[longer[e.previousRow[t]].source].trip = t
                  /\ \A i \in live : Behind(e, i) /\ cs[i].trip = t => i <= longer[e.previousRow[t]].source
  <2>1. CASE \E i \in live : i > x /\ Behind(e, i) /\ cs[i].trip = t
    <3>1. PICK i \in live : i > x /\ Behind(e, i) /\ cs[i].trip = t
      BY <2>1
    <3>2. e.previousRow[t] = 0
      BY <1>5, <2>1
    <3>3. \A r \in 1 .. q : longer[r].date = d => longer[r].source < i
      BY <1>2, <1>3, <1>17, <3>1
    <3> QED BY <3>1, <3>2, <3>3
  <2>2. CASE ~\E i \in live : i > x /\ Behind(e, i) /\ cs[i].trip = t
    <3>1. e.previousRow[t] = b.previousRow[t]
      BY <1>5, <2>2
    <3>2. \A i \in live : Behind(e, i) /\ cs[i].trip = t => i <= x
      BY <1>2, <1>3, <2>2
    <3>3. CASE t = cs[x].trip
      <4>1. e.previousRow[t] = q
        BY <1>15, <3>1, <3>3
      <4> QED BY <1>6, <1>7, <3>2, <3>3, <4>1
    <3>4. CASE t # cs[x].trip
      <4>1. e.previousRow[t] = c.previousRow[t]
        BY <1>15, <3>1, <3>4
      <4>2. ASSUME e.previousRow[t] = 0, NEW r \in 1 .. q, longer[r].date = d, cs[longer[r].source].trip = t
            PROVE  \E i \in live : Behind(e, i) /\ cs[i].trip = t /\ longer[r].source < i
        <5>1. r \in 1 .. n
          BY <1>6, <1>7, <3>4, <4>2
        <5>2. PICK i \in live : i < x /\ cs[i].trip = t /\ table[r].source < i
          <6>1. table[r].date = d /\ cs[table[r].source].trip = t
            BY <1>6, <4>2, <5>1
          <6>2. c.previousRow[t] = 0
            BY <4>1, <4>2
          <6> QED BY <1>11, <5>1, <6>1, <6>2
        <5>3. Behind(e, i)
          BY <1>2, <1>3, <1>4, <5>2
        <5> QED BY <1>6, <5>1, <5>2, <5>3
      <4>3. ASSUME e.previousRow[t] # 0
            PROVE  /\ e.previousRow[t] \in 1 .. q
                   /\ longer[e.previousRow[t]].date = d
                   /\ cs[longer[e.previousRow[t]].source].trip = t
                   /\ \A i \in live : Behind(e, i) /\ cs[i].trip = t => i <= longer[e.previousRow[t]].source
        <5> DEFINE p == c.previousRow[t]
        <5>1. /\ e.previousRow[t] = p /\ p \in 1 .. n /\ table[p].date = d /\ cs[table[p].source].trip = t
              /\ \A i \in live : i < x /\ cs[i].trip = t => i <= table[p].source
          BY <1>11, <4>1, <4>3
        <5> HIDE DEF p
        <5>2. longer[p].date = d /\ longer[p].source = table[p].source /\ p \in 1 .. q
          BY <1>6, <1>7, <5>1
        <5>3. \A i \in live : Behind(e, i) /\ cs[i].trip = t => i < x
          <6> TAKE i \in live
          <6> HAVE Behind(e, i) /\ cs[i].trip = t
          <6>1. i <= x /\ i # x
            BY <3>2, <3>4
          <6>2. i \in Nat
            BY <1>2
          <6> QED BY <1>3, <6>1, <6>2
        <5> QED BY <5>1, <5>2, <5>3
      <4> QED BY <4>2, <4>3
    <3> QED BY <3>3, <3>4
  <2> QED BY <2>1, <2>2
<1>21. /\ e.date \in Dates /\ e.active = ActiveServices(a, e.date) /\ e.range = Span(a, start, e.date)
       /\ e.candidate \in Fits(a, start, e.date) \cup {0} /\ (e.candidate # 0 => e.index = e.candidate)
       /\ e.previousRow \in [Trips -> Int]
  BY <1>1, <1>4, <1>5 DEF fits
<1> QED BY <1>4, <1>6, <1>16, <1>18, <1>19, <1>20, <1>21 DEF IsCursor, fits, live, cs

\* A search may start here in a schedule.
StartsIn(f, a, start) ==
  /\ IsParsed(f) /\ IsCompiled(f, a)
  /\ start \in Int /\ a.earliest <= start /\ start <= a.latest

First(a, start) == ServiceDate(start) - a.maximumTime \div Day

\* The service date of a time is the last one that has begun.
LEMMA ServiceDateHolds ==
  ASSUME NEW time \in Int, NEW e \in Dates, Anchor[e] <= time
  PROVE  /\ ServiceDate(time) \in Dates /\ Anchor[ServiceDate(time)] <= time
         /\ \A d \in Dates : Anchor[d] <= time => d <= ServiceDate(time)
<1> DEFINE S == {d \in Dates : Anchor[d] <= time}
<1>1. S \in SUBSET Int /\ S # {} /\ Max(Dates) \in Int /\ \A i \in S : i <= Max(Dates)
  BY AnchorsIncrease, ScheduleAssumption
<1> HIDE DEF S
<1>2. Max(S) \in S /\ \A i \in S : i <= Max(S)
  BY <1>1, MaxOf
<1>3. ServiceDate(time) = Max(S)
  BY DEF ServiceDate, S
<1> QED BY <1>2, <1>3 DEF S

\* The dates a search looks at.
LEMMA SearchDates ==
  ASSUME NEW f, NEW a, NEW start, StartsIn(f, a, start)
  PROVE  /\ ServiceDate(start) \in Dates /\ ServiceDate(start) \in Int /\ Anchor[ServiceDate(start)] <= start
         /\ \A d \in Dates : Anchor[d] <= start => d <= ServiceDate(start)
         /\ LastCandidate(start) \in Dates /\ LastCandidate(start) \in Int
         /\ \A d \in Dates : Anchor[d] <= start + Day => d <= LastCandidate(start)
         /\ First(a, start) \in Int
<1>1. /\ a.firstDate \in Dates /\ a.earliest \in Int /\ Anchor[a.firstDate] <= a.earliest
      /\ a.maximumTime \in Nat /\ start \in Int /\ a.earliest <= start
      /\ Day \in Nat \ {0}
  BY CompiledBounds, ScheduleAssumption DEF StartsIn
<1>2. Anchor[a.firstDate] \in Int
  BY <1>1, AnchorsIncrease
<1>3. Anchor[a.firstDate] <= start /\ start + Day \in Int /\ Anchor[a.firstDate] <= start + Day
  BY <1>1, <1>2
<1>4. /\ ServiceDate(start) \in Dates /\ Anchor[ServiceDate(start)] <= start
      /\ \A d \in Dates : Anchor[d] <= start => d <= ServiceDate(start)
  BY <1>1, <1>3, ServiceDateHolds
<1>5. /\ LastCandidate(start) \in Dates
      /\ \A d \in Dates : Anchor[d] <= start + Day => d <= LastCandidate(start)
  BY <1>1, <1>3, ServiceDateHolds DEF LastCandidate
<1>6. ServiceDate(start) \in Int /\ LastCandidate(start) \in Int
  BY <1>4, <1>5, AnchorsIncrease
<1>7. a.maximumTime \div Day \in Nat
  BY <1>1, Division
<1> QED BY <1>4, <1>5, <1>6, <1>7 DEF First

\* Days that are all as long as they should be are as far apart as they should be.
LEMMA LongDays ==
  ASSUME NEW d \in Dates, NEW e \in Dates, d <= e,
         \A i \in Dates \ {Max(Dates)} : d <= i /\ i < e => Anchor[i + 1] - Anchor[i] >= Day
  PROVE  Anchor[d] + Day * (e - d) <= Anchor[e]
<1> DEFINE n == e - d
           good == {k \in Nat : k <= n => Anchor[d] + Day * k <= Anchor[d + k]}
<1>1. d \in Int /\ e \in Int /\ Day \in Int /\ n \in Nat /\ d + n = e /\ Anchor[d] \in Int
  BY AnchorsIncrease, ScheduleAssumption
<1>2. \A k \in Nat : k <= n => d + k \in Dates /\ Anchor[d + k] \in Int
  <2> TAKE k \in Nat
  <2> HAVE k <= n
  <2>1. d + k \in Int /\ d <= d + k /\ d + k <= e
    BY <1>1
  <2>2. Min(Dates) <= d /\ e <= Max(Dates) /\ Min(Dates) \in Int /\ Max(Dates) \in Int
    BY AnchorsIncrease, ScheduleAssumption
  <2>3. d + k \in Dates
    BY <1>1, <2>1, <2>2, AnchorsIncrease
  <2> QED BY <2>3, AnchorsIncrease
<1>3. 0 \in good
  <2>1. Day * 0 = 0 /\ d + 0 = d
    BY <1>1
  <2> QED BY <1>1, <2>1
<1>4. ASSUME NEW k \in Nat, 0 <= k, k < n, k \in good PROVE k + 1 \in good
  <2>1. d + k \in Dates /\ d + (k + 1) \in Dates /\ Anchor[d + k] \in Int /\ Anchor[d + (k + 1)] \in Int
    BY <1>1, <1>2, <1>4
  <2>2. (d + k) + 1 = d + (k + 1) /\ d <= d + k /\ d + k < e
    BY <1>1, <1>4
  <2>3. d + k # Max(Dates)
    BY <1>1, <2>2, AnchorsIncrease
  <2>4. Anchor[d + (k + 1)] - Anchor[d + k] >= Day
    BY <2>1, <2>2, <2>3
  <2>5. Anchor[d] + Day * k <= Anchor[d + k]
    <3>1. k <= n
      BY <1>1, <1>4
    <3>2. k \in good
      BY <1>4
    <3> QED BY <3>1, <3>2
  <2>6. Day * (k + 1) = Day * k + Day /\ Day * k \in Int
    BY <1>1
  <2>7. Anchor[d] + Day * (k + 1) <= Anchor[d + (k + 1)]
    BY <1>1, <2>1, <2>4, <2>5, <2>6
  <2> QED BY <2>7
<1> HIDE DEF good, n
<1>5. 0 .. n \subseteq good
  <2>1. good \in SUBSET Nat
    BY DEF good
  <2>2. \A k \in Nat : 0 <= k /\ k < n /\ k \in good => k + 1 \in good
    BY <1>4
  <2>3. 0 \in Nat
    OBVIOUS
  <2> QED BY <1>1, <1>3, <2>1, <2>2, <2>3, UpTo
<1>6. n \in good
  BY <1>1, <1>5
<1> QED BY <1>1, <1>6 DEF good, n

\* HiddenByShortDay, RidesIn and HoldsRides of a schedule and its feed.
Hidden(a, d, start) ==
  /\ \E e \in Dates \ {Max(Dates)} :
        e >= d /\ Anchor[e + 1] <= start /\ Anchor[e + 1] - Anchor[e] < Day
  /\ a.maximumTime < Day * (ServiceDate(start) - d)

Rides(a, f, start) ==
  {ride \in (DOMAIN a.connections) \X Dates :
      LET c == a.connections[ride[1]]
      IN  /\ Runs(f, c.service, ride[2])
          /\ Anchor[ride[2]] + c.departure >= start
          /\ Anchor[ride[2]] + c.arrival <= start + Day}

Holds(a, f, start, table) ==
  LET cs == a.connections
      rides == {<<table[r].source, table[r].date>> : r \in DOMAIN table}
  IN  /\ Cardinality(rides) = Len(table)
      /\ rides \subseteq Rides(a, f, start)
      /\ \A ride \in Rides(a, f, start) \ rides : Hidden(a, ride[2], start)
      /\ \A r \in DOMAIN table :
            /\ table[r].departure = Anchor[table[r].date] + cs[table[r].source].departure - start
            /\ table[r].arrival = Anchor[table[r].date] + cs[table[r].source].arrival - start
            /\ r > 1 => table[r - 1].departure <= table[r].departure
            /\ NextRows(cs, table, r) = IF table[r].continuation = 0 THEN {} ELSE {table[r].continuation}

\* A ride of a day before those that are looked at runs only if a short day
\* hides it.
LEMMA EarlierIsHidden ==
  ASSUME NEW f, NEW a, NEW start, StartsIn(f, a, start),
         NEW i \in 1 .. Len(a.connections), NEW d \in Dates, d < First(a, start),
         Anchor[d] + a.connections[i].departure >= start
  PROVE  Hidden(a, d, start)
<1> DEFINE S == ServiceDate(start)  m == a.maximumTime  dep == a.connections[i].departure
<1>1. /\ S \in Dates /\ S \in Int /\ Anchor[S] <= start /\ First(a, start) \in Int
      /\ First(a, start) = S - m \div Day
  BY SearchDates DEF First
<1>2. m \in Nat /\ dep \in Nat /\ dep <= m /\ start \in Int /\ Day \in Nat \ {0}
  BY CompiledBounds, ScheduleAssumption DEF StartsIn, IsTimetable
<1>3. d \in Int /\ Anchor[d] \in Int /\ Anchor[S] \in Int
  BY <1>1, AnchorsIncrease
<1>4. m \div Day \in Nat /\ \A k \in Int : k > m \div Day => m < Day * k
  BY <1>2, Division
<1>10. d < First(a, start) /\ Anchor[d] + dep >= start
  OBVIOUS
<1> HIDE DEF S, m, dep
<1>5. S - d \in Int /\ S - d > m \div Day /\ d < S
  BY <1>1, <1>3, <1>4, <1>10
<1>6. m < Day * (S - d)
  BY <1>4, <1>5
<1>7. ASSUME ~\E e \in Dates \ {Max(Dates)} :
               e >= d /\ Anchor[e + 1] <= start /\ Anchor[e + 1] - Anchor[e] < Day
      PROVE  FALSE
  <2>1. ASSUME NEW e \in Dates \ {Max(Dates)}, d <= e, e < S
        PROVE  Anchor[e + 1] - Anchor[e] >= Day
    <3>1. e \in Int /\ Max(Dates) \in Int /\ e <= Max(Dates) /\ Min(Dates) \in Int /\ Min(Dates) <= e
      BY AnchorsIncrease, ScheduleAssumption
    <3>2. e + 1 \in Int /\ Min(Dates) <= e + 1 /\ e + 1 <= Max(Dates) /\ e + 1 <= S
      BY <1>1, <2>1, <3>1
    <3>3. e + 1 \in Dates
      BY <3>2, AnchorsIncrease
    <3>4. Anchor[e + 1] <= Anchor[S] /\ Anchor[e + 1] \in Int /\ Anchor[e] \in Int
      BY <1>1, <3>2, <3>3, AnchorsIncrease
    <3>5. Anchor[e + 1] <= start
      BY <1>1, <1>2, <1>3, <3>4
    <3>6. ~(Anchor[e + 1] - Anchor[e] < Day)
      BY <1>3, <1>7, <2>1, <3>1, <3>5
    <3> QED BY <1>2, <3>4, <3>6
  <2>2. d <= S
    BY <1>1, <1>3, <1>5
  <2>3. Anchor[d] + Day * (S - d) <= Anchor[S]
    BY <1>1, <2>1, <2>2, LongDays
  <2>4. Day * (S - d) \in Int
    BY <1>2, <1>5
  <2> QED BY <1>1, <1>2, <1>3, <1>6, <1>10, <2>3, <2>4
<1> QED BY <1>6, <1>7 DEF Hidden, S, m

Cursors == [date : Int, active : SUBSET Services, range : SUBSET Int, index : Int,
            candidate : Int, previousRow : [Trips -> Int]]

\* The merge so far: the cursors of the dates before a date stand to the table
\* as they should, and every date with service that is looked at has one.
Merges(a, start, date, cursors, table) ==
  /\ cursors \in Seq(Cursors)
  /\ IsTable(a, start, table)
  /\ \A k \in 1 .. Len(cursors) : IsCursor(a, start, cursors[k], table) /\ cursors[k].date < date
  /\ \A j, k \in 1 .. Len(cursors) : cursors[j].date = cursors[k].date => j = k
  /\ \A d \in Dates : ActiveServices(a, d) # {} /\ First(a, start) <= d /\ d < date =>
       \E k \in 1 .. Len(cursors) : cursors[k].date = d
  /\ table # <<>> => date > LastCandidate(start)

\* A table without rows.
LEMMA EmptyTable ==
  ASSUME NEW a, NEW start
  PROVE  IsTable(a, start, <<>>)
<1>1. <<>> \in Seq(RowTypes) /\ 1 .. Len(<<>>) = {}
  OBVIOUS
<1> QED BY <1>1 DEF IsTable

\* A merge begins without cursors.
LEMMA MergeBegins ==
  ASSUME NEW f, NEW a, NEW start, StartsIn(f, a, start)
  PROVE  Merges(a, start, First(a, start), <<>>, <<>>)
<1>1. <<>> \in Seq(Cursors) /\ 1 .. Len(<<>>) = {}
  OBVIOUS
<1>2. First(a, start) \in Int /\ \A d \in Dates : d \in Int
  BY SearchDates, AnchorsIncrease
<1>3. \A d \in Dates : ~(First(a, start) <= d /\ d < First(a, start))
  BY <1>2
<1> QED BY <1>1, <1>3, EmptyTable DEF Merges

\* A date without service needs no cursor.
LEMMA MergePasses ==
  ASSUME NEW f, NEW a, NEW start, StartsIn(f, a, start), NEW date \in Int, NEW cursors, NEW table,
         Merges(a, start, date, cursors, table), date <= LastCandidate(start),
         ActiveServices(a, date) = {}
  PROVE  Merges(a, start, date + 1, cursors, table)
<1>1. LastCandidate(start) \in Int /\ \A d \in Dates : d \in Int
  BY SearchDates, AnchorsIncrease
<1>2. table = <<>>
  BY <1>1 DEF Merges
<1>3. /\ cursors \in Seq(Cursors) /\ IsTable(a, start, table)
      /\ \A k \in 1 .. Len(cursors) : IsCursor(a, start, cursors[k], table) /\ cursors[k].date < date
      /\ \A j, k \in 1 .. Len(cursors) : cursors[j].date = cursors[k].date => j = k
      /\ \A d \in Dates : ActiveServices(a, d) # {} /\ First(a, start) <= d /\ d < date =>
           \E k \in 1 .. Len(cursors) : cursors[k].date = d
  BY DEF Merges
<1>4. \A k \in 1 .. Len(cursors) : cursors[k].date < date + 1
  <2> TAKE k \in 1 .. Len(cursors)
  <2>1. cursors[k] \in Cursors
    BY <1>3
  <2>2. cursors[k].date \in Int
    BY <2>1 DEF Cursors
  <2> QED BY <1>3, <2>2
<1>5. \A d \in Dates : ActiveServices(a, d) # {} /\ d < date + 1 => d < date
  <2> TAKE d \in Dates
  <2>1. d \in Int
    BY <1>1
  <2> QED BY <2>1
<1>6. \A d \in Dates : ActiveServices(a, d) # {} /\ First(a, start) <= d /\ d < date + 1 =>
        \E k \in 1 .. Len(cursors) : cursors[k].date = d
  BY <1>3, <1>5
<1> QED BY <1>2, <1>3, <1>4, <1>6 DEF Merges

\* A date with service gets a cursor.
LEMMA MergeOpens ==
  ASSUME NEW f, NEW a, NEW start, StartsIn(f, a, start), NEW date \in Dates, NEW cursors, NEW table,
         Merges(a, start, date, cursors, table), date <= LastCandidate(start),
         NEW c, c.date = date, c.active = ActiveServices(a, date), c.range = Span(a, start, date),
         c.index = 0, c.previousRow = [t \in Trips |-> 0],
         NEW e \in Cursors, Advances(a, start, c, e)
  PROVE  Merges(a, start, date + 1, Append(cursors, e), table)
<1> DEFINE longer == Append(cursors, e)
           n == Len(cursors)
<1>1. LastCandidate(start) \in Int /\ (\A d \in Dates : d \in Int) /\ start \in Int
      /\ IsTimetable(a.connections)
  BY SearchDates, AnchorsIncrease, CompiledBounds DEF StartsIn
<1>2. table = <<>>
  BY <1>1 DEF Merges
<1>3. /\ cursors \in Seq(Cursors) /\ IsTable(a, start, table)
      /\ \A k \in 1 .. n : IsCursor(a, start, cursors[k], table) /\ cursors[k].date < date
      /\ \A j, k \in 1 .. n : cursors[j].date = cursors[k].date => j = k
      /\ \A d \in Dates : ActiveServices(a, d) # {} /\ First(a, start) <= d /\ d < date =>
           \E k \in 1 .. n : cursors[k].date = d
  BY DEF Merges
<1>4. /\ longer \in Seq(Cursors) /\ Len(longer) = n + 1 /\ n \in Nat
      /\ \A k \in 1 .. n : longer[k] = cursors[k]
      /\ longer[n + 1] = e
  BY <1>3
<1>5. (\A k \in 1 .. n + 1 : k \in 1 .. n \/ k = n + 1) /\ (\A k \in 1 .. n : k \in 1 .. n + 1)
      /\ n + 1 \in 1 .. n + 1
  BY <1>4
<1>6. IsCursor(a, start, e, table) /\ e.date = date
  <2>1. e.date = date
    BY DEF Advances
  <2>2. c.date \in Dates /\ c.active = ActiveServices(a, c.date) /\ c.range = Span(a, start, c.date)
    OBVIOUS
  <2>3. IsCursor(a, start, e, <<>>)
    BY <1>1, <2>2, OpenCursor
  <2> QED BY <1>2, <2>1, <2>3
<1>7. \A k \in 1 .. n : cursors[k].date \in Int
  <2> TAKE k \in 1 .. n
  <2>1. cursors[k] \in Cursors
    BY <1>3
  <2> QED BY <2>1 DEF Cursors
<1> HIDE DEF longer, n
<1>8. ASSUME NEW k \in 1 .. n + 1
      PROVE  IsCursor(a, start, longer[k], table) /\ longer[k].date < date + 1
  <2>1. CASE k \in 1 .. n
    <3>1. longer[k].date < date /\ longer[k].date \in Int /\ IsCursor(a, start, longer[k], table)
      BY <1>3, <1>4, <1>7, <2>1
    <3> QED BY <1>1, <3>1
  <2>2. CASE k = n + 1
    BY <1>1, <1>4, <1>6, <2>2
  <2> QED BY <1>5, <2>1, <2>2
<1>9. ASSUME NEW j \in 1 .. n + 1, NEW k \in 1 .. n + 1, longer[j].date = longer[k].date
      PROVE  j = k
  <2>1. CASE j \in 1 .. n /\ k \in 1 .. n
    BY <1>3, <1>4, <1>9, <2>1
  <2>2. CASE j = n + 1 /\ k \in 1 .. n
    <3>1. cursors[k].date = date /\ cursors[k].date < date /\ date \in Int
      BY <1>1, <1>3, <1>4, <1>6, <1>9, <2>2
    <3> QED BY <3>1
  <2>3. CASE j \in 1 .. n /\ k = n + 1
    <3>1. cursors[j].date = date /\ cursors[j].date < date /\ date \in Int
      BY <1>1, <1>3, <1>4, <1>6, <1>9, <2>3
    <3> QED BY <3>1
  <2>4. CASE j = n + 1 /\ k = n + 1
    BY <2>4
  <2> QED BY <1>5, <2>1, <2>2, <2>3, <2>4
<1>10. ASSUME NEW d \in Dates, ActiveServices(a, d) # {}, First(a, start) <= d, d < date + 1
       PROVE  \E k \in 1 .. n + 1 : longer[k].date = d
  <2>1. CASE d = date
    BY <1>4, <1>5, <1>6, <2>1
  <2>2. CASE d # date
    <3>1. d < date
      BY <1>1, <1>10, <2>2
    <3>2. PICK k \in 1 .. n : cursors[k].date = d
      BY <1>3, <1>10, <3>1
    <3> QED BY <1>4, <1>5, <3>2
  <2> QED BY <2>1, <2>2
<1> QED BY <1>2, <1>3, <1>4, <1>8, <1>9, <1>10 DEF Merges, longer

\* The least candidate becomes a row.
LEMMA MergeTakes ==
  ASSUME NEW f, NEW a, NEW start, StartsIn(f, a, start), NEW date, NEW cursors, NEW table,
         Merges(a, start, date, cursors, table), date > LastCandidate(start),
         NEW k \in 1 .. Len(cursors), cursors[k].candidate # 0,
         \A j \in 1 .. Len(cursors) : j # k /\ cursors[j].candidate # 0 =>
           Anchor[cursors[k].date] + a.connections[cursors[k].candidate].departure
             <= Anchor[cursors[j].date] + a.connections[cursors[j].candidate].departure,
         NEW longer, Extends(a, start, cursors[k], table, longer),
         NEW b, b.date = cursors[k].date, b.active = cursors[k].active, b.range = cursors[k].range,
         b.index = cursors[k].index,
         \A t \in Trips :
           b.previousRow[t] = IF t = a.connections[cursors[k].candidate].trip
                              THEN Len(table) + 1 ELSE cursors[k].previousRow[t],
         NEW e \in Cursors, Advances(a, start, b, e)
  PROVE  Merges(a, start, date, [cursors EXCEPT ![k] = e], longer)
<1> DEFINE c == cursors[k]
           after == [cursors EXCEPT ![k] = e]
           n == Len(cursors)
<1>1. start \in Int /\ IsTimetable(a.connections)
  BY CompiledBounds DEF StartsIn
<1>2. /\ cursors \in Seq(Cursors) /\ IsTable(a, start, table)
      /\ \A j \in 1 .. n : IsCursor(a, start, cursors[j], table) /\ cursors[j].date < date
      /\ \A i, j \in 1 .. n : cursors[i].date = cursors[j].date => i = j
      /\ \A d \in Dates : ActiveServices(a, d) # {} /\ First(a, start) <= d /\ d < date =>
           \E j \in 1 .. n : cursors[j].date = d
  BY DEF Merges
<1>3. /\ after \in Seq(Cursors) /\ Len(after) = n
      /\ after[k] = e /\ \A j \in 1 .. n : j # k => after[j] = cursors[j]
  BY <1>2
<1>4. IsTable(a, start, longer)
  BY <1>1, <1>2, LongerIsTable
<1>5. IsCursor(a, start, e, longer)
  <2>1. IsCursor(a, start, c, table) /\ c.candidate # 0
    BY <1>2
  <2> HIDE DEF c
  <2>2. Extends(a, start, c, table, longer)
    BY DEF c
  <2>3. /\ b.date = c.date /\ b.active = c.active /\ b.range = c.range /\ b.index = c.index
        /\ \A t \in Trips : b.previousRow[t] = IF t = a.connections[c.candidate].trip
                                               THEN Len(table) + 1 ELSE c.previousRow[t]
    BY DEF c
  <2> QED BY <1>1, <1>2, <2>1, <2>2, <2>3, MergeCursor
<1>6. e.date = c.date
  BY DEF Advances
<1> HIDE DEF after, n
<1>7. ASSUME NEW j \in 1 .. n, j # k
      PROVE  IsCursor(a, start, cursors[j], longer)
  <2>1. IsCursor(a, start, c, table) /\ c.candidate # 0 /\ IsCursor(a, start, cursors[j], table)
    BY <1>2 DEF n
  <2>2. cursors[j].date # c.date
    BY <1>2, <1>7 DEF n
  <2>3. cursors[j].candidate # 0 =>
          Anchor[c.date] + a.connections[c.candidate].departure
             <= Anchor[cursors[j].date] + a.connections[cursors[j].candidate].departure
    BY <1>7 DEF n
  <2>4. Extends(a, start, c, table, longer)
    OBVIOUS
  <2> HIDE DEF c
  <2> QED BY <1>1, <1>2, <2>1, <2>2, <2>3, <2>4, OthersStay
<1>8. ASSUME NEW j \in 1 .. n
      PROVE  IsCursor(a, start, after[j], longer) /\ after[j].date = cursors[j].date
  <2>1. CASE j = k
    BY <1>3, <1>5, <1>6, <2>1
  <2>2. CASE j # k
    BY <1>3, <1>7, <2>2
  <2> QED BY <2>1, <2>2
<1>9. \A j \in 1 .. n : IsCursor(a, start, after[j], longer) /\ after[j].date < date
  BY <1>2, <1>8
<1>10. \A i, j \in 1 .. n : after[i].date = after[j].date => i = j
  BY <1>2, <1>8
<1>11. \A d \in Dates : ActiveServices(a, d) # {} /\ First(a, start) <= d /\ d < date =>
         \E j \in 1 .. n : after[j].date = d
  BY <1>2, <1>8
<1> QED BY <1>3, <1>4, <1>9, <1>10, <1>11 DEF Merges, after

\* The rows of a table are as many rides as there are rows.
LEMMA RidesCounted ==
  ASSUME NEW a, NEW start, NEW table, IsTable(a, start, table)
  PROVE  Cardinality({<<table[r].source, table[r].date>> : r \in DOMAIN table}) = Len(table)
<1> DEFINE n == Len(table)
           rides == {<<table[r].source, table[r].date>> : r \in DOMAIN table}
           g == [r \in 1 .. n |-> <<table[r].source, table[r].date>>]
<1>1. n \in Nat /\ DOMAIN table = 1 .. n
  BY TableFacts
<1>2. \A r, q \in 1 .. n : table[r].date = table[q].date /\ table[r].source = table[q].source => r = q
  BY DEF IsTable
<1>3. g \in [1 .. n -> rides]
  BY <1>1
<1>4. IsInjective(g)
  <2> HIDE DEF n
  <2> SUFFICES ASSUME NEW r \in 1 .. n, NEW q \in 1 .. n, g[r] = g[q] PROVE r = q
    BY DEF IsInjective
  <2>1. table[r].source = table[q].source /\ table[r].date = table[q].date
    OBVIOUS
  <2> QED BY <1>2, <2>1
<1>5. \A ride \in rides : \E r \in 1 .. n : g[r] = ride
  BY <1>1
<1>6. g \in Bijection(1 .. n, rides)
  BY <1>3, <1>4, <1>5 DEF Bijection, Injection, Surjection
<1> HIDE DEF g, rides, n
<1>7. ExistsBijection(1 .. n, rides)
  BY <1>6 DEF ExistsBijection
<1>8. IsFiniteSet(1 .. n) /\ Cardinality(1 .. n) = n
  BY <1>1, FS_Interval
<1>9. Cardinality(rides) = n
  BY <1>7, <1>8, FS_Bijection
<1> QED BY <1>9 DEF rides, n

\* Once no cursor has a candidate the table holds the rides of its window.
LEMMA MergeEnds ==
  ASSUME NEW f, NEW a, NEW start, StartsIn(f, a, start), NEW date \in Int, NEW cursors, NEW table,
         Merges(a, start, date, cursors, table), date > LastCandidate(start),
         \A k \in 1 .. Len(cursors) : cursors[k].candidate = 0
  PROVE  Holds(a, f, start, table)
<1> DEFINE cs == a.connections
           n == Len(table)
           rides == {<<table[r].source, table[r].date>> : r \in DOMAIN table}
<1>1. /\ start \in Int /\ IsTimetable(cs) /\ IsCompiled(f, a)
      /\ a.firstDate \in Dates /\ a.lastDate \in Dates
      /\ \A t \in Trips : \A d \in Dates :
           Runs(f, f.service[t], d) => a.firstDate <= d /\ d <= a.lastDate
  BY CompiledBounds DEF StartsIn
<1>2. /\ IsTable(a, start, table)
      /\ \A k \in 1 .. Len(cursors) : IsCursor(a, start, cursors[k], table)
      /\ \A d \in Dates : ActiveServices(a, d) # {} /\ First(a, start) <= d /\ d < date =>
           \E k \in 1 .. Len(cursors) : cursors[k].date = d
  BY DEF Merges
<1>3. /\ n \in Nat /\ DOMAIN table = 1 .. n
      /\ \A r \in 1 .. n : /\ table[r].date \in Dates
                           /\ table[r].source \in Fits(a, start, table[r].date)
  BY <1>2, TableFacts
<1>4. /\ DOMAIN cs = 1 .. Len(cs)
      /\ \A i \in 1 .. Len(cs) : /\ cs[i].departure \in Nat /\ cs[i].arrival \in Nat
                                 /\ cs[i].departure <= cs[i].arrival
                                 /\ cs[i].trip \in Trips /\ cs[i].service \in Services
  BY <1>1 DEF IsTimetable
<1>5. \A i \in 1 .. Len(cs) : cs[i].service = f.service[cs[i].trip]
  <2> TAKE i \in 1 .. Len(cs)
  <2>1. cs = Connections(f) /\ HasTrips(f)
    BY <1>1 DEF IsCompiled
  <2>2. cs[i] \in AllConnections(f)
    BY <2>1, ConnectionsAreSorted
  <2> QED BY <2>1, <2>2, ConnectionType
<1>6. Day \in Nat \ {0} /\ \A d \in Dates : d \in Int /\ Anchor[d] \in Nat
  BY AnchorsIncrease, ScheduleAssumption
<1>7. \A d : ActiveServices(a, d) = {s \in Services : Runs(f, s, d) /\ d \in a.firstDate .. a.lastDate}
  BY <1>1, ActiveServicesRun
<1>8. \A d \in Dates : Fits(a, start, d) \subseteq 1 .. Len(cs)
  BY <1>1, SpanFacts
<1> HIDE DEF cs, n
<1>9. ASSUME NEW i \in 1 .. Len(cs), NEW d \in Dates
      PROVE  <<i, d>> \in Rides(a, f, start)
               <=> /\ Runs(f, cs[i].service, d) /\ Anchor[d] + cs[i].departure >= start
                   /\ Anchor[d] + cs[i].arrival <= start + Day
  BY <1>4 DEF Rides, cs
<1>10. ASSUME NEW r \in 1 .. n
       PROVE  <<table[r].source, table[r].date>> \in Rides(a, f, start)
  <2> DEFINE i == table[r].source  d == table[r].date
  <2>1. d \in Dates /\ i \in Fits(a, start, d) /\ i \in 1 .. Len(cs)
    BY <1>3, <1>8
  <2> HIDE DEF i, d
  <2>2. /\ cs[i].service \in ActiveServices(a, d)
        /\ cs[i].departure \in start - Anchor[d] .. start + Day - Anchor[d]
        /\ Anchor[d] + cs[i].arrival <= start + Day
    BY <2>1 DEF Fits, Live, Span, cs
  <2>3. Runs(f, cs[i].service, d)
    BY <1>7, <2>2
  <2>4. Anchor[d] + cs[i].departure >= start
    BY <1>1, <1>4, <1>6, <2>1, <2>2
  <2> QED BY <1>9, <2>1, <2>2, <2>3, <2>4 DEF i, d
<1>11. rides \subseteq Rides(a, f, start)
  BY <1>3, <1>10
<1>12. ASSUME NEW i \in 1 .. Len(cs), NEW d \in Dates, <<i, d>> \in Rides(a, f, start),
              <<i, d>> \notin rides
       PROVE  Hidden(a, d, start)
  <2>1. /\ Runs(f, cs[i].service, d) /\ Anchor[d] + cs[i].departure >= start
        /\ Anchor[d] + cs[i].arrival <= start + Day
    BY <1>9, <1>12
  <2>2. /\ cs[i].departure \in Nat /\ cs[i].arrival \in Nat /\ cs[i].departure <= cs[i].arrival
        /\ Anchor[d] \in Nat /\ d \in Int
    BY <1>4, <1>6
  <2>3. a.firstDate <= d /\ d <= a.lastDate /\ a.firstDate \in Int /\ a.lastDate \in Int
    BY <1>1, <1>4, <1>5, <1>6, <2>1
  <2>4. cs[i].service \in ActiveServices(a, d)
    BY <1>4, <1>7, <2>1, <2>2, <2>3
  <2>5. cs[i].departure \in start - Anchor[d] .. start + Day - Anchor[d]
    BY <1>1, <1>6, <2>1, <2>2
  <2>6. i \in Fits(a, start, d)
    BY <1>4, <2>1, <2>4, <2>5 DEF Fits, Live, Span, cs
  <2>7. d <= LastCandidate(start) /\ LastCandidate(start) \in Int /\ First(a, start) \in Int
    <3>1. Anchor[d] <= start + Day
      BY <1>1, <1>6, <2>1, <2>2
    <3> QED BY <3>1, SearchDates
  <2>8. d < date
    BY <2>2, <2>7
  <2>9. ASSUME First(a, start) <= d PROVE FALSE
    <3>1. PICK k \in 1 .. Len(cursors) : cursors[k].date = d
      BY <1>2, <2>4, <2>8, <2>9
    <3>2. IsCursor(a, start, cursors[k], table) /\ cursors[k].candidate = 0
      BY <1>2
    <3>3. PICK r \in 1 .. n : table[r].date = d /\ table[r].source = i
      BY <2>6, <3>1, <3>2 DEF IsCursor, Behind, n
    <3>4. <<table[r].source, table[r].date>> \in rides
      BY <1>3
    <3> QED BY <1>12, <3>3, <3>4
  <2>10. d < First(a, start)
    BY <2>2, <2>7, <2>9
  <2> QED BY <2>1, <2>10, EarlierIsHidden DEF cs
<1>13. ASSUME NEW ride \in Rides(a, f, start) \ rides
       PROVE  Hidden(a, ride[2], start)
  <2>1. ride \in (DOMAIN cs) \X Dates
    BY <1>13 DEF Rides, cs
  <2> DEFINE i == ride[1]  d == ride[2]
  <2>2. ride = <<i, d>> /\ i \in 1 .. Len(cs) /\ d \in Dates
    BY <1>4, <2>1
  <2> HIDE DEF i, d, rides
  <2>3. <<i, d>> \in Rides(a, f, start) /\ <<i, d>> \notin rides
    BY <2>2
  <2>4. Hidden(a, d, start)
    BY <1>12, <2>2, <2>3
  <2> QED BY <2>4 DEF d
<1>14. Cardinality(rides) = Len(table)
  BY <1>2, RidesCounted
<1>15. \A r \in DOMAIN table :
         /\ table[r].departure = Anchor[table[r].date] + cs[table[r].source].departure - start
         /\ table[r].arrival = Anchor[table[r].date] + cs[table[r].source].arrival - start
         /\ r > 1 => table[r - 1].departure <= table[r].departure
         /\ NextRows(cs, table, r) = IF table[r].continuation = 0 THEN {} ELSE {table[r].continuation}
  BY <1>2, <1>3 DEF IsTable, cs, n
<1> HIDE DEF rides
<1>16. \A ride \in Rides(a, f, start) \ rides : Hidden(a, ride[2], start)
  BY <1>13
<1> QED BY <1>11, <1>14, <1>15, <1>16, Zenon DEF Holds, rides, cs

-------------------------------------------------------------------------------
(* What is loaded, and the caches.                                         *)

\* The schedules are those of the feeds loaded so far, and the feeds are parsed.
LoadedAre(fs, ss) ==
  /\ Len(fs) \in Nat /\ DOMAIN fs = 1 .. Len(fs)
  /\ \A i \in 1 .. Len(fs) : /\ IsParsed(fs[i]) /\ fs[i].info \in FeedInfos
                             /\ fs[i].attributions \in Attributions
  /\ \E n \in Nat : n <= Len(fs) /\ ss = [o \in 1 .. n |-> compileScheduledArtifact(fs[o])]

\* A later sequence of schedules has the earlier one's.
Grown(ss, tt) == \A o \in DOMAIN ss : o \in DOMAIN tt /\ tt[o] = ss[o]

\* ArtifactId
Id(fs, o) == Min({p \in DOMAIN fs : fs[p] = fs[o]})

\* A table is what a search for an object and a start is to be given.
IsAnswer(fs, ss, o, start, table) ==
  /\ o \in DOMAIN ss /\ ss[o] # Rejected /\ start \in Int
  /\ IsTable(ss[o], start, table) /\ Holds(ss[o], fs[o], start, table)

\* The schedules that are loaded.
LEMMA LoadedFacts ==
  ASSUME NEW fs, NEW ss, LoadedAre(fs, ss)
  PROVE  /\ Len(ss) \in Nat /\ DOMAIN ss = 1 .. Len(ss) /\ Len(ss) <= Len(fs)
         /\ \A o \in DOMAIN ss : o \in Nat /\ o \in DOMAIN fs /\ ss[o] = compileScheduledArtifact(fs[o])
         /\ \A o \in DOMAIN ss : ss[o] # Rejected =>
              /\ IsParsed(fs[o]) /\ fs[o].info \in FeedInfos /\ fs[o].attributions \in Attributions
              /\ IsCompiled(fs[o], ss[o])
<1>1. PICK n \in Nat : n <= Len(fs) /\ ss = [o \in 1 .. n |-> compileScheduledArtifact(fs[o])]
  BY DEF LoadedAre
<1>2. /\ Len(fs) \in Nat /\ DOMAIN fs = 1 .. Len(fs)
      /\ \A i \in 1 .. Len(fs) : /\ IsParsed(fs[i]) /\ fs[i].info \in FeedInfos
                                 /\ fs[i].attributions \in Attributions
  BY DEF LoadedAre
<1>3. DOMAIN ss = 1 .. n /\ \A o \in 1 .. n : ss[o] = compileScheduledArtifact(fs[o])
  BY <1>1
<1>4. Len(ss) = n
  BY <1>3, LenProperties, <1>1
<1>5. \A o \in 1 .. n : o \in Nat /\ o \in 1 .. Len(fs)
  BY <1>1, <1>2
<1>6. \A o \in 1 .. n : ss[o] # Rejected =>
              /\ IsParsed(fs[o]) /\ fs[o].info \in FeedInfos /\ fs[o].attributions \in Attributions
              /\ IsCompiled(fs[o], ss[o])
  <2> TAKE o \in 1 .. n
  <2> HAVE ss[o] # Rejected
  <2>1. IsParsed(fs[o]) /\ compileScheduledArtifact(fs[o]) # Rejected
    BY <1>2, <1>3, <1>5
  <2>2. IsCompiled(fs[o], compileScheduledArtifact(fs[o]))
    BY <2>1, CompiledIs
  <2> QED BY <1>2, <1>3, <1>5, <2>2
<1> QED BY <1>1, <1>2, <1>3, <1>4, <1>5, <1>6

\* One more schedule is loaded.
LEMMA LoadedGrows ==
  ASSUME NEW fs, NEW ss, LoadedAre(fs, ss), Len(ss) < Len(fs)
  PROVE  LET tt == Append(ss, compileScheduledArtifact(fs[Len(ss) + 1]))
         IN  LoadedAre(fs, tt) /\ Grown(ss, tt)
<1> DEFINE g(o) == compileScheduledArtifact(fs[o])
<1>1. PICK n \in Nat : n <= Len(fs) /\ ss = [o \in 1 .. n |-> g(o)]
  BY DEF LoadedAre
<1>2. Len(fs) \in Nat /\ Len(ss) \in Nat /\ DOMAIN ss = 1 .. n /\ DOMAIN ss = 1 .. Len(ss)
  BY <1>1, LoadedFacts DEF LoadedAre
<1>3. Len(ss) = n
  <2>1. \A m \in Nat : 1 .. m = 1 .. n => m = n
    <3> TAKE m \in Nat
    <3> HAVE 1 .. m = 1 .. n
    <3>1. m > n => m \in 1 .. m /\ m \notin 1 .. n
      BY <1>1
    <3>2. m < n => n \in 1 .. n /\ n \notin 1 .. m
      BY <1>1
    <3> QED BY <1>1, <3>1, <3>2
  <2> QED BY <1>2, <2>1
<1> DEFINE T == {g(o) : o \in 1 .. Len(fs)}
           tt == Append(ss, g(n + 1))
<1>4. n + 1 \in Nat /\ n + 1 <= Len(fs) /\ n + 1 \in 1 .. Len(fs)
  BY <1>1, <1>2, <1>3
<1>5. ss \in Seq(T) /\ g(n + 1) \in T
  <2>1. g(n + 1) \in T
    BY <1>4
  <2>2. \A o \in 1 .. n : g(o) \in T
    BY <1>1, <1>2
  <2> HIDE DEF T, g
  <2>3. ss \in [1 .. n -> T]
    BY <1>1, <2>2
  <2> QED BY <2>1, <2>3
<1>6. /\ tt \in Seq(T) /\ Len(tt) = n + 1
      /\ \A o \in 1 .. n : tt[o] = ss[o]
      /\ tt[n + 1] = g(n + 1)
  <2> HIDE DEF T, g
  <2> QED BY <1>3, <1>5, AppendProperties
<1>7. DOMAIN tt = 1 .. n + 1 /\ \A o \in 1 .. n + 1 : o \in 1 .. n \/ o = n + 1
  <2> HIDE DEF T, g, tt
  <2>1. DOMAIN tt = 1 .. n + 1
    BY <1>6, LenProperties
  <2> QED BY <1>1, <2>1
<1>8. \A o \in 1 .. n + 1 : tt[o] = g(o)
  <2> HIDE DEF T, g, tt
  <2>1. \A o \in 1 .. n : tt[o] = g(o)
    BY <1>1, <1>6
  <2> QED BY <1>6, <1>7, <2>1
<1>9. tt = [o \in 1 .. n + 1 |-> g(o)]
  <2>1. tt = [o \in DOMAIN tt |-> tt[o]]
    <3> HIDE DEF T, g, tt
    <3>1. tt \in [1 .. n + 1 -> T]
      BY <1>6
    <3> QED BY <3>1
  <2> HIDE DEF T, g, tt
  <2> QED BY <1>7, <1>8, <2>1
<1>10. LoadedAre(fs, tt)
  BY <1>4, <1>9 DEF LoadedAre
<1>11. Grown(ss, tt)
  <2> HIDE DEF T, g, tt
  <2>1. \A o \in 1 .. n : o \in 1 .. n + 1
    BY <1>1
  <2> QED BY <1>2, <1>6, <1>7, <2>1 DEF Grown
<1> QED BY <1>3, <1>10, <1>11

\* Artifacts with one id are of one feed.
LEMMA SameArtifact ==
  ASSUME NEW fs, NEW ss, LoadedAre(fs, ss), NEW o \in DOMAIN ss
  PROVE  /\ Id(fs, o) \in Nat /\ Id(fs, o) \in DOMAIN fs /\ fs[Id(fs, o)] = fs[o]
         /\ \A p \in DOMAIN ss : Id(fs, o) = Id(fs, p) => fs[o] = fs[p] /\ ss[o] = ss[p]
<1>1. /\ Len(fs) \in Nat /\ DOMAIN fs = 1 .. Len(fs)
      /\ \A p \in DOMAIN ss : p \in DOMAIN fs /\ ss[p] = compileScheduledArtifact(fs[p])
  BY LoadedFacts DEF LoadedAre
<1>2. ASSUME NEW p \in DOMAIN fs
      PROVE  Id(fs, p) \in Nat /\ Id(fs, p) \in DOMAIN fs /\ fs[Id(fs, p)] = fs[p]
  <2> DEFINE S == {q \in DOMAIN fs : fs[q] = fs[p]}
  <2>1. S \in SUBSET Int /\ S # {} /\ \A i \in S : 1 <= i
    BY <1>1, <1>2
  <2>2. Min(S) \in S
    <3> HIDE DEF S
    <3> QED BY <2>1, MinOf
  <2>3. Id(fs, p) = Min(S)
    BY DEF Id
  <2> HIDE DEF S
  <2>4. Id(fs, p) \in S
    BY <2>2, <2>3
  <2> QED BY <1>1, <2>4 DEF S
<1>3. \A p \in DOMAIN ss : Id(fs, p) \in Nat /\ Id(fs, p) \in DOMAIN fs /\ fs[Id(fs, p)] = fs[p]
  BY <1>1, <1>2
<1>4. \A p \in DOMAIN ss : Id(fs, o) = Id(fs, p) => fs[o] = fs[p]
  <2> TAKE p \in DOMAIN ss
  <2> HAVE Id(fs, o) = Id(fs, p)
  <2>1. fs[Id(fs, o)] = fs[o] /\ fs[Id(fs, p)] = fs[p]
    BY <1>3
  <2> QED BY <2>1
<1>5. \A p \in DOMAIN ss : fs[o] = fs[p] => ss[o] = ss[p]
  BY <1>1
<1> QED BY <1>3, <1>4, <1>5

\* An answer stays one when another schedule is loaded.
LEMMA AnswersStay ==
  ASSUME NEW fs, NEW ss, NEW tt, Grown(ss, tt), NEW o, NEW start, NEW table,
         IsAnswer(fs, ss, o, start, table)
  PROVE  IsAnswer(fs, tt, o, start, table)
<1>1. /\ o \in DOMAIN ss /\ ss[o] # Rejected /\ start \in Int
      /\ IsTable(ss[o], start, table) /\ Holds(ss[o], fs[o], start, table)
  BY DEF IsAnswer
<1>2. o \in DOMAIN tt /\ tt[o] = ss[o]
  BY <1>1 DEF Grown
<1> QED BY <1>1, <1>2 DEF IsAnswer

\* What the caches hold.
Entries == [object : Nat, start : Int, rows : Seq(RowTypes)]

\* The rows of the tables of a set, one by one.
RowsIn(S) == {p \in S \X (1 .. MaxRows) : p[2] <= Len(p[1].rows)}

\* The entries of a sequence are finitely many.
LEMMA EntriesFinite ==
  ASSUME NEW S, NEW s \in Seq(S)
  PROVE  /\ IsFiniteSet(ToSet(s)) /\ ToSet(s) \subseteq S
         /\ \A e : e \in ToSet(s) <=> \E i \in 1 .. Len(s) : s[i] = e
<1>1. Len(s) \in Nat /\ DOMAIN s = 1 .. Len(s) /\ s \in [1 .. Len(s) -> S]
  OBVIOUS
<1>2. \A e : e \in ToSet(s) <=> \E i \in 1 .. Len(s) : s[i] = e
  BY <1>1 DEF ToSet
<1>3. ToSet(s) \subseteq S
  BY <1>1, <1>2
<1>4. s \in Surjection(1 .. Len(s), ToSet(s))
  <2>1. s \in [1 .. Len(s) -> ToSet(s)]
    BY <1>1 DEF ToSet
  <2>2. \A e \in ToSet(s) : \E i \in 1 .. Len(s) : s[i] = e
    BY <1>2
  <2> QED BY <2>1, <2>2 DEF Surjection
<1>5. IsFiniteSet(1 .. Len(s))
  BY <1>1, FS_Interval
<1>6. IsFiniteSet(ToSet(s))
  BY <1>4, <1>5, FS_Surjection
<1> QED BY <1>2, <1>3, <1>6

\* The rows of one entry are as many as it has.
LEMMA RowsOfOne ==
  ASSUME NEW e, NEW n \in 0 .. MaxRows, NEW R, R = {p \in {e} \X (1 .. MaxRows) : p[2] <= n}
  PROVE  IsFiniteSet(R) /\ Cardinality(R) = n
<1> DEFINE g == [i \in 1 .. n |-> <<e, i>>]
<1>1. MaxRows \in Nat
  BY WindowAssumption
<1>2. g \in [1 .. n -> R]
  BY <1>1
<1>3. IsInjective(g)
  BY DEF IsInjective
<1>4. \A p \in R : \E i \in 1 .. n : g[i] = p
  <2> TAKE p \in R
  <2>1. p = <<e, p[2]>> /\ p[2] \in 1 .. n
    BY <1>1
  <2> QED BY <2>1
<1>5. g \in Bijection(1 .. n, R)
  BY <1>2, <1>3, <1>4 DEF Bijection, Injection, Surjection
<1>6. ExistsBijection(1 .. n, R)
  BY <1>5 DEF ExistsBijection
<1>7. IsFiniteSet(1 .. n) /\ Cardinality(1 .. n) = n
  BY <1>1, FS_Interval
<1> QED BY <1>6, <1>7, FS_Bijection

\* A table that joins others brings its rows.
LEMMA RowsAreAdded ==
  ASSUME NEW S, IsFiniteSet(S)
  PROVE  /\ IsFiniteSet(RowsIn(S)) /\ Cardinality(RowsIn(S)) \in Nat
         /\ \A e : e \notin S /\ Len(e.rows) \in 0 .. MaxRows =>
              Cardinality(RowsIn(S \cup {e})) = Cardinality(RowsIn(S)) + Len(e.rows)
<1>1. IsFiniteSet(1 .. MaxRows)
  BY WindowAssumption, FS_Interval
<1>2. IsFiniteSet(S \X (1 .. MaxRows))
  BY <1>1, FS_Product
<1>3. RowsIn(S) \subseteq S \X (1 .. MaxRows)
  BY DEF RowsIn
<1>4. IsFiniteSet(RowsIn(S)) /\ Cardinality(RowsIn(S)) \in Nat
  BY <1>2, <1>3, FS_Subset, FS_CardinalityType
<1>5. ASSUME NEW e, e \notin S, Len(e.rows) \in 0 .. MaxRows
      PROVE  Cardinality(RowsIn(S \cup {e})) = Cardinality(RowsIn(S)) + Len(e.rows)
  <2> DEFINE R == {p \in {e} \X (1 .. MaxRows) : p[2] <= Len(e.rows)}
  <2>1. R = RowsIn({e})
    BY DEF RowsIn
  <2>2. IsFiniteSet(R) /\ Cardinality(R) = Len(e.rows)
    <3> HIDE DEF R
    <3>1. R = {p \in {e} \X (1 .. MaxRows) : p[2] <= Len(e.rows)}
      BY DEF R
    <3> QED BY <1>5, <3>1, RowsOfOne
  <2>3. RowsIn(S \cup {e}) = RowsIn(S) \cup R
    BY <2>1 DEF RowsIn
  <2>4. RowsIn(S) \cap R = {}
    BY <1>5, <2>1 DEF RowsIn
  <2> HIDE DEF R
  <2>5. Cardinality(RowsIn(S) \cap R) = 0
    BY <2>4, FS_EmptySet
  <2>6. Cardinality(RowsIn(S) \cup R)
          = Cardinality(RowsIn(S)) + Cardinality(R) - Cardinality(RowsIn(S) \cap R)
    <3>1. IsFiniteSet(RowsIn(S)) /\ IsFiniteSet(R)
      BY <1>4, <2>2
    <3> HIDE DEF R
    <3> QED BY <3>1, FS_Union, Zenon
  <2>7. Len(e.rows) \in Nat /\ Cardinality(RowsIn(S)) \in Nat
    <3>1. MaxRows \in Nat /\ Len(e.rows) \in 0 .. MaxRows
      BY <1>5, WindowAssumption
    <3>2. \A k \in 0 .. MaxRows : k \in Nat
      BY <3>1
    <3> QED BY <1>4, <3>1, <3>2, Zenon
  <2>8. Cardinality(RowsIn(S \cup {e})) = Cardinality(RowsIn(S) \cup R)
    BY <2>3, Zenon
  <2> QED BY <2>2, <2>5, <2>6, <2>7, <2>8
<1> QED BY <1>4, <1>5

\* The counter of rows of a cache.
LEMMA RowsOfCache ==
  ASSUME NEW S, NEW cache \in Seq(S)
  PROVE  /\ RowsOf(cache) \in Nat
         /\ \A e \in S : e \notin ToSet(cache) /\ Len(e.rows) \in 0 .. MaxRows =>
              RowsOf(Append(cache, e)) = RowsOf(cache) + Len(e.rows)
<1>1. IsFiniteSet(ToSet(cache))
  BY EntriesFinite
<1>2. \A c : RowsOf(c) = Cardinality(RowsIn(ToSet(c)))
  BY DEF RowsOf, RowsIn
<1>3. ASSUME NEW e \in S PROVE ToSet(Append(cache, e)) = ToSet(cache) \cup {e}
  <2>1. /\ Append(cache, e) \in Seq(S) /\ Len(cache) \in Nat
        /\ Len(Append(cache, e)) = Len(cache) + 1
        /\ \A i \in 1 .. Len(cache) : Append(cache, e)[i] = cache[i]
        /\ Append(cache, e)[Len(cache) + 1] = e
    OBVIOUS
  <2>2. /\ \A d : d \in ToSet(cache) <=> \E i \in 1 .. Len(cache) : cache[i] = d
        /\ \A d : d \in ToSet(Append(cache, e))
                    <=> \E i \in 1 .. Len(Append(cache, e)) : Append(cache, e)[i] = d
    BY <2>1, EntriesFinite
  <2>3. \A i \in 1 .. Len(cache) + 1 : i \in 1 .. Len(cache) \/ i = Len(cache) + 1
    BY <2>1
  <2>4. \A i \in 1 .. Len(cache) : i \in 1 .. Len(cache) + 1
    BY <2>1
  <2>5. Len(cache) + 1 \in 1 .. Len(cache) + 1
    BY <2>1
  <2>6. \A d : d \in ToSet(Append(cache, e)) => d \in ToSet(cache) \/ d = e
    BY <2>1, <2>2, <2>3
  <2>7. \A d : d \in ToSet(cache) => d \in ToSet(Append(cache, e))
    BY <2>1, <2>2, <2>4
  <2>8. e \in ToSet(Append(cache, e))
    BY <2>1, <2>2, <2>5
  <2> QED BY <2>6, <2>7, <2>8
<1>4. RowsOf(cache) \in Nat
  BY <1>1, <1>2, RowsAreAdded
<1>5. ASSUME NEW e \in S, e \notin ToSet(cache), Len(e.rows) \in 0 .. MaxRows
      PROVE  RowsOf(Append(cache, e)) = RowsOf(cache) + Len(e.rows)
  <2>1. Cardinality(RowsIn(ToSet(cache) \cup {e})) = Cardinality(RowsIn(ToSet(cache))) + Len(e.rows)
    BY <1>1, <1>5, RowsAreAdded
  <2> QED BY <1>2, <1>3, <2>1
<1> QED BY <1>4, <1>5

\* Room
Roomy(cache, table) == Len(cache) < MaxTables /\ RowsOf(cache) + Len(table) <= MaxRows

\* Kept
KeptOf(cache, table) ==
  SubSeq(cache,
         1 + Min({n \in 0 .. Len(cache) :
                    n = Len(cache) \/ Roomy(SubSeq(cache, n + 1, Len(cache)), table)}),
         Len(cache))

\* The tables kept are the newest, and there is room for one more.
LEMMA KeptHolds ==
  ASSUME NEW S, NEW cache \in Seq(S), NEW table, Len(table) \in 0 .. MaxRows
  PROVE  LET kept == KeptOf(cache, table)
         IN  /\ kept \in Seq(S) /\ Len(kept) < MaxTables /\ RowsOf(kept) + Len(table) <= MaxRows
             /\ \E n \in 0 .. Len(cache) :
                  /\ Len(kept) = Len(cache) - n
                  /\ \A i \in 1 .. Len(kept) : n + i \in 1 .. Len(cache) /\ kept[i] = cache[n + i]
<1> DEFINE N == {n \in 0 .. Len(cache) :
                    n = Len(cache) \/ Roomy(SubSeq(cache, n + 1, Len(cache)), table)}
           m == Min(N)
           kept == SubSeq(cache, 1 + m, Len(cache))
<1>1. Len(cache) \in Nat /\ MaxTables \in Nat \ {0} /\ MaxRows \in Nat \ {0} /\ Len(table) \in Nat
      /\ Len(table) <= MaxRows
  BY WindowAssumption
<1>2. N \in SUBSET Int /\ N # {} /\ \A n \in N : 0 <= n
  <2>1. Len(cache) \in N
    BY <1>1
  <2> QED BY <2>1
<1>3. m \in N
  <2> HIDE DEF N
  <2> QED BY <1>2, MinOf
<1>4. m \in 0 .. Len(cache) /\ (m = Len(cache) \/ Roomy(SubSeq(cache, m + 1, Len(cache)), table))
  BY <1>3
<1>5. kept = KeptOf(cache, table)
  BY DEF KeptOf
<1> HIDE DEF m
<1>6. /\ kept \in Seq(S) /\ Len(kept) = Len(cache) - m
      /\ \A i \in 1 .. Len(kept) : m + i \in 1 .. Len(cache) /\ kept[i] = cache[m + i]
  <2>1. m \in Nat /\ m <= Len(cache) /\ 1 + m \in 1 .. Len(cache) + 1
    BY <1>1, <1>4
  <2>2. /\ kept \in Seq(S)
        /\ Len(kept) = IF 1 + m <= Len(cache) THEN Len(cache) - (1 + m) + 1 ELSE 0
        /\ \A i \in 1 .. Len(cache) - (1 + m) + 1 : kept[i] = cache[(1 + m) + i - 1]
    BY <1>1, <2>1, SubSeqProperties
  <2>3. Len(kept) = Len(cache) - m
    BY <1>1, <2>1, <2>2
  <2>4. \A i \in 1 .. Len(cache) - m : m + i \in 1 .. Len(cache) /\ (1 + m) + i - 1 = m + i
    BY <1>1, <2>1
  <2>5. Len(cache) - (1 + m) + 1 = Len(cache) - m
    BY <1>1, <2>1
  <2> HIDE DEF kept
  <2> QED BY <2>2, <2>3, <2>4, <2>5
<1>7. Len(kept) < MaxTables /\ RowsOf(kept) + Len(table) <= MaxRows
  <2>1. CASE m = Len(cache)
    <3>1. Len(kept) = 0
      BY <1>1, <1>6, <2>1
    <3>2. ToSet(kept) = {}
      <4> HIDE DEF kept
      <4>1. \A e : e \in ToSet(kept) <=> \E i \in 1 .. Len(kept) : kept[i] = e
        BY <1>6, EntriesFinite
      <4> QED BY <3>1, <4>1
    <3>3. RowsOf(kept) = 0
      <4> HIDE DEF kept
      <4>1. {p \in ToSet(kept) \X (1 .. MaxRows) : p[2] <= Len(p[1].rows)} = {}
        BY <3>2
      <4>2. Cardinality({}) = 0
        BY FS_EmptySet
      <4> QED BY <4>1, <4>2, Zenon DEF RowsOf
    <3> HIDE DEF kept
    <3> QED BY <1>1, <3>1, <3>3
  <2>2. CASE m # Len(cache)
    <3>1. m + 1 = 1 + m
      BY <1>1, <1>4
    <3>2. Roomy(kept, table)
      BY <1>4, <2>2, <3>1
    <3> QED BY <3>2 DEF Roomy
  <2> QED BY <2>1, <2>2
<1> HIDE DEF kept
<1>8. \E n \in 0 .. Len(cache) :
         /\ Len(kept) = Len(cache) - n
         /\ \A i \in 1 .. Len(kept) : n + i \in 1 .. Len(cache) /\ kept[i] = cache[n + i]
  BY <1>4, <1>6
<1> QED BY <1>5, <1>6, <1>7, <1>8

\* What WindowsOfKept makes of a sequence: its elements at some places.
Thinned(s, stay) ==
  LET Place(n) == CHOOSE i \in stay : Cardinality({h \in stay : h < i}) = n - 1
  IN  [n \in 1 .. Cardinality(stay) |-> s[Place(n)]]

\* Some places in their order.
Earlier(stay) == {p \in stay \X stay : p[1] < p[2]}

\* An element for every rank.
RanksTaken(S, R) ==
  \A k \in 0 .. Cardinality(S) - 1 : \E x \in S : Cardinality(Before(R, S, x)) = k

\* Every rank in an order of a finite set is taken.
LEMMA RankTaken ==
  ASSUME NEW S, IsFiniteSet(S), NEW R, Orders(R, S)
  PROVE  RanksTaken(S, R)
BY Ranked DEF RanksTaken

\* Each of some places has a number of places before it.
LEMMA PlacesCount ==
  ASSUME NEW stay, stay \subseteq Nat, IsFiniteSet(stay)
  PROVE  /\ Cardinality(stay) \in Nat
         /\ \A k \in 0 .. Cardinality(stay) - 1 :
              \E i \in stay : Cardinality({h \in stay : h < i}) = k
<1>1. Orders(Earlier(stay), stay)
  <2>1. \A x, y \in stay : <<x, y>> \in Earlier(stay) <=> x < y
    BY DEF Earlier
  <2> QED BY <2>1 DEF Orders
<1>2. \A i \in stay : Before(Earlier(stay), stay, i) = {h \in stay : h < i}
  BY DEF Before, Earlier
<1>5. \A k \in 0 .. Cardinality(stay) - 1 :
        \E i \in stay : Cardinality(Before(Earlier(stay), stay, i)) = k
  <2>1. RanksTaken(stay, Earlier(stay))
    BY <1>1, RankTaken
  <2> QED BY <2>1 DEF RanksTaken
<1>4. \A k \in 0 .. Cardinality(stay) - 1 :
        \E i \in stay : Cardinality({h \in stay : h < i}) = k
  <2> TAKE k \in 0 .. Cardinality(stay) - 1
  <2>1. PICK i \in stay : Cardinality(Before(Earlier(stay), stay, i)) = k
    BY <1>5
  <2> QED BY <1>2, <2>1
<1> QED BY <1>4, FS_CardinalityType

\* The elements at some places are a sequence of them, each once.
LEMMA ThinnedHolds ==
  ASSUME NEW S, NEW s \in Seq(S), NEW stay \in SUBSET (1 .. Len(s))
  PROVE  /\ Thinned(s, stay) \in Seq(S) /\ Len(Thinned(s, stay)) <= Len(s)
         /\ \A n \in 1 .. Len(Thinned(s, stay)) : \E i \in stay : Thinned(s, stay)[n] = s[i]
         /\ \A n, m \in 1 .. Len(Thinned(s, stay)) : n # m =>
              \E i, j \in stay : i # j /\ Thinned(s, stay)[n] = s[i] /\ Thinned(s, stay)[m] = s[j]
<1> DEFINE Place(n) == CHOOSE i \in stay : Cardinality({h \in stay : h < i}) = n - 1
           c == Cardinality(stay)
           t == Thinned(s, stay)
<1>1. Len(s) \in Nat /\ IsFiniteSet(1 .. Len(s)) /\ Cardinality(1 .. Len(s)) = Len(s)
  BY FS_Interval
<1>2. IsFiniteSet(stay) /\ c <= Len(s)
  BY <1>1, FS_Subset
<1>3. \A i \in stay : i \in Nat /\ i \in 1 .. Len(s)
  BY <1>1
<1>6. /\ c \in Nat
      /\ \A k \in 0 .. c - 1 : \E i \in stay : Cardinality({h \in stay : h < i}) = k
  BY <1>2, <1>3, PlacesCount
<1>7. ASSUME NEW n \in 1 .. c
      PROVE  Place(n) \in stay /\ Cardinality({h \in stay : h < Place(n)}) = n - 1
  <2>1. n - 1 \in 0 .. c - 1
    BY <1>6
  <2>2. PICK i \in stay : Cardinality({h \in stay : h < i}) = n - 1
    BY <1>6, <2>1
  <2> QED BY <2>2
<1>10. t = [n \in 1 .. c |-> s[Place(n)]]
  BY DEF Thinned
<1> HIDE DEF Place, c, t
<1>8. \A n \in 1 .. c : s[Place(n)] \in S
  BY <1>3, <1>7, ElementOfSeq
<1>9. t \in Seq(S) /\ Len(t) = c /\ \A n \in 1 .. c : t[n] = s[Place(n)]
  <2>1. t \in [1 .. c -> S] /\ \A n \in 1 .. c : t[n] = s[Place(n)]
    BY <1>8, <1>10
  <2>2. t \in Seq(S)
    BY <1>6, <2>1
  <2> QED BY <1>6, <2>1, <2>2
<1>11. \A n \in 1 .. c : \E i \in stay : t[n] = s[i]
  BY <1>7, <1>9
<1>12. ASSUME NEW n \in 1 .. c, NEW m \in 1 .. c, n # m
       PROVE  \E i, j \in stay : i # j /\ t[n] = s[i] /\ t[m] = s[j]
  <2>1. Place(n) \in stay /\ Place(m) \in stay
        /\ Cardinality({h \in stay : h < Place(n)}) = n - 1
        /\ Cardinality({h \in stay : h < Place(m)}) = m - 1
    BY <1>7
  <2>2. n - 1 # m - 1
    BY <1>6, <1>12
  <2>3. Place(n) # Place(m)
    BY <2>1, <2>2
  <2> QED BY <1>9, <2>1, <2>3
<1>13. \A n, m \in 1 .. c : n # m => \E i, j \in stay : i # j /\ t[n] = s[i] /\ t[m] = s[j]
  BY <1>12, Zenon
<1>14. Len(t) <= Len(s)
  BY <1>2, <1>9
<1>15. t \in Seq(S) /\ Len(t) = c
  BY <1>9
<1>16. \A n \in 1 .. Len(t) : \E i \in stay : t[n] = s[i]
  BY <1>11, <1>15
<1>17. \A n, m \in 1 .. Len(t) : n # m => \E i, j \in stay : i # j /\ t[n] = s[i] /\ t[m] = s[j]
  BY <1>13, <1>15
<1> QED BY <1>14, <1>15, <1>16, <1>17 DEF t

\* A sequence has the elements of another, in another order.
Rearranges(t, s) ==
  /\ Len(t) = Len(s)
  /\ \E p \in [1 .. Len(s) -> 1 .. Len(s)] :
        /\ \A i \in 1 .. Len(s) : t[i] = s[p[i]]
        /\ \A i, j \in 1 .. Len(s) : p[i] = p[j] => i = j
        /\ \A i \in 1 .. Len(s) : \E j \in 1 .. Len(s) : p[j] = i

\* Touching an entry rearranges the cache.
LEMMA TouchedHolds ==
  ASSUME NEW S, NEW s \in Seq(S), NEW e
  PROVE  Touched(s, e) \in Seq(S) /\ Rearranges(Touched(s, e), s)
<1> DEFINE n == Len(s)
<1>1. n \in Nat /\ DOMAIN s = 1 .. n /\ \A i \in 1 .. n : s[i] \in S
  BY ElementOfSeq
<1>2. CASE ~Contains(s, e)
  <2>1. Touched(s, e) = s
    BY <1>2 DEF Touched
  <2> DEFINE p == [i \in 1 .. n |-> i]
  <2>2. /\ p \in [1 .. n -> 1 .. n]
        /\ \A i \in 1 .. n : s[i] = s[p[i]]
        /\ \A i, j \in 1 .. n : p[i] = p[j] => i = j
        /\ \A i \in 1 .. n : \E j \in 1 .. n : p[j] = i
    OBVIOUS
  <2> HIDE DEF p
  <2>3. Rearranges(s, s)
    BY <2>2, Zenon DEF Rearranges, n
  <2> QED BY <2>1, <2>3
<1>3. CASE Contains(s, e)
  <2> DEFINE k == CHOOSE i \in DOMAIN s : s[i] = e
             t == Append(RemoveAt(s, k), e)
             p == [i \in 1 .. n |-> IF i = n THEN k ELSE IF i < k THEN i ELSE i + 1]
  <2>1. k \in 1 .. n /\ s[k] = e
    <3>1. \E i \in DOMAIN s : s[i] = e
      BY <1>1, <1>3 DEF Contains
    <3> QED BY <1>1, <3>1
  <2>2. Touched(s, e) = t
    BY <1>3 DEF Touched
  <2> HIDE DEF k, n
  <2> DEFINE u == SubSeq(s, 1, k - 1)  v == SubSeq(s, k + 1, n)
  <2>3. k \in Nat /\ 1 <= k /\ k <= n
    BY <1>1, <2>1
  <2>4. u \in Seq(S) /\ Len(u) = k - 1 /\ \A i \in 1 .. k - 1 : u[i] = s[i]
    <3>1. 1 \in 1 .. n + 1 /\ k - 1 \in 1 - 1 .. n
      BY <1>1, <2>3
    <3>2. /\ u \in Seq(S) /\ Len(u) = IF 1 <= k - 1 THEN (k - 1) - 1 + 1 ELSE 0
          /\ \A i \in 1 .. (k - 1) - 1 + 1 : u[i] = s[1 + i - 1]
      BY <3>1, SubSeqProperties DEF n
    <3>3. (k - 1) - 1 + 1 = k - 1 /\ Len(u) = k - 1
      BY <2>3, <3>2
    <3>4. \A i \in 1 .. k - 1 : 1 + i - 1 = i
      BY <2>3
    <3> HIDE DEF u
    <3> QED BY <3>2, <3>3, <3>4
  <2>5. v \in Seq(S) /\ Len(v) = n - k /\ \A i \in 1 .. n - k : v[i] = s[k + i]
    <3>1. k + 1 \in 1 .. n + 1 /\ n \in (k + 1) - 1 .. n
      BY <1>1, <2>3
    <3>2. /\ v \in Seq(S) /\ Len(v) = IF k + 1 <= n THEN n - (k + 1) + 1 ELSE 0
          /\ \A i \in 1 .. n - (k + 1) + 1 : v[i] = s[(k + 1) + i - 1]
      BY <3>1, SubSeqProperties DEF n
    <3>3. n - (k + 1) + 1 = n - k /\ Len(v) = n - k
      BY <1>1, <2>3, <3>2
    <3>4. \A i \in 1 .. n - k : (k + 1) + i - 1 = k + i
      BY <1>1, <2>3
    <3> HIDE DEF v
    <3> QED BY <3>2, <3>3, <3>4
  <2>6. RemoveAt(s, k) = u \o v
    BY DEF RemoveAt, n
  <2> HIDE DEF u, v
  <2>7. /\ u \o v \in Seq(S) /\ Len(u \o v) = n - 1
        /\ \A i \in 1 .. n - 1 : (u \o v)[i] = IF i < k THEN s[i] ELSE s[i + 1]
    <3>1. /\ u \o v \in Seq(S) /\ Len(u \o v) = (k - 1) + (n - k)
          /\ \A i \in 1 .. (k - 1) + (n - k) :
               (u \o v)[i] = IF i <= k - 1 THEN u[i] ELSE v[i - (k - 1)]
      <4>1. /\ u \o v \in Seq(S) /\ Len(u \o v) = Len(u) + Len(v)
            /\ \A i \in 1 .. Len(u) + Len(v) :
                 (u \o v)[i] = IF i <= Len(u) THEN u[i] ELSE v[i - Len(u)]
        BY <2>4, <2>5, ConcatProperties, Zenon
      <4> QED BY <2>4, <2>5, <4>1, Zenon
    <3>2. (k - 1) + (n - k) = n - 1
      BY <1>1, <2>3
    <3>3. ASSUME NEW i \in 1 .. n - 1
          PROVE  (u \o v)[i] = IF i < k THEN s[i] ELSE s[i + 1]
      <4>1. CASE i < k
        <5>1. i <= k - 1 /\ i \in 1 .. k - 1
          BY <1>1, <2>3, <4>1
        <5> QED BY <2>4, <3>1, <3>2, <3>3, <4>1, <5>1
      <4>2. CASE ~(i < k)
        <5>1. ~(i <= k - 1) /\ i - (k - 1) \in 1 .. n - k /\ k + (i - (k - 1)) = i + 1
          BY <1>1, <2>3, <4>2
        <5> QED BY <2>5, <3>1, <3>2, <3>3, <4>2, <5>1
      <4> QED BY <4>1, <4>2
    <3> QED BY <3>1, <3>2, <3>3
  <2>8. e \in S
    BY <1>1, <2>1
  <2>9. /\ t \in Seq(S) /\ Len(t) = (n - 1) + 1
        /\ \A i \in 1 .. n - 1 : t[i] = (u \o v)[i]
        /\ t[(n - 1) + 1] = e
    BY <2>6, <2>7, <2>8, AppendProperties
  <2>10. (n - 1) + 1 = n /\ \A i \in 1 .. n : i = n \/ i \in 1 .. n - 1
    BY <1>1
  <2> HIDE DEF t
  <2>11. p \in [1 .. n -> 1 .. n]
    <3>1. ASSUME NEW i \in 1 .. n
          PROVE  (IF i = n THEN k ELSE IF i < k THEN i ELSE i + 1) \in 1 .. n
      BY <1>1, <2>3
    <3> QED BY <3>1
  <2>12. \A i \in 1 .. n : p[i] = IF i = n THEN k ELSE IF i < k THEN i ELSE i + 1
    OBVIOUS
  <2> HIDE DEF p
  <2>13. \A i \in 1 .. n : t[i] = s[p[i]]
    <3> TAKE i \in 1 .. n
    <3>1. CASE i = n
      BY <2>1, <2>9, <2>10, <2>12, <3>1
    <3>2. CASE i \in 1 .. n - 1
      <4>1. i # n
        BY <1>1, <3>2
      <4> QED BY <2>7, <2>9, <2>12, <3>2, <4>1
    <3> QED BY <2>10, <3>1, <3>2
  <2>14. \A i, j \in 1 .. n : p[i] = p[j] => i = j
    BY <1>1, <2>3, <2>12
  <2>15. \A i \in 1 .. n : \E j \in 1 .. n : p[j] = i
    <3> TAKE i \in 1 .. n
    <3>1. CASE i = k
      <4>1. n \in 1 .. n
        BY <1>1, <2>3
      <4> QED BY <2>12, <3>1, <4>1
    <3>2. CASE i < k
      <4>1. i # n
        BY <1>1, <2>3, <3>2
      <4> QED BY <2>12, <3>2, <4>1
    <3>3. CASE i > k
      <4>1. i - 1 \in 1 .. n /\ i - 1 # n /\ ~(i - 1 < k) /\ (i - 1) + 1 = i
        BY <1>1, <2>3, <3>3
      <4> QED BY <2>12, <4>1
    <3> QED BY <1>1, <2>3, <3>1, <3>2, <3>3
  <2> QED BY <2>2, <2>9, <2>10, <2>11, <2>13, <2>14, <2>15 DEF Rearranges, n
<1> QED BY <1>2, <1>3

\* What a rearrangement keeps.
LEMMA RearrangedHolds ==
  ASSUME NEW S, NEW s \in Seq(S), NEW t \in Seq(S), Rearranges(t, s)
  PROVE  /\ Len(t) = Len(s) /\ ToSet(t) = ToSet(s)
         /\ \A i \in 1 .. Len(t) : \E j \in 1 .. Len(s) : t[i] = s[j]
         /\ \A i \in 1 .. Len(s) : \E j \in 1 .. Len(t) : t[j] = s[i]
         /\ \A i, j \in 1 .. Len(t) : i # j =>
              \E h, k \in 1 .. Len(s) : h # k /\ t[i] = s[h] /\ t[j] = s[k]
<1>1. Len(t) = Len(s)
  BY DEF Rearranges
<1>2. PICK p \in [1 .. Len(s) -> 1 .. Len(s)] :
        /\ \A i \in 1 .. Len(s) : t[i] = s[p[i]]
        /\ \A i, j \in 1 .. Len(s) : p[i] = p[j] => i = j
        /\ \A i \in 1 .. Len(s) : \E j \in 1 .. Len(s) : p[j] = i
  BY DEF Rearranges
<1>3. \A i \in 1 .. Len(s) : p[i] \in 1 .. Len(s)
  BY <1>2
<1>4. \A i \in 1 .. Len(t) : \E j \in 1 .. Len(s) : t[i] = s[j]
  BY <1>1, <1>2, <1>3
<1>5. \A i \in 1 .. Len(s) : \E j \in 1 .. Len(t) : t[j] = s[i]
  BY <1>1, <1>2
<1>6. \A i, j \in 1 .. Len(t) : i # j =>
        \E h, k \in 1 .. Len(s) : h # k /\ t[i] = s[h] /\ t[j] = s[k]
  <2> SUFFICES ASSUME NEW i \in 1 .. Len(s), NEW j \in 1 .. Len(s), i # j
               PROVE  \E h, k \in 1 .. Len(s) : h # k /\ t[i] = s[h] /\ t[j] = s[k]
    BY <1>1
  <2>1. p[i] # p[j] /\ t[i] = s[p[i]] /\ t[j] = s[p[j]]
    BY <1>2
  <2> QED BY <1>3, <2>1
<1>7. /\ \A e : e \in ToSet(t) <=> \E i \in 1 .. Len(t) : t[i] = e
      /\ \A e : e \in ToSet(s) <=> \E i \in 1 .. Len(s) : s[i] = e
  BY EntriesFinite
<1>8. ToSet(t) = ToSet(s)
  BY <1>4, <1>5, <1>7
<1> QED BY <1>1, <1>4, <1>5, <1>6, <1>8

-------------------------------------------------------------------------------
(* The steps of a merge.                                                   *)

\* advanceScheduledConnectionDateCursor moves a cursor on as it should.
LEMMA AdvancedHolds ==
  ASSUME NEW c \in Cursors, IsTimetable(schedules[call.object].connections), call.start \in Int,
         c.date \in Dates, c.active = ActiveServices(schedules[call.object], c.date),
         c.range = Span(schedules[call.object], call.start, c.date), c.index \in Nat
  PROVE  /\ Advanced(c) \in Cursors
         /\ Advances(schedules[call.object], call.start, c, Advanced(c))
<1> DEFINE a == schedules[call.object]
           active == {i \in c.range : i > c.index /\ Source(i).service \in c.active}
           fits == {i \in active : Arrives(c, i) <= call.start + Day}
           next == IF fits = {} THEN 0 ELSE Min(fits)
           passed == {i \in active : next = 0 \/ i < next}
           prev == [t \in Trips |-> IF \E i \in passed : Source(i).trip = t
                                    THEN 0 ELSE c.previousRow[t]]
           live == {i \in Live(a, call.start, c.date) : i > c.index}
           good == {i \in Fits(a, call.start, c.date) : i > c.index}
           m == Max(c.range \cup {0})
           e == Advanced(c)
<1>1. /\ Span(a, call.start, c.date) \subseteq 1 .. Len(a.connections)
      /\ \A i \in Span(a, call.start, c.date) : i \in Nat \ {0}
      /\ Len(a.connections) \in Nat
  BY SpanFacts DEF IsTimetable
<1>2. active = live
  BY DEF Live, Source
<1>3. fits = good
  BY <1>2 DEF Fits, Live, Arrives, Source
<1>4. /\ c.previousRow \in [Trips -> Int] /\ c.active \in SUBSET Services /\ c.range \in SUBSET Int
      /\ c.index \in Int /\ c.date \in Int
  BY DEF Cursors
<1>5. active \subseteq c.range /\ \A i \in c.range : i \in Nat \ {0} /\ i <= Len(a.connections)
  BY <1>1
<1>6. m \in Int
  <2> DEFINE R == c.range \cup {0}
  <2>1. R \in SUBSET Int /\ R # {} /\ \A i \in R : i <= Len(a.connections)
    BY <1>1, <1>5
  <2> HIDE DEF R
  <2>2. Max(R) \in R
    <3> HIDE DEF a
    <3>1. Len(a.connections) \in Int
      BY <1>1
    <3>2. PICK hi \in Int : \A i \in R : i <= hi
      BY <2>1, <3>1, Zenon
    <3> QED BY <2>1, <3>2, MaxOf
  <2>3. m = Max(R)
    BY DEF R
  <2> HIDE DEF m
  <2> QED BY <2>1, <2>2, <2>3
<1>7. e = [c EXCEPT !.candidate = next, !.index = IF next = 0 THEN m ELSE next, !.previousRow = prev]
  BY DEF Advanced
<1> HIDE DEF active, fits, live, good, m, a, e
<1>8. /\ good = {} => next = 0
      /\ good # {} => next \in good /\ \A i \in good : next <= i
  <2>1. CASE good = {}
    BY <1>3, <2>1
  <2>2. CASE good # {}
    <3>1. good \in SUBSET Int /\ \A i \in good : 1 <= i
      BY <1>3, <1>5 DEF fits
    <3>2. Min(good) \in good /\ \A i \in good : Min(good) <= i
      BY <2>2, <3>1, MinOf
    <3> QED BY <1>3, <2>2, <3>2
  <2> QED BY <2>1, <2>2
<1>9. next \in Int /\ (next = 0 \/ next \in good)
  <2>1. \A i \in good : i \in Int
    BY <1>3, <1>5 DEF fits
  <2> QED BY <1>8, <2>1
<1>10. prev \in [Trips -> Int]
  BY <1>4
<1>11. /\ e \in Cursors
       /\ e.date = c.date /\ e.active = c.active /\ e.range = c.range
       /\ e.candidate = next /\ e.previousRow = prev
       /\ next # 0 => e.index = next
  <2> HIDE DEF next, prev
  <2> QED BY <1>4, <1>6, <1>7, <1>9, <1>10 DEF Cursors
<1>12. ASSUME NEW t \in Trips
       PROVE  e.previousRow[t] = IF \E i \in live : Behind(e, i) /\ a.connections[i].trip = t
                                 THEN 0 ELSE c.previousRow[t]
  <2>1. \A i : i \in passed <=> i \in live /\ Behind(e, i)
    BY <1>2, <1>11 DEF Behind
  <2>2. \A i : Source(i).trip = a.connections[i].trip
    BY DEF Source, a
  <2> QED BY <1>11, <1>12, <2>1, <2>2
<1>13. e.previousRow \in [Trips -> Int]
  BY <1>10, <1>11
<1>14. e.candidate # 0 => e.index = e.candidate
  BY <1>11
<1>15. /\ good = {} => e.candidate = 0
       /\ good # {} => e.candidate \in good /\ \A i \in good : e.candidate <= i
  BY <1>8, <1>11
<1> HIDE DEF next, prev
<1>16. Advances(a, call.start, c, e)
  BY <1>11, <1>12, <1>13, <1>14, <1>15 DEF Advances, live, good
<1> QED BY <1>11, <1>16 DEF a, e

\* Of two lists of which one comes first, its first number is no larger.
LEMMA FirstCompares ==
  ASSUME NEW x, NEW y, DOMAIN x \subseteq Nat \ {0}, x[1] \in Int, y[1] \in Int, Precedes(x, y)
  PROVE  x[1] <= y[1]
<1>1. PICK i \in DOMAIN x : x[i] < y[i] /\ \A j \in 1 .. i - 1 : x[j] = y[j]
  BY DEF Precedes
<1>2. CASE i = 1
  BY <1>1, <1>2
<1>3. CASE i # 1
  <2>1. 1 \in 1 .. i - 1
    BY <1>1, <1>3
  <2> QED BY <1>1, <2>1
<1> QED BY <1>2, <1>3

\* compareHeapEntries looks at departures first.
LEMMA HeapKeyHolds ==
  ASSUME NEW k
  PROVE  /\ HeapKey(k)[1] = Departs(streams[k], streams[k].candidate)
         /\ DOMAIN HeapKey(k) \subseteq Nat \ {0}
<1> DEFINE c == streams[k]
           u == <<Departs(c, c.candidate)>>
           v == SortKey(Source(c.candidate))
           w == <<Arrives(c, c.candidate), k>>
           S == {Departs(c, c.candidate), Source(c.candidate).departure, Source(c.candidate).arrival,
                 Source(c.candidate).service, Source(c.candidate).trip, Source(c.candidate).visit,
                 Arrives(c, c.candidate), k}
<1>1. /\ u \in Seq(S) /\ Len(u) = 1 /\ u[1] = Departs(c, c.candidate)
      /\ v \in Seq(S) /\ Len(v) = 5 /\ w \in Seq(S) /\ Len(w) = 2
  BY DEF SortKey
<1>2. HeapKey(k) = (u \o v) \o w
  BY DEF HeapKey
<1> HIDE DEF u, v, w, S
<1>3. u \o v \in Seq(S) /\ Len(u \o v) = 6 /\ (u \o v)[1] = u[1]
  <2>1. /\ u \o v \in Seq(S) /\ Len(u \o v) = Len(u) + Len(v)
        /\ \A i \in 1 .. Len(u) + Len(v) : (u \o v)[i] = IF i <= Len(u) THEN u[i] ELSE v[i - Len(u)]
    BY <1>1, ConcatProperties, Zenon
  <2>2. 1 \in 1 .. Len(u) + Len(v) /\ 1 <= Len(u) /\ Len(u) + Len(v) = 6
    BY <1>1
  <2> QED BY <2>1, <2>2, Zenon
<1>4. (u \o v) \o w \in Seq(S) /\ Len((u \o v) \o w) = 8 /\ ((u \o v) \o w)[1] = (u \o v)[1]
  <2> DEFINE x == u \o v
  <2>1. x \in Seq(S) /\ Len(x) = 6
    BY <1>3
  <2> HIDE DEF x
  <2>2. x \o w \in Seq(S) /\ Len(x \o w) = 8 /\ (x \o w)[1] = x[1]
    <3>1. /\ x \o w \in Seq(S) /\ Len(x \o w) = Len(x) + Len(w)
          /\ \A i \in 1 .. Len(x) + Len(w) : (x \o w)[i] = IF i <= Len(x) THEN x[i] ELSE w[i - Len(x)]
      BY <1>1, <2>1, ConcatProperties, Zenon
    <3>2. 1 \in 1 .. Len(x) + Len(w) /\ 1 <= Len(x) /\ Len(x) + Len(w) = 8
      BY <1>1, <2>1
    <3> QED BY <3>1, <3>2, Zenon
  <2> QED BY <2>2 DEF x
<1>5. DOMAIN ((u \o v) \o w) = 1 .. 8
  BY <1>4, LenProperties
<1> QED BY <1>1, <1>2, <1>3, <1>4, <1>5

\* The row MergeRow adds extends the table.
LEMMA RowJoins ==
  ASSUME NEW a, IsTimetable(a.connections), NEW start \in Int,
         NEW table, IsTable(a, start, table), NEW c, IsCursor(a, start, c, table), c.candidate # 0,
         NEW row, row = [source |-> c.candidate, date |-> c.date,
                         departure |-> Anchor[c.date] + a.connections[c.candidate].departure - start,
                         arrival |-> Anchor[c.date] + a.connections[c.candidate].arrival - start,
                         continuation |-> 0],
         NEW p, p = c.previousRow[a.connections[c.candidate].trip]
  PROVE  Extends(a, start, c, table,
                 Append(IF p = 0 THEN table
                        ELSE [table EXCEPT ![p].continuation = Len(table) + 1], row))
<1> DEFINE n == Len(table)
           u == IF p = 0 THEN table ELSE [table EXCEPT ![p].continuation = n + 1]
           longer == Append(u, row)
<1>1. n \in Nat /\ DOMAIN table = 1 .. n /\ table \in Seq(RowTypes)
  BY TableFacts
<1>2. p # 0 => p \in 1 .. n
  BY RowsFollow
<1>3. row \in RowTypes
  <2>1. c.candidate \in Fits(a, start, c.date) /\ c.date \in Dates
    BY DEF IsCursor
  <2>2. c.candidate \in 1 .. Len(a.connections)
    BY <2>1, SpanFacts
  <2>3. /\ a.connections[c.candidate].departure \in Nat /\ a.connections[c.candidate].arrival \in Nat
        /\ Len(a.connections) \in Nat
    BY <2>2 DEF IsTimetable
  <2>4. Anchor[c.date] \in Nat /\ c.date \in Int /\ c.candidate \in Int
    BY <2>1, <2>2, <2>3, AnchorsIncrease
  <2>5. /\ Anchor[c.date] + a.connections[c.candidate].departure - start \in Int
        /\ Anchor[c.date] + a.connections[c.candidate].arrival - start \in Int
    <3>1. \A x, y \in Int : x + y - start \in Int
      OBVIOUS
    <3>2. /\ a.connections[c.candidate].departure \in Int /\ a.connections[c.candidate].arrival \in Int
          /\ Anchor[c.date] \in Int
      BY <2>3, <2>4
    <3> QED BY <3>1, <3>2, Zenon
  <2> QED BY <2>4, <2>5 DEF RowTypes
<1>4. ASSUME NEW r \in 1 .. n PROVE table[r] \in RowTypes
  BY <1>1
<1>5. /\ u \in Seq(RowTypes) /\ Len(u) = n
      /\ \A r \in 1 .. n :
           /\ u[r].source = table[r].source /\ u[r].date = table[r].date
           /\ u[r].departure = table[r].departure /\ u[r].arrival = table[r].arrival
           /\ u[r].continuation = IF r = p THEN n + 1 ELSE table[r].continuation
  <2>1. CASE p = 0
    <3>1. u = table
      BY <2>1
    <3>2. \A r \in 1 .. n : r # p
      BY <2>1
    <3> QED BY <1>1, <3>1, <3>2
  <2>2. CASE p # 0
    <3> DEFINE e == [table[p] EXCEPT !.continuation = n + 1]
    <3>1. u = [table EXCEPT ![p] = e]
      BY <2>2
    <3>2. e \in RowTypes /\ e.source = table[p].source /\ e.date = table[p].date
          /\ e.departure = table[p].departure /\ e.arrival = table[p].arrival
          /\ e.continuation = n + 1
      <4>1. table[p] \in RowTypes /\ n + 1 \in Int
        BY <1>1, <1>2, <1>4, <2>2
      <4> QED BY <4>1 DEF RowTypes
    <3> HIDE DEF e, u
    <3>3. u \in Seq(RowTypes) /\ Len(u) = n /\ \A r \in 1 .. n : u[r] = IF r = p THEN e ELSE table[r]
      <4>1. u \in [1 .. n -> RowTypes] /\ \A r \in 1 .. n : u[r] = IF r = p THEN e ELSE table[r]
        <5>1. table \in [1 .. n -> RowTypes] /\ p \in 1 .. n
          BY <1>1, <1>2, <2>2
        <5> HIDE DEF n
        <5> QED BY <3>1, <3>2, <5>1
      <4>2. u \in Seq(RowTypes)
        BY <1>1, <4>1
      <4>3. Len(u) = n
        BY <1>1, <4>1, <4>2, LenProperties
      <4> QED BY <4>1, <4>2, <4>3
    <3> QED BY <3>2, <3>3
  <2> QED BY <2>1, <2>2
<1> HIDE DEF u
<1>6. /\ longer \in Seq(RowTypes) /\ Len(longer) = n + 1
      /\ \A r \in 1 .. n : longer[r] = u[r]
      /\ longer[n + 1] = row
  BY <1>3, <1>5, AppendProperties
<1>7. /\ row.source = c.candidate /\ row.date = c.date /\ row.continuation = 0
      /\ row.departure = Anchor[c.date] + a.connections[c.candidate].departure - start
      /\ row.arrival = Anchor[c.date] + a.connections[c.candidate].arrival - start
  OBVIOUS
<1> HIDE DEF longer
<1>8. Extends(a, start, c, table, longer)
  BY <1>5, <1>6, <1>7 DEF Extends, n
<1> QED BY <1>8 DEF longer, u, n

-------------------------------------------------------------------------------
(* The window: the inductive invariant, part by part.                      *)

\* The services kept for an artifact and a date are those of the date.
ServicesAre(fs, ss, ids) ==
  \A e \in ids : \E o \in DOMAIN ss :
    ss[o] # Rejected /\ e.id = Id(fs, o) /\ e.services = ActiveServices(ss[o], e.date)

\* The tables kept, within their limits.
TablesAre(fs, ss, cache, count) ==
  /\ cache \in Seq(Entries)
  /\ \A e \in ToSet(cache) :
       IsAnswer(fs, ss, e.object, e.start, e.rows) /\ Len(e.rows) \in 0 .. MaxRows
  /\ \A i, j \in 1 .. Len(cache) :
       cache[i].object = cache[j].object /\ cache[i].start = cache[j].start => i = j
  /\ Len(cache) <= MaxTables
  /\ count = RowsOf(cache) /\ count <= MaxRows

WindowEntries == [key : [id : Int, start : Int, options : Options], object : Nat, table : Entries]

\* The windows kept are around tables that are kept.
WindowsAre(fs, tables, windows) ==
  /\ windows \in Seq(WindowEntries)
  /\ \A i, j \in 1 .. Len(windows) : windows[i].key = windows[j].key => i = j
  /\ \A e \in ToSet(windows) :
       /\ e.table \in tables /\ e.key.id = Id(fs, e.object)
       /\ e.table.object = e.object /\ e.table.start = e.key.start
  /\ Len(windows) <= MaxWindows

\* What a running call has done.
CallIs(fs, ss, tables, c, cursors, table) ==
  /\ c = NoCall => cursors = <<>> /\ table = <<>>
  /\ c # NoCall =>
       /\ c \in Calls /\ c.object \in DOMAIN ss /\ ss[c.object] # Rejected
       /\ StartsIn(fs[c.object], ss[c.object], c.start)
       /\ c.phase = "materialize" =>
            /\ Merges(ss[c.object], c.start, c.date, cursors, table)
            /\ \A e \in tables : ~(e.object = c.object /\ e.start = c.start)
       /\ c.phase = "wrap" =>
            /\ cursors = <<>> /\ IsAnswer(fs, ss, c.object, c.start, table)
            /\ Len(table) <= MaxRows =>
                 [object |-> c.object, start |-> c.start, rows |-> table] \in tables

\* The last window returned is an answer.
WindowIs(fs, ss, w) == w # NoWindow => IsAnswer(fs, ss, w.object, w.start, w.rows)

WindowInv ==
  /\ LoadedAre(feeds, schedules)
  /\ starts \subseteq Int
  /\ ServicesAre(feeds, schedules, serviceIds)
  /\ TablesAre(feeds, schedules, tableCache, cachedRows)
  /\ WindowsAre(feeds, ToSet(tableCache), windowCache)
  /\ CallIs(feeds, schedules, ToSet(tableCache), call, streams, rows)
  /\ WindowIs(feeds, schedules, window)

\* Nothing is loaded, kept or running at the start.
LEMMA WindowInitHolds == WindowInit => WindowInv
<1> SUFFICES ASSUME WindowInit PROVE WindowInv
  OBVIOUS
<1>1. PICK family \in Scenarios : \E s \in family : feeds = s.feeds /\ starts = s.starts /\ callsLeft = s.calls
  BY DEF WindowInit
<1>2. PICK s \in family : feeds = s.feeds /\ starts = s.starts
  BY <1>1
<1>3. /\ feeds \in Seq(ToSet(feeds)) /\ starts \subseteq Int
      /\ \A i \in DOMAIN feeds : /\ IsParsed(feeds[i]) /\ feeds[i].info \in FeedInfos
                                 /\ feeds[i].attributions \in Attributions
  BY <1>1, <1>2, WindowAssumption
<1>4. /\ schedules = <<>> /\ serviceIds = {} /\ tableCache = <<>> /\ cachedRows = 0
      /\ windowCache = <<>> /\ call = NoCall /\ streams = <<>> /\ rows = <<>> /\ window = NoWindow
  BY DEF WindowInit
<1>5. LoadedAre(feeds, schedules)
  <2>1. Len(feeds) \in Nat /\ DOMAIN feeds = 1 .. Len(feeds)
    BY <1>3
  <2>2. schedules = [o \in 1 .. 0 |-> compileScheduledArtifact(feeds[o])]
    BY <1>4
  <2>3. \E n \in Nat : n <= Len(feeds) /\ schedules = [o \in 1 .. n |-> compileScheduledArtifact(feeds[o])]
    <3>1. 0 \in Nat /\ 0 <= Len(feeds)
      BY <2>1
    <3> QED BY <2>2, <3>1
  <2> QED BY <1>3, <2>1, <2>3 DEF LoadedAre
<1>6. ToSet(tableCache) = {} /\ ToSet(windowCache) = {}
  BY <1>4 DEF ToSet
<1>7. RowsOf(tableCache) = 0
  <2>1. {p \in ToSet(tableCache) \X (1 .. MaxRows) : p[2] <= Len(p[1].rows)} = {}
    BY <1>6
  <2>2. Cardinality({}) = 0
    BY FS_EmptySet
  <2> QED BY <2>1, <2>2, Zenon DEF RowsOf
<1>8. {MaxTables, MaxWindows, MaxRows} \subseteq Nat \ {0}
  BY WindowAssumption
<1>9. TablesAre(feeds, schedules, tableCache, cachedRows)
  <2>1. tableCache \in Seq(Entries) /\ Len(tableCache) = 0 /\ 1 .. Len(tableCache) = {}
    BY <1>4
  <2> QED BY <1>4, <1>6, <1>7, <1>8, <2>1 DEF TablesAre
<1>10. WindowsAre(feeds, ToSet(tableCache), windowCache)
  <2>1. windowCache \in Seq(WindowEntries) /\ Len(windowCache) = 0 /\ 1 .. Len(windowCache) = {}
    BY <1>4
  <2> QED BY <1>6, <1>8, <2>1 DEF WindowsAre
<1>11. CallIs(feeds, schedules, ToSet(tableCache), call, streams, rows)
  BY <1>4 DEF CallIs
<1> QED BY <1>3, <1>4, <1>5, <1>9, <1>10, <1>11 DEF WindowInv, ServicesAre, WindowIs

-------------------------------------------------------------------------------
(* Every step keeps it.                                                    *)

\* Another schedule is loaded: what is kept is of those loaded before.
LEMMA ImportKeeps == WindowInv /\ Import => WindowInv'
<1> SUFFICES ASSUME WindowInv, Import PROVE WindowInv'
  OBVIOUS
<1> DEFINE tt == Append(schedules, compileScheduledArtifact(feeds[Len(schedules) + 1]))
<1>1. /\ call = NoCall /\ Len(schedules) < Len(feeds) /\ schedules' = tt
      /\ feeds' = feeds /\ starts' = starts /\ serviceIds' = serviceIds
      /\ tableCache' = tableCache /\ cachedRows' = cachedRows /\ windowCache' = windowCache
      /\ call' = call /\ streams' = streams /\ rows' = rows /\ window' = window
  BY DEF Import, cacheVars
<1>2. LoadedAre(feeds, tt) /\ Grown(schedules, tt)
  BY <1>1, LoadedGrows DEF WindowInv
<1> HIDE DEF tt
<1>3. ServicesAre(feeds, tt, serviceIds)
  <2>1. ServicesAre(feeds, schedules, serviceIds)
    BY DEF WindowInv
  <2>2. \A o \in DOMAIN schedules : o \in DOMAIN tt /\ tt[o] = schedules[o]
    BY <1>2 DEF Grown
  <2> QED BY <2>1, <2>2 DEF ServicesAre
<1>4. \A o, start, table : IsAnswer(feeds, schedules, o, start, table) => IsAnswer(feeds, tt, o, start, table)
  BY <1>2, AnswersStay
<1>5. TablesAre(feeds, tt, tableCache, cachedRows)
  <2>1. TablesAre(feeds, schedules, tableCache, cachedRows)
    BY DEF WindowInv
  <2> QED BY <1>4, <2>1 DEF TablesAre
<1>6. WindowsAre(feeds, ToSet(tableCache), windowCache)
  BY DEF WindowInv
<1>7. CallIs(feeds, tt, ToSet(tableCache), call, streams, rows)
  BY <1>1 DEF WindowInv, CallIs
<1>8. WindowIs(feeds, tt, window)
  BY <1>4 DEF WindowInv, WindowIs
<1>9. starts \subseteq Int
  BY DEF WindowInv
<1> QED BY <1>1, <1>2, <1>3, <1>5, <1>6, <1>7, <1>8, <1>9 DEF WindowInv

\* A call's deadline ends it.
LEMMA ExpireKeeps == WindowInv /\ Expire => WindowInv'
<1> SUFFICES ASSUME WindowInv, Expire PROVE WindowInv'
  OBVIOUS
<1>1. /\ schedules' = schedules /\ feeds' = feeds /\ starts' = starts /\ serviceIds' = serviceIds
      /\ tableCache' = tableCache /\ cachedRows' = cachedRows /\ windowCache' = windowCache
      /\ call' = NoCall /\ streams' = <<>> /\ rows' = <<>> /\ window' = window
  BY DEF Expire, cacheVars
<1>2. CallIs(feeds, schedules, ToSet(tableCache), NoCall, <<>>, <<>>)
  BY DEF CallIs
<1> QED BY <1>1, <1>2 DEF WindowInv

\* A start out of bounds is refused.
LEMMA OutOfBoundsKeeps ==
  ASSUME WindowInv, NEW o, NEW start, OutOfBounds(o, start)
  PROVE  WindowInv'
<1>1. /\ schedules' = schedules /\ feeds' = feeds /\ starts' = starts /\ serviceIds' = serviceIds
      /\ tableCache' = tableCache /\ cachedRows' = cachedRows /\ windowCache' = windowCache
      /\ call' = call /\ streams' = streams /\ rows' = rows /\ window' = NoWindow
  BY DEF OutOfBounds, cacheVars
<1>2. WindowIs(feeds, schedules, NoWindow)
  BY DEF WindowIs
<1> QED BY <1>1, <1>2 DEF WindowInv

\* Touching a table keeps what is said of the tables.
LEMMA TouchedTables ==
  ASSUME NEW fs, NEW ss, NEW cache, NEW count, TablesAre(fs, ss, cache, count), NEW e
  PROVE  TablesAre(fs, ss, Touched(cache, e), count) /\ ToSet(Touched(cache, e)) = ToSet(cache)
<1> DEFINE t == Touched(cache, e)
<1>1. /\ cache \in Seq(Entries)
      /\ \A d \in ToSet(cache) :
           IsAnswer(fs, ss, d.object, d.start, d.rows) /\ Len(d.rows) \in 0 .. MaxRows
      /\ \A i, j \in 1 .. Len(cache) :
           cache[i].object = cache[j].object /\ cache[i].start = cache[j].start => i = j
      /\ Len(cache) <= MaxTables
      /\ count = RowsOf(cache) /\ count <= MaxRows
  BY DEF TablesAre
<1>2. t \in Seq(Entries) /\ Rearranges(t, cache)
  BY <1>1, TouchedHolds
<1> HIDE DEF t
<1>3. /\ Len(t) = Len(cache) /\ ToSet(t) = ToSet(cache)
      /\ \A i, j \in 1 .. Len(t) : i # j =>
           \E h, k \in 1 .. Len(cache) : h # k /\ t[i] = cache[h] /\ t[j] = cache[k]
  BY <1>1, <1>2, RearrangedHolds
<1>4. RowsOf(t) = RowsOf(cache)
  BY <1>3 DEF RowsOf
<1>5. ASSUME NEW i \in 1 .. Len(t), NEW j \in 1 .. Len(t),
             t[i].object = t[j].object, t[i].start = t[j].start, i # j
      PROVE  FALSE
  <2>1. \E h, k \in 1 .. Len(cache) : h # k /\ t[i] = cache[h] /\ t[j] = cache[k]
    BY <1>3, <1>5
  <2> QED BY <1>1, <1>5, <2>1
<1>6. TablesAre(fs, ss, t, count)
  BY <1>1, <1>2, <1>3, <1>4, <1>5 DEF TablesAre
<1> QED BY <1>3, <1>6 DEF t

\* Touching a window keeps what is said of the windows.
LEMMA TouchedWindows ==
  ASSUME NEW fs, NEW tables, NEW windows, WindowsAre(fs, tables, windows), NEW e
  PROVE  WindowsAre(fs, tables, Touched(windows, e))
<1> DEFINE t == Touched(windows, e)
<1>1. /\ windows \in Seq(WindowEntries)
      /\ \A i, j \in 1 .. Len(windows) : windows[i].key = windows[j].key => i = j
      /\ \A d \in ToSet(windows) :
           /\ d.table \in tables /\ d.key.id = Id(fs, d.object)
           /\ d.table.object = d.object /\ d.table.start = d.key.start
      /\ Len(windows) <= MaxWindows
  BY DEF WindowsAre
<1>2. t \in Seq(WindowEntries) /\ Rearranges(t, windows)
  BY <1>1, TouchedHolds
<1> HIDE DEF t
<1>3. /\ Len(t) = Len(windows) /\ ToSet(t) = ToSet(windows)
      /\ \A i, j \in 1 .. Len(t) : i # j =>
           \E h, k \in 1 .. Len(windows) : h # k /\ t[i] = windows[h] /\ t[j] = windows[k]
  BY <1>1, <1>2, RearrangedHolds
<1>5. ASSUME NEW i \in 1 .. Len(t), NEW j \in 1 .. Len(t), t[i].key = t[j].key, i # j
      PROVE  FALSE
  <2>1. \E h, k \in 1 .. Len(windows) : h # k /\ t[i] = windows[h] /\ t[j] = windows[k]
    BY <1>3, <1>5
  <2> QED BY <1>1, <1>5, <2>1
<1>6. WindowsAre(fs, tables, t)
  BY <1>1, <1>2, <1>3, <1>5 DEF WindowsAre
<1> QED BY <1>6 DEF t

\* A search that begins may begin.
LEMMA BeginsHolds ==
  ASSUME WindowInv, NEW o \in DOMAIN schedules, NEW start \in starts, Begins(o, start)
  PROVE  /\ call = NoCall /\ schedules[o] # Rejected
         /\ StartsIn(feeds[o], schedules[o], start) /\ o \in Nat /\ start \in Int
         /\ streams = <<>> /\ rows = <<>>
<1>1. /\ call = NoCall /\ schedules[o] # Rejected
      /\ start \in schedules[o].earliest .. schedules[o].latest
  BY DEF Begins
<1>2. /\ o \in Nat /\ IsParsed(feeds[o]) /\ IsCompiled(feeds[o], schedules[o])
  BY <1>1, LoadedFacts DEF WindowInv
<1>3. start \in Int
  BY DEF WindowInv
<1>4. schedules[o].earliest \in Int /\ schedules[o].latest \in Int
  BY <1>2, CompiledBounds
<1>5. schedules[o].earliest <= start /\ start <= schedules[o].latest
  BY <1>1, <1>3, <1>4
<1>6. streams = <<>> /\ rows = <<>>
  BY <1>1 DEF WindowInv, CallIs
<1> QED BY <1>1, <1>2, <1>3, <1>5, <1>6 DEF StartsIn

\* A cached window is returned.
LEMMA HitWindowKeeps ==
  ASSUME WindowInv, NEW o \in DOMAIN schedules, NEW start \in starts, NEW options \in Options,
         HitWindow(o, start, options)
  PROVE  WindowInv'
<1>1. PICK e \in FoundWindow(o, start, options, FALSE) :
          /\ windowCache' = Touched(windowCache, e)
          /\ tableCache' = Touched(tableCache, e.table)
          /\ window' = [object |-> o, start |-> start, rows |-> e.table.rows]
  BY DEF HitWindow
<1>2. /\ schedules' = schedules /\ feeds' = feeds /\ starts' = starts /\ serviceIds' = serviceIds
      /\ cachedRows' = cachedRows /\ call' = call /\ streams' = streams /\ rows' = rows
      /\ call = NoCall
  BY DEF HitWindow, Begins
<1>3. /\ TablesAre(feeds, schedules, tableCache', cachedRows)
      /\ ToSet(tableCache') = ToSet(tableCache)
  BY <1>1, TouchedTables DEF WindowInv
<1>4. WindowsAre(feeds, ToSet(tableCache), windowCache')
  BY <1>1, TouchedWindows DEF WindowInv
<1>5. /\ e \in ToSet(windowCache) /\ e.object = o /\ e.key.start = start
  BY DEF FoundWindow, WindowsOf, Key
<1>6. /\ e.table \in ToSet(tableCache) /\ e.table.object = o /\ e.table.start = start
  BY <1>5 DEF WindowInv, WindowsAre
<1>7. IsAnswer(feeds, schedules, o, start, e.table.rows)
  BY <1>6 DEF WindowInv, TablesAre
<1>8. WindowIs(feeds, schedules, window')
  BY <1>1, <1>7 DEF WindowIs
<1> QED BY <1>2, <1>3, <1>4, <1>8 DEF WindowInv

\* A cached table is used.
LEMMA HitTableKeeps ==
  ASSUME WindowInv, NEW o \in DOMAIN schedules, NEW start \in starts, NEW options \in Options,
         NEW timed \in BOOLEAN, HitTable(o, start, options, timed)
  PROVE  WindowInv'
<1> DEFINE c == [object |-> o, start |-> start, options |-> options, timed |-> timed,
                 phase |-> "wrap", date |-> 0]
<1>1. PICK e \in TablesOf(o, start) : tableCache' = Touched(tableCache, e) /\ rows' = e.rows
  BY DEF HitTable
<1>2. /\ schedules' = schedules /\ feeds' = feeds /\ starts' = starts /\ serviceIds' = serviceIds
      /\ cachedRows' = cachedRows /\ windowCache' = windowCache /\ call' = c
      /\ streams' = streams /\ window' = NoWindow /\ Begins(o, start)
  BY DEF HitTable
<1>3. /\ TablesAre(feeds, schedules, tableCache', cachedRows)
      /\ ToSet(tableCache') = ToSet(tableCache)
  BY <1>1, TouchedTables DEF WindowInv
<1>4. /\ schedules[o] # Rejected /\ StartsIn(feeds[o], schedules[o], start)
      /\ o \in Nat /\ start \in Int /\ streams = <<>>
  BY <1>2, BeginsHolds
<1>5. e \in ToSet(tableCache) /\ e.object = o /\ e.start = start
  BY DEF TablesOf
<1>6. e \in Entries /\ IsAnswer(feeds, schedules, o, start, e.rows)
  <2>1. tableCache \in Seq(Entries) /\ \A d \in ToSet(tableCache) : IsAnswer(feeds, schedules, d.object, d.start, d.rows)
    BY DEF WindowInv, TablesAre
  <2> QED BY <1>5, <2>1, EntriesFinite
<1>7. e = [object |-> o, start |-> start, rows |-> e.rows]
  BY <1>5, <1>6 DEF Entries
<1>8. CallIs(feeds, schedules, ToSet(tableCache), c, <<>>, e.rows)
  <2>1. c \in Calls
    BY <1>4 DEF Calls
  <2>2. c.object = o /\ c.start = start /\ c.phase = "wrap" /\ c.phase # "materialize"
    OBVIOUS
  <2>3. c # NoCall
    BY <2>1, WindowAssumption
  <2> HIDE DEF c
  <2> QED BY <1>4, <1>5, <1>6, <1>7, <2>1, <2>2, <2>3 DEF CallIs
<1>9. WindowIs(feeds, schedules, NoWindow)
  BY DEF WindowIs
<1> HIDE DEF c
<1> QED BY <1>1, <1>2, <1>3, <1>4, <1>8, <1>9 DEF WindowInv

\* A table is to be built.
LEMMA MissKeeps ==
  ASSUME WindowInv, NEW o \in DOMAIN schedules, NEW start \in starts, NEW options \in Options,
         NEW timed \in BOOLEAN, Miss(o, start, options, timed)
  PROVE  WindowInv'
<1> DEFINE c == [object |-> o, start |-> start, options |-> options, timed |-> timed,
                 phase |-> "materialize", date |-> FirstCandidate(o, start)]
<1>1. /\ schedules' = schedules /\ feeds' = feeds /\ starts' = starts /\ serviceIds' = serviceIds
      /\ tableCache' = tableCache /\ cachedRows' = cachedRows /\ windowCache' = windowCache
      /\ call' = c /\ streams' = streams /\ rows' = rows /\ window' = NoWindow
      /\ Begins(o, start) /\ TablesOf(o, start) = {}
  BY DEF Miss, cacheVars
<1>2. /\ schedules[o] # Rejected /\ StartsIn(feeds[o], schedules[o], start)
      /\ o \in Nat /\ start \in Int /\ streams = <<>> /\ rows = <<>>
  BY <1>1, BeginsHolds
<1>3. FirstCandidate(o, start) = First(schedules[o], start)
  BY DEF FirstCandidate, First
<1>4. /\ First(schedules[o], start) \in Int
      /\ Merges(schedules[o], start, First(schedules[o], start), <<>>, <<>>)
  BY <1>2, SearchDates, MergeBegins
<1>5. CallIs(feeds, schedules, ToSet(tableCache), c, streams, rows)
  <2>1. c \in Calls
    BY <1>2, <1>3, <1>4 DEF Calls
  <2>2. c.object = o /\ c.start = start /\ c.phase # "wrap" /\ c.date = First(schedules[o], start)
    BY <1>3
  <2>3. c # NoCall
    BY <2>1, WindowAssumption
  <2>4. \A e \in ToSet(tableCache) : ~(e.object = o /\ e.start = start)
    BY <1>1 DEF TablesOf
  <2> HIDE DEF c
  <2> QED BY <1>2, <1>4, <2>1, <2>2, <2>3, <2>4 DEF CallIs
<1>6. WindowIs(feeds, schedules, NoWindow)
  BY DEF WindowIs
<1> HIDE DEF c
<1> QED BY <1>1, <1>5, <1>6 DEF WindowInv

\* What a running call stands on.
LEMMA RunningCall ==
  ASSUME WindowInv, call # NoCall
  PROVE  LET a == schedules[call.object]
         IN  /\ call \in Calls /\ call.object \in DOMAIN schedules /\ a # Rejected
             /\ IsParsed(feeds[call.object]) /\ IsCompiled(feeds[call.object], a)
             /\ StartsIn(feeds[call.object], a, call.start) /\ call.start \in Int /\ call.date \in Int
             /\ IsTimetable(a.connections)
             /\ LastCandidate(call.start) \in Int
             /\ call.phase = "materialize" => Merges(a, call.start, call.date, streams, rows)
<1>1. /\ call \in Calls /\ call.object \in DOMAIN schedules /\ schedules[call.object] # Rejected
      /\ StartsIn(feeds[call.object], schedules[call.object], call.start)
      /\ call.phase = "materialize" =>
           Merges(schedules[call.object], call.start, call.date, streams, rows)
  BY DEF WindowInv, CallIs
<1>2. IsParsed(feeds[call.object]) /\ IsCompiled(feeds[call.object], schedules[call.object])
  BY <1>1, LoadedFacts DEF WindowInv
<1>3. IsTimetable(schedules[call.object].connections)
  BY <1>2, CompiledBounds
<1>4. call.start \in Int /\ call.date \in Int
  BY <1>1 DEF Calls
<1>5. LastCandidate(call.start) \in Int
  BY <1>1, SearchDates
<1> QED BY <1>1, <1>2, <1>3, <1>4, <1>5

\* The services found for a date, kept or not, are those of the date.
LEMMA FoundServices ==
  ASSUME WindowInv, call # NoCall
  PROVE  LET id == ArtifactId(call.object)
             found == Cached(id, call.date)
         IN  (IF found # {} THEN (CHOOSE e \in found : TRUE).services
              ELSE ActiveServices(schedules[call.object], call.date))
               = ActiveServices(schedules[call.object], call.date)
<1> DEFINE id == ArtifactId(call.object)
           found == Cached(id, call.date)
<1>1. call.object \in DOMAIN schedules
  BY RunningCall
<1>2. id = Id(feeds, call.object)
  BY DEF ArtifactId, Id
<1>3. ASSUME NEW e \in found PROVE e.services = ActiveServices(schedules[call.object], call.date)
  <2>1. e \in serviceIds /\ e.id = id /\ e.date = call.date
    BY <1>3 DEF Cached
  <2>2. PICK o \in DOMAIN schedules : e.id = Id(feeds, o) /\ e.services = ActiveServices(schedules[o], e.date)
    BY <2>1 DEF WindowInv, ServicesAre
  <2>3. LoadedAre(feeds, schedules) /\ Id(feeds, call.object) = Id(feeds, o)
    BY <1>2, <2>1, <2>2 DEF WindowInv
  <2>4. schedules[call.object] = schedules[o]
    <3>1. \A h \in DOMAIN schedules : \A j \in DOMAIN schedules :
            Id(feeds, h) = Id(feeds, j) => schedules[h] = schedules[j]
      BY <2>3, SameArtifact
    <3> HIDE DEF id, found
    <3> QED BY <1>1, <2>2, <2>3, <3>1
  <2> QED BY <2>1, <2>2, <2>4
<1> QED BY <1>3

\* A date is opened.
LEMMA OpenStreamKeeps == WindowInv /\ OpenStream => WindowInv'
<1> SUFFICES ASSUME WindowInv, OpenStream PROVE WindowInv'
  OBVIOUS
<1> DEFINE a == schedules[call.object]
           f == feeds[call.object]
           start == call.start
           id == ArtifactId(call.object)
           found == Cached(id, call.date)
           active == IF found # {} THEN (CHOOSE e \in found : TRUE).services
                     ELSE ActiveServices(schedules[call.object], call.date)
           cursor == [date |-> call.date, active |-> active, range |-> CursorRange(call.date),
                      index |-> 0, candidate |-> 0, previousRow |-> [t \in Trips |-> 0]]
           entry == [id |-> id, date |-> call.date, services |-> active]
           after == IF active = {} THEN streams ELSE Append(streams, Advanced(cursor))
           c == [call EXCEPT !.date = @ + 1]
<1>1. /\ call # NoCall /\ call.phase = "materialize" /\ call.date <= LastCandidate(call.start)
      /\ serviceIds' = serviceIds \cup {entry} /\ streams' = after /\ call' = c
      /\ schedules' = schedules /\ feeds' = feeds /\ starts' = starts
      /\ tableCache' = tableCache /\ cachedRows' = cachedRows /\ windowCache' = windowCache
      /\ rows' = rows /\ window' = window
  BY DEF OpenStream, cacheVars
<1>2. /\ call \in Calls /\ call.object \in DOMAIN schedules /\ a # Rejected
      /\ IsParsed(f) /\ IsCompiled(f, a) /\ StartsIn(f, a, start) /\ start \in Int /\ call.date \in Int
      /\ IsTimetable(a.connections) /\ Merges(a, start, call.date, streams, rows)
  BY <1>1, RunningCall
<1>3. active = ActiveServices(a, call.date)
  BY <1>1, FoundServices
<1>4. ServicesAre(feeds, schedules, serviceIds \cup {entry})
  <2>1. entry.id = Id(feeds, call.object) /\ entry.services = ActiveServices(a, entry.date)
    BY <1>3 DEF ArtifactId, Id
  <2>2. ServicesAre(feeds, schedules, serviceIds)
    BY DEF WindowInv
  <2> HIDE DEF entry
  <2> QED BY <1>2, <2>1, <2>2 DEF ServicesAre
<1> HIDE DEF active, entry
<1>5. Merges(a, start, call.date + 1, after, rows)
  <2>1. CASE active = {}
    <3>1. after = streams
      BY <2>1
    <3> HIDE DEF after
    <3>2. ActiveServices(a, call.date) = {}
      BY <1>3, <2>1
    <3> HIDE DEF a, f, start
    <3>3. call.date <= LastCandidate(start)
      BY <1>1 DEF start
    <3> QED BY <1>2, <3>1, <3>2, <3>3, MergePasses
  <2>2. CASE active # {}
    <3>1. after = Append(streams, Advanced(cursor))
      BY <2>2
    <3>2. call.date \in Dates
      <4>1. call.date \in a.firstDate .. a.lastDate
        BY <1>3, <2>2 DEF ActiveServices
      <4>2. a.firstDate \in Dates /\ a.lastDate \in Dates
        BY <1>2, CompiledBounds
      <4> QED BY <1>2, <4>1, <4>2, AnchorsIncrease, ScheduleAssumption
    <3>3. CursorRange(call.date) = Span(a, start, call.date)
      BY DEF CursorRange, Span, Source
    <3>4. Span(a, start, call.date) \subseteq Int
      BY <1>2, <3>2, SpanFacts
    <3>5. active \subseteq Services
      BY <1>2, <1>3, ActiveServicesRun
    <3>6. cursor \in Cursors
      <4>1. [t \in Trips |-> 0] \in [Trips -> Int]
        OBVIOUS
      <4> QED BY <1>2, <3>3, <3>4, <3>5, <4>1 DEF Cursors
    <3>7. /\ cursor.date = call.date /\ cursor.active = ActiveServices(a, call.date)
          /\ cursor.range = Span(a, start, call.date) /\ cursor.index = 0 /\ cursor.index \in Nat
          /\ cursor.previousRow = [t \in Trips |-> 0]
      BY <1>3, <3>3
    <3> HIDE DEF after, cursor
    <3>8. Advanced(cursor) \in Cursors /\ Advances(a, start, cursor, Advanced(cursor))
      BY <1>2, <3>2, <3>6, <3>7, AdvancedHolds
    <3> DEFINE e == Advanced(cursor)
    <3>9. after = Append(streams, e) /\ e \in Cursors /\ Advances(a, start, cursor, e)
      BY <3>1, <3>8
    <3> HIDE DEF e
    <3>10. call.date <= LastCandidate(start)
      BY <1>1
    <3> HIDE DEF a, f, start
    <3>11. Merges(a, start, call.date + 1, Append(streams, e), rows)
      BY <1>2, <3>2, <3>7, <3>9, <3>10, MergeOpens
    <3> QED BY <3>9, <3>11
  <2> QED BY <2>1, <2>2
<1>6. CallIs(feeds, schedules, ToSet(tableCache), c, after, rows)
  <2>1. /\ c \in Calls /\ c.object = call.object /\ c.start = call.start /\ c.phase = "materialize"
        /\ c.date = call.date + 1 /\ c.phase # "wrap"
    BY <1>1, <1>2 DEF Calls
  <2>2. c # NoCall
    BY <2>1, WindowAssumption
  <2>3. \A e \in ToSet(tableCache) : ~(e.object = call.object /\ e.start = call.start)
    BY <1>1 DEF WindowInv, CallIs
  <2> HIDE DEF c, after
  <2> QED BY <1>2, <1>5, <2>1, <2>2, <2>3 DEF CallIs
<1> HIDE DEF c, after
<1> QED BY <1>1, <1>4, <1>6 DEF WindowInv

\* A row is added.
LEMMA MergeRowKeeps == WindowInv /\ MergeRow => WindowInv'
<1> SUFFICES ASSUME WindowInv, MergeRow PROVE WindowInv'
  OBVIOUS
<1> DEFINE a == schedules[call.object]
           f == feeds[call.object]
           start == call.start
<1>1. /\ call # NoCall /\ call.phase = "materialize" /\ call.date > LastCandidate(call.start)
      /\ schedules' = schedules /\ feeds' = feeds /\ starts' = starts /\ serviceIds' = serviceIds
      /\ tableCache' = tableCache /\ cachedRows' = cachedRows /\ windowCache' = windowCache
      /\ call' = call /\ window' = window
  BY DEF MergeRow, Merging, cacheVars
<1>2. /\ call \in Calls /\ call.object \in DOMAIN schedules /\ a # Rejected
      /\ StartsIn(f, a, start) /\ start \in Int /\ call.date \in Int
      /\ IsTimetable(a.connections) /\ Merges(a, start, call.date, streams, rows)
  BY <1>1, RunningCall
<1>3. PICK k \in Waiting :
          /\ \A other \in Waiting \ {k} : Precedes(HeapKey(k), HeapKey(other))
          /\ LET c == streams[k]
                 trip == Source(c.candidate).trip
                 row == [source |-> c.candidate, date |-> c.date,
                         departure |-> Departs(c, c.candidate) - call.start,
                         arrival |-> Arrives(c, c.candidate) - call.start,
                         continuation |-> 0]
             IN  /\ rows' = Append(IF c.previousRow[trip] = 0 THEN rows
                                   ELSE [rows EXCEPT ![c.previousRow[trip]].continuation = Len(rows) + 1],
                                   row)
                 /\ streams' = [streams EXCEPT ![k] =
                                  Advanced([c EXCEPT !.previousRow[trip] = Len(rows) + 1])]
  BY DEF MergeRow
<1> DEFINE c == streams[k]
           x == c.candidate
           trip == a.connections[x].trip
           p == c.previousRow[trip]
           row == [source |-> x, date |-> c.date,
                   departure |-> Anchor[c.date] + a.connections[x].departure - start,
                   arrival |-> Anchor[c.date] + a.connections[x].arrival - start,
                   continuation |-> 0]
           longer == Append(IF p = 0 THEN rows ELSE [rows EXCEPT ![p].continuation = Len(rows) + 1], row)
           b == [c EXCEPT !.previousRow[trip] = Len(rows) + 1]
           e == Advanced(b)
<1>4. rows' = longer /\ streams' = [streams EXCEPT ![k] = e]
  <2>1. /\ Source(x) = a.connections[x]
        /\ Departs(c, x) = Anchor[c.date] + a.connections[x].departure
        /\ Arrives(c, x) = Anchor[c.date] + a.connections[x].arrival
    BY DEF Source, Departs, Arrives
  <2>2. /\ Anchor[c.date] \in Int /\ a.connections[x].departure \in Int
        /\ a.connections[x].arrival \in Int
    <3>1. /\ streams \in Seq(Cursors)
          /\ \A j \in 1 .. Len(streams) : IsCursor(a, start, streams[j], rows)
      BY <1>2 DEF Merges
    <3>2. k \in 1 .. Len(streams) /\ x # 0 /\ IsCursor(a, start, c, rows)
      BY <3>1 DEF Waiting
    <3>3. c.date \in Dates /\ x \in Fits(a, start, c.date)
      BY <3>2 DEF IsCursor
    <3>4. x \in 1 .. Len(a.connections)
      BY <1>2, <3>3, SpanFacts
    <3> QED BY <1>2, <3>3, <3>4, AnchorsIncrease DEF IsTimetable
  <2> DEFINE there == [source |-> x, date |-> c.date, departure |-> Departs(c, x) - call.start,
                       arrival |-> Arrives(c, x) - call.start, continuation |-> 0]
  <2>3. there = row
    <3>1. start \in Int /\ start = call.start
      BY <1>2
    <3> DEFINE A == Anchor[c.date]  g == a.connections[x].departure  h == a.connections[x].arrival
    <3>2. /\ Departs(c, x) = A + g /\ Arrives(c, x) = A + h
          /\ A \in Int /\ g \in Int /\ h \in Int
      BY <2>1, <2>2
    <3>3. row = [source |-> x, date |-> c.date, departure |-> A + g - start,
                 arrival |-> A + h - start, continuation |-> 0]
      OBVIOUS
    <3> HIDE DEF A, g, h, row, x, c, start
    <3>4. Departs(c, x) - call.start = A + g - start /\ Arrives(c, x) - call.start = A + h - start
      BY <3>1, <3>2
    <3> QED BY <3>3, <3>4
  <2>4. Source(x).trip = trip
    BY <2>1
  <2>5. /\ rows' = Append(IF c.previousRow[Source(x).trip] = 0 THEN rows
                          ELSE [rows EXCEPT ![c.previousRow[Source(x).trip]].continuation = Len(rows) + 1],
                          there)
        /\ streams' = [streams EXCEPT ![k] =
                         Advanced([c EXCEPT !.previousRow[Source(x).trip] = Len(rows) + 1])]
    BY <1>3, Zenon
  <2> HIDE DEF there, row, trip, c, x
  <2>6. rows' = longer
    BY <2>3, <2>4, <2>5, Zenon
  <2>7. streams' = [streams EXCEPT ![k] = e]
    BY <2>4, <2>5, Zenon
  <2> QED BY <2>6, <2>7
<1>5. /\ streams \in Seq(Cursors) /\ IsTable(a, start, rows)
      /\ \A j \in 1 .. Len(streams) : IsCursor(a, start, streams[j], rows)
  BY <1>2 DEF Merges
<1>6. /\ Waiting = {j \in 1 .. Len(streams) : streams[j].candidate # 0}
      /\ k \in 1 .. Len(streams) /\ x # 0 /\ IsCursor(a, start, c, rows) /\ c \in Cursors
  <2>1. DOMAIN streams = 1 .. Len(streams) /\ \A j \in 1 .. Len(streams) : streams[j] \in Cursors
    BY <1>5
  <2> QED BY <1>5, <2>1 DEF Waiting
<1>7. \A j \in 1 .. Len(streams) : streams[j].candidate # 0 =>
        /\ Departs(streams[j], streams[j].candidate)
             = Anchor[streams[j].date] + a.connections[streams[j].candidate].departure
        /\ Departs(streams[j], streams[j].candidate) \in Int
  <2> TAKE j \in 1 .. Len(streams)
  <2> HAVE streams[j].candidate # 0
  <2> DEFINE d == streams[j].date  i == streams[j].candidate
  <2>1. d \in Dates /\ i \in Fits(a, start, d)
    BY <1>5 DEF IsCursor
  <2>2. i \in 1 .. Len(a.connections)
    BY <1>2, <2>1, SpanFacts
  <2>3. Anchor[d] \in Int /\ a.connections[i].departure \in Int
    BY <1>2, <2>1, <2>2, AnchorsIncrease DEF IsTimetable
  <2> QED BY <2>3 DEF Departs, Source
<1>8. ASSUME NEW j \in 1 .. Len(streams), j # k, streams[j].candidate # 0
      PROVE  Anchor[c.date] + a.connections[x].departure
               <= Anchor[streams[j].date] + a.connections[streams[j].candidate].departure
  <2>1. Precedes(HeapKey(k), HeapKey(j))
    BY <1>3, <1>6, <1>8
  <2>2. /\ HeapKey(k)[1] = Departs(c, x) /\ DOMAIN HeapKey(k) \subseteq Nat \ {0}
        /\ HeapKey(j)[1] = Departs(streams[j], streams[j].candidate)
    BY HeapKeyHolds
  <2>3. /\ Departs(c, x) = Anchor[c.date] + a.connections[x].departure /\ Departs(c, x) \in Int
        /\ Departs(streams[j], streams[j].candidate)
             = Anchor[streams[j].date] + a.connections[streams[j].candidate].departure
        /\ Departs(streams[j], streams[j].candidate) \in Int
    BY <1>6, <1>7, <1>8
  <2>4. HeapKey(k)[1] <= HeapKey(j)[1]
    BY <2>1, <2>2, <2>3, FirstCompares
  <2> QED BY <2>2, <2>3, <2>4
<1>9. Extends(a, start, c, rows, longer)
  <2> HIDE DEF a, start, c
  <2>1. row = [source |-> c.candidate, date |-> c.date,
               departure |-> Anchor[c.date] + a.connections[c.candidate].departure - start,
               arrival |-> Anchor[c.date] + a.connections[c.candidate].arrival - start,
               continuation |-> 0]
        /\ p = c.previousRow[a.connections[c.candidate].trip]
    OBVIOUS
  <2>2. c.candidate # 0
    BY <1>6
  <2> HIDE DEF row, p, x
  <2> QED BY <1>2, <1>5, <1>6, <2>1, <2>2, RowJoins
<1>10. /\ x \in Fits(a, start, c.date) /\ c.date \in Dates /\ c.index = x
       /\ c.active = ActiveServices(a, c.date) /\ c.range = Span(a, start, c.date)
  BY <1>6 DEF IsCursor
<1>11. x \in 1 .. Len(a.connections) /\ x \in Nat /\ trip \in Trips
  <2>1. x \in 1 .. Len(a.connections)
    BY <1>2, <1>10, SpanFacts
  <2> QED BY <1>2, <2>1 DEF IsTimetable
<1>12. Len(rows) \in Nat
  BY <1>5, TableFacts
<1> HIDE DEF a, f, start, longer, row, p
<1>13. /\ b \in Cursors /\ b.date = c.date /\ b.active = c.active /\ b.range = c.range /\ b.index = c.index
       /\ \A t \in Trips : b.previousRow[t] = IF t = trip THEN Len(rows) + 1 ELSE c.previousRow[t]
  <2>1. Len(rows) + 1 \in Int
    BY <1>12
  <2> HIDE DEF c, trip
  <2> QED BY <1>6, <1>11, <2>1 DEF Cursors
<1> HIDE DEF b, e, c
<1>14. e \in Cursors /\ Advances(a, start, b, e)
  <2>1. b.index \in Nat /\ b.date \in Dates /\ b.active = ActiveServices(a, b.date) /\ b.range = Span(a, start, b.date)
    BY <1>10, <1>11, <1>13
  <2>2. IsTimetable(schedules[call.object].connections) /\ call.start \in Int
        /\ b.active = ActiveServices(schedules[call.object], b.date)
        /\ b.range = Span(schedules[call.object], call.start, b.date)
    BY <1>2, <2>1 DEF a, start
  <2>3. /\ Advanced(b) \in Cursors
        /\ Advances(schedules[call.object], call.start, b, Advanced(b))
    BY <1>13, <2>1, <2>2, AdvancedHolds
  <2> QED BY <2>3 DEF e, a, start
<1>15. Merges(a, start, call.date, [streams EXCEPT ![k] = e], longer)
  <2>1. call.date > LastCandidate(start)
    BY <1>1 DEF start
  <2>2. /\ streams[k].candidate # 0 /\ Extends(a, start, streams[k], rows, longer)
        /\ \A j \in 1 .. Len(streams) : j # k /\ streams[j].candidate # 0 =>
             Anchor[streams[k].date] + a.connections[streams[k].candidate].departure
               <= Anchor[streams[j].date] + a.connections[streams[j].candidate].departure
    BY <1>6, <1>8, <1>9 DEF c
  <2>3. /\ b.date = streams[k].date /\ b.active = streams[k].active /\ b.range = streams[k].range
        /\ b.index = streams[k].index
        /\ \A t \in Trips :
             b.previousRow[t] = IF t = a.connections[streams[k].candidate].trip
                                THEN Len(rows) + 1 ELSE streams[k].previousRow[t]
    BY <1>13 DEF c
  <2> HIDE DEF x, trip
  <2> QED BY <1>2, <1>6, <1>14, <2>1, <2>2, <2>3, MergeTakes
<1>16. CallIs(feeds, schedules, ToSet(tableCache), call, streams', rows')
  <2>1. Merges(schedules[call.object], call.start, call.date, streams', rows')
    BY <1>4, <1>15 DEF a, start
  <2>2. \A d \in ToSet(tableCache) : ~(d.object = call.object /\ d.start = call.start)
    BY <1>1 DEF WindowInv, CallIs
  <2>3. call \in Calls /\ call.object \in DOMAIN schedules /\ schedules[call.object] # Rejected
        /\ StartsIn(feeds[call.object], schedules[call.object], call.start)
        /\ call.phase # "wrap" /\ call # NoCall
    BY <1>1, <1>2 DEF a, f, start
  <2> QED BY <2>1, <2>2, <2>3 DEF CallIs
<1> QED BY <1>1, <1>16 DEF WindowInv

\* The tables and windows kept, as functions of the caches.
LEMMA KeptIs ==
  /\ Kept = KeptOf(tableCache, rows)
  /\ WindowsOfKept = Thinned(windowCache, {i \in DOMAIN windowCache : Contains(Kept, windowCache[i].table)})
<1>1. Kept = KeptOf(tableCache, rows)
  BY DEF Kept, KeptOf, Room, Roomy
<1>2. WindowsOfKept = Thinned(windowCache, {i \in DOMAIN windowCache : Contains(Kept, windowCache[i].table)})
  BY DEF WindowsOfKept, Thinned
<1> QED BY <1>1, <1>2

\* A table joins those for which there is room.
LEMMA TableJoins ==
  ASSUME NEW fs, NEW ss, NEW cache, NEW count, TablesAre(fs, ss, cache, count),
         NEW o \in Nat, NEW start \in Int, NEW table, Len(table) \in 0 .. MaxRows,
         IsAnswer(fs, ss, o, start, table),
         \A e \in ToSet(cache) : ~(e.object = o /\ e.start = start)
  PROVE  LET kept == KeptOf(cache, table)
             entry == [object |-> o, start |-> start, rows |-> table]
         IN  /\ TablesAre(fs, ss, Append(kept, entry),
                          count - (RowsOf(cache) - RowsOf(kept)) + Len(table))
             /\ \A e : e \in ToSet(Append(kept, entry)) <=> e = entry \/ \E i \in 1 .. Len(kept) : kept[i] = e
<1> DEFINE kept == KeptOf(cache, table)
           entry == [object |-> o, start |-> start, rows |-> table]
           longer == Append(kept, entry)
           total == count - (RowsOf(cache) - RowsOf(kept)) + Len(table)
<1>1. /\ cache \in Seq(Entries)
      /\ \A e \in ToSet(cache) :
           IsAnswer(fs, ss, e.object, e.start, e.rows) /\ Len(e.rows) \in 0 .. MaxRows
      /\ \A i, j \in 1 .. Len(cache) :
           cache[i].object = cache[j].object /\ cache[i].start = cache[j].start => i = j
      /\ count = RowsOf(cache)
  BY DEF TablesAre
<1>2. /\ kept \in Seq(Entries) /\ Len(kept) < MaxTables /\ RowsOf(kept) + Len(table) <= MaxRows
      /\ \E n \in 0 .. Len(cache) :
           /\ Len(kept) = Len(cache) - n
           /\ \A i \in 1 .. Len(kept) : n + i \in 1 .. Len(cache) /\ kept[i] = cache[n + i]
  BY <1>1, KeptHolds
<1> HIDE DEF kept
<1>3. PICK n \in 0 .. Len(cache) :
           /\ Len(kept) = Len(cache) - n
           /\ \A i \in 1 .. Len(kept) : n + i \in 1 .. Len(cache) /\ kept[i] = cache[n + i]
  BY <1>2
<1>4. entry \in Entries /\ entry.object = o /\ entry.start = start /\ entry.rows = table
  <2>1. table \in Seq(RowTypes)
    BY TableFacts DEF IsAnswer
  <2> QED BY <2>1 DEF Entries
<1> HIDE DEF entry
<1>5. /\ Len(cache) \in Nat /\ Len(kept) \in Nat /\ Len(longer) = Len(kept) + 1
      /\ \A i \in 1 .. Len(kept) : longer[i] = kept[i]
      /\ longer[Len(kept) + 1] = entry /\ longer \in Seq(Entries)
  BY <1>1, <1>2, <1>4, AppendProperties, LenProperties
<1>6. /\ \A e : e \in ToSet(cache) <=> \E i \in 1 .. Len(cache) : cache[i] = e
      /\ \A e : e \in ToSet(kept) <=> \E i \in 1 .. Len(kept) : kept[i] = e
      /\ \A e : e \in ToSet(longer) <=> \E i \in 1 .. Len(longer) : longer[i] = e
  <2>1. \A e : e \in ToSet(cache) <=> \E i \in 1 .. Len(cache) : cache[i] = e
    BY <1>1, EntriesFinite
  <2>2. \A e : e \in ToSet(kept) <=> \E i \in 1 .. Len(kept) : kept[i] = e
    BY <1>2, EntriesFinite
  <2> HIDE DEF longer
  <2>3. \A e : e \in ToSet(longer) <=> \E i \in 1 .. Len(longer) : longer[i] = e
    BY <1>5, EntriesFinite
  <2> QED BY <2>1, <2>2, <2>3
<1>7. \A i \in 1 .. Len(kept) : kept[i] \in ToSet(cache)
  BY <1>3, <1>6
<1>8. \A i \in 1 .. Len(kept) : ~(kept[i].object = o /\ kept[i].start = start)
  BY <1>7
<1>9. entry \notin ToSet(kept)
  BY <1>4, <1>6, <1>8
<1>10. /\ RowsOf(kept) \in Nat /\ RowsOf(cache) \in Nat
       /\ RowsOf(longer) = RowsOf(kept) + Len(table)
  <2>1. RowsOf(cache) \in Nat
    BY <1>1, RowsOfCache
  <2>2. /\ RowsOf(kept) \in Nat
        /\ \A e \in Entries : e \notin ToSet(kept) /\ Len(e.rows) \in 0 .. MaxRows =>
              RowsOf(Append(kept, e)) = RowsOf(kept) + Len(e.rows)
    BY <1>2, RowsOfCache
  <2> QED BY <1>4, <1>9, <2>1, <2>2
<1>11. \A e : e \in ToSet(longer) <=> e = entry \/ \E i \in 1 .. Len(kept) : kept[i] = e
  <2> HIDE DEF longer
  <2>1. \A i \in 1 .. Len(longer) : i \in 1 .. Len(kept) \/ i = Len(kept) + 1
    BY <1>5
  <2>2. /\ Len(kept) + 1 \in 1 .. Len(longer)
        /\ \A i \in 1 .. Len(kept) : i \in 1 .. Len(longer)
    BY <1>5
  <2>3. \A e : e \in ToSet(longer) => e = entry \/ \E i \in 1 .. Len(kept) : kept[i] = e
    BY <1>5, <1>6, <2>1
  <2>4. \A e : (\E i \in 1 .. Len(kept) : kept[i] = e) => e \in ToSet(longer)
    BY <1>5, <1>6, <2>2
  <2>5. entry \in ToSet(longer)
    BY <1>5, <1>6, <2>2
  <2> QED BY <2>3, <2>4, <2>5
<1>12. ASSUME NEW e \in ToSet(longer)
       PROVE  IsAnswer(fs, ss, e.object, e.start, e.rows) /\ Len(e.rows) \in 0 .. MaxRows
  <2>1. CASE e = entry
    BY <1>4, <2>1
  <2>2. CASE e # entry
    <3>1. e \in ToSet(cache)
      BY <1>7, <1>11, <1>12, <2>2
    <3> QED BY <1>1, <3>1
  <2> QED BY <2>1, <2>2
<1>13. ASSUME NEW i \in 1 .. Len(longer), NEW j \in 1 .. Len(longer),
              longer[i].object = longer[j].object, longer[i].start = longer[j].start
       PROVE  i = j
  <2> HIDE DEF longer
  <2>1. \A h \in 1 .. Len(longer) : h \in 1 .. Len(kept) \/ h = Len(kept) + 1
    BY <1>5
  <2>2. CASE i \in 1 .. Len(kept) /\ j \in 1 .. Len(kept)
    <3>1. n + i \in 1 .. Len(cache) /\ n + j \in 1 .. Len(cache) /\ kept[i] = cache[n + i] /\ kept[j] = cache[n + j]
      BY <1>3, <2>2
    <3>2. n + i = n + j
      BY <1>1, <1>5, <1>13, <2>2, <3>1
    <3> QED BY <2>2, <3>2
  <2>3. CASE i \in 1 .. Len(kept) /\ j = Len(kept) + 1
    BY <1>4, <1>5, <1>8, <1>13, <2>3
  <2>4. CASE i = Len(kept) + 1 /\ j \in 1 .. Len(kept)
    BY <1>4, <1>5, <1>8, <1>13, <2>4
  <2> QED BY <2>1, <2>2, <2>3, <2>4
<1>14. total = RowsOf(longer) /\ total <= MaxRows /\ Len(longer) <= MaxTables
  <2>1. MaxTables \in Nat /\ MaxRows \in Nat
    BY WindowAssumption
  <2>2. Len(table) \in Nat
    BY <2>1
  <2>3. total = RowsOf(kept) + Len(table)
    BY <1>1, <1>10, <2>2
  <2> HIDE DEF longer, total
  <2> QED BY <1>2, <1>5, <1>10, <2>1, <2>3
<1>15. TablesAre(fs, ss, longer, total)
  <2> HIDE DEF longer, total
  <2> QED BY <1>5, <1>12, <1>13, <1>14 DEF TablesAre
<1> QED BY <1>11, <1>15 DEF longer, total, kept, entry

\* The windows of the tables that stay are windows of the tables there then are.
LEMMA WindowsStay ==
  ASSUME NEW fs, NEW tables, NEW windows, WindowsAre(fs, tables, windows), NEW after,
         NEW stay \in SUBSET (1 .. Len(windows)), \A i \in stay : windows[i].table \in after
  PROVE  WindowsAre(fs, after, Thinned(windows, stay))
<1> DEFINE t == Thinned(windows, stay)
<1>1. /\ windows \in Seq(WindowEntries)
      /\ \A i, j \in 1 .. Len(windows) : windows[i].key = windows[j].key => i = j
      /\ \A d \in ToSet(windows) :
           /\ d.table \in tables /\ d.key.id = Id(fs, d.object)
           /\ d.table.object = d.object /\ d.table.start = d.key.start
      /\ Len(windows) <= MaxWindows
  BY DEF WindowsAre
<1>2. /\ t \in Seq(WindowEntries) /\ Len(t) <= Len(windows)
      /\ \A n \in 1 .. Len(t) : \E i \in stay : t[n] = windows[i]
      /\ \A n, m \in 1 .. Len(t) : n # m => \E i, j \in stay : i # j /\ t[n] = windows[i] /\ t[m] = windows[j]
  BY <1>1, ThinnedHolds
<1> HIDE DEF t
<1>3. /\ \A d : d \in ToSet(t) <=> \E i \in 1 .. Len(t) : t[i] = d
      /\ \A d : d \in ToSet(windows) <=> \E i \in 1 .. Len(windows) : windows[i] = d
  BY <1>1, <1>2, EntriesFinite
<1>4. ASSUME NEW d \in ToSet(t)
      PROVE  /\ d.table \in after /\ d.key.id = Id(fs, d.object)
             /\ d.table.object = d.object /\ d.table.start = d.key.start
  <2>1. PICK n \in 1 .. Len(t) : t[n] = d
    BY <1>3
  <2>2. PICK i \in stay : t[n] = windows[i]
    BY <1>2
  <2>3. d \in ToSet(windows) /\ d.table \in after
    BY <1>3, <2>1, <2>2
  <2> QED BY <1>1, <2>3
<1>5. ASSUME NEW n \in 1 .. Len(t), NEW m \in 1 .. Len(t), t[n].key = t[m].key, n # m
      PROVE  FALSE
  <2>1. \E i, j \in stay : i # j /\ t[n] = windows[i] /\ t[m] = windows[j]
    BY <1>2, <1>5
  <2> QED BY <1>1, <1>5, <2>1
<1>6. Len(t) <= MaxWindows
  <2>1. Len(t) \in Nat /\ Len(windows) \in Nat /\ MaxWindows \in Nat
    BY <1>1, <1>2, LenProperties, WindowAssumption
  <2> QED BY <1>1, <1>2, <2>1
<1>7. WindowsAre(fs, after, t)
  BY <1>2, <1>4, <1>5, <1>6 DEF WindowsAre
<1> QED BY <1>7 DEF t

\* The table is complete, and kept if it is not too large.
LEMMA FinishTableKeeps == WindowInv /\ FinishTable => WindowInv'
<1> SUFFICES ASSUME WindowInv, FinishTable PROVE WindowInv'
  OBVIOUS
<1> DEFINE a == schedules[call.object]
           f == feeds[call.object]
           start == call.start
           c == [call EXCEPT !.phase = "wrap"]
           entry == [object |-> call.object, start |-> call.start, rows |-> rows]
<1>1. /\ call # NoCall /\ call.phase = "materialize" /\ call.date > LastCandidate(call.start)
      /\ Waiting = {}
      /\ schedules' = schedules /\ feeds' = feeds /\ starts' = starts /\ serviceIds' = serviceIds
      /\ call' = c /\ streams' = <<>> /\ rows' = rows /\ window' = window
  BY DEF FinishTable, Merging
<1>2. /\ call \in Calls /\ call.object \in DOMAIN schedules /\ a # Rejected
      /\ StartsIn(f, a, start) /\ start \in Int /\ call.date \in Int
      /\ Merges(a, start, call.date, streams, rows)
  BY <1>1, RunningCall
<1>3. IsAnswer(feeds, schedules, call.object, start, rows)
  <2>1. streams \in Seq(Cursors) /\ IsTable(a, start, rows)
    BY <1>2 DEF Merges
  <2>2. DOMAIN streams = 1 .. Len(streams)
    BY <2>1
  <2>3. \A k \in 1 .. Len(streams) : streams[k].candidate = 0
    BY <1>1, <2>2 DEF Waiting
  <2>4. Holds(a, f, start, rows)
    <3>1. call.date > LastCandidate(start)
      BY <1>1
    <3> HIDE DEF a, f, start
    <3> QED BY <1>2, <2>3, <3>1, MergeEnds
  <2> QED BY <1>2, <2>1, <2>4 DEF IsAnswer
<1>4. c \in Calls /\ c # NoCall /\ c.phase = "wrap" /\ c.phase # "materialize"
      /\ c.object = call.object /\ c.start = start /\ call.object \in Nat
  <2>1. c \in Calls /\ c.phase = "wrap" /\ c.object = call.object /\ c.start = start /\ call.object \in Nat
    BY <1>2 DEF Calls
  <2> HIDE DEF c
  <2> QED BY <2>1, WindowAssumption
<1>5. ASSUME NEW tables, Len(rows) <= MaxRows => entry \in tables
      PROVE  CallIs(feeds, schedules, tables, c, <<>>, rows)
  <2> HIDE DEF c
  <2> QED BY <1>2, <1>3, <1>4, <1>5 DEF CallIs
<1>6. /\ TablesAre(feeds, schedules, tableCache, cachedRows)
      /\ WindowsAre(feeds, ToSet(tableCache), windowCache)
      /\ \A e \in ToSet(tableCache) : ~(e.object = call.object /\ e.start = call.start)
  BY <1>1 DEF WindowInv, CallIs
<1>7. CASE Len(rows) > MaxRows
  <2>1. tableCache' = tableCache /\ cachedRows' = cachedRows /\ windowCache' = windowCache
    BY <1>7 DEF FinishTable, cacheVars
  <2>2. Len(rows) \in Nat /\ MaxRows \in Nat
    BY <1>3, TableFacts, WindowAssumption DEF IsAnswer
  <2>3. CallIs(feeds, schedules, ToSet(tableCache), c, <<>>, rows)
    BY <1>5, <1>7, <2>2
  <2> HIDE DEF c
  <2> QED BY <1>1, <2>1, <2>3 DEF WindowInv
<1>8. CASE ~(Len(rows) > MaxRows)
  <2> DEFINE stay == {i \in DOMAIN windowCache : Contains(Kept, windowCache[i].table)}
             kept == KeptOf(tableCache, rows)
             longer == Append(kept, entry)
             total == cachedRows - (RowsOf(tableCache) - RowsOf(kept)) + Len(rows)
  <2>1. /\ tableCache' = longer /\ cachedRows' = total
        /\ windowCache' = Thinned(windowCache, stay)
    <3>1. /\ tableCache' = Append(Kept, entry)
          /\ cachedRows' = cachedRows - (RowsOf(tableCache) - RowsOf(Kept)) + Len(rows)
          /\ windowCache' = WindowsOfKept
      BY <1>8 DEF FinishTable
    <3>2. Kept = kept /\ WindowsOfKept = Thinned(windowCache, stay)
      BY KeptIs
    <3> HIDE DEF kept, stay, entry
    <3> QED BY <3>1, <3>2, Zenon
  <2>2. Len(rows) \in 0 .. MaxRows
    BY <1>3, <1>8, TableFacts, WindowAssumption DEF IsAnswer
  <2>3. /\ TablesAre(feeds, schedules, longer, total)
        /\ \A e : e \in ToSet(longer) <=> e = entry \/ \E i \in 1 .. Len(kept) : kept[i] = e
    BY <1>2, <1>3, <1>4, <1>6, <2>2, TableJoins
  <2>4. stay \in SUBSET (1 .. Len(windowCache)) /\ \A i \in stay : windowCache[i].table \in ToSet(longer)
    <3>1. windowCache \in Seq(WindowEntries) /\ tableCache \in Seq(Entries)
      BY <1>6 DEF WindowsAre, TablesAre
    <3>2. DOMAIN windowCache = 1 .. Len(windowCache)
      BY <3>1
    <3>3. Kept = kept /\ kept \in Seq(Entries)
      BY <2>2, <3>1, KeptHolds, KeptIs
    <3> HIDE DEF kept, longer, entry
    <3>4. \A i \in stay : \E j \in 1 .. Len(kept) : kept[j] = windowCache[i].table
      BY <3>3 DEF Contains
    <3> QED BY <2>3, <3>2, <3>4
  <2>5. WindowsAre(feeds, ToSet(longer), Thinned(windowCache, stay))
    <3> HIDE DEF stay, longer
    <3> QED BY <1>6, <2>4, WindowsStay
  <2>6. CallIs(feeds, schedules, ToSet(longer), c, <<>>, rows)
    BY <1>5, <2>3
  <2> HIDE DEF stay, longer, total, c
  <2> QED BY <1>1, <2>1, <2>3, <2>5, <2>6 DEF WindowInv
<1> QED BY <1>7, <1>8

\* A window joins those there are.
LEMMA WindowJoins ==
  ASSUME NEW fs, NEW tables, NEW left, WindowsAre(fs, tables, left), Len(left) < MaxWindows,
         NEW entry \in WindowEntries, entry.table \in tables, entry.key.id = Id(fs, entry.object),
         entry.table.object = entry.object, entry.table.start = entry.key.start
  PROVE  WindowsAre(fs, tables,
           IF \E i \in DOMAIN left : left[i].key = entry.key
           THEN [i \in DOMAIN left |-> IF left[i].key = entry.key THEN entry ELSE left[i]]
           ELSE Append(left, entry))
<1>1. /\ left \in Seq(WindowEntries)
      /\ \A i, j \in 1 .. Len(left) : left[i].key = left[j].key => i = j
      /\ \A d \in ToSet(left) :
           /\ d.table \in tables /\ d.key.id = Id(fs, d.object)
           /\ d.table.object = d.object /\ d.table.start = d.key.start
  BY DEF WindowsAre
<1>2. /\ Len(left) \in Nat /\ MaxWindows \in Nat /\ DOMAIN left = 1 .. Len(left)
      /\ \A i \in 1 .. Len(left) : left[i] \in WindowEntries
  BY <1>1, WindowAssumption
<1>3. \A d : d \in ToSet(left) <=> \E i \in 1 .. Len(left) : left[i] = d
  BY <1>1, EntriesFinite
<1>4. CASE \E i \in DOMAIN left : left[i].key = entry.key
  <2> DEFINE t == [i \in 1 .. Len(left) |-> IF left[i].key = entry.key THEN entry ELSE left[i]]
  <2>1. /\ \A i \in 1 .. Len(left) : t[i] = IF left[i].key = entry.key THEN entry ELSE left[i]
        /\ t \in [1 .. Len(left) -> WindowEntries]
    BY <1>2
  <2>2. t \in Seq(WindowEntries) /\ Len(t) = Len(left)
    <3>1. DOMAIN t = 1 .. Len(left)
      OBVIOUS
    <3> HIDE DEF t
    <3>2. t \in Seq(WindowEntries)
      BY <1>2, <2>1
    <3> QED BY <1>2, <3>1, <3>2, LenProperties
  <2> HIDE DEF t
  <2>3. \A i \in 1 .. Len(t) : t[i].key = left[i].key
    BY <2>1, <2>2
  <2>4. \A d : d \in ToSet(t) => d = entry \/ d \in ToSet(left)
    <3>1. \A d : d \in ToSet(t) <=> \E i \in 1 .. Len(t) : t[i] = d
      BY <2>2, EntriesFinite
    <3> QED BY <1>3, <2>1, <2>2, <3>1
  <2>5. WindowsAre(fs, tables, t)
    BY <1>1, <1>2, <2>2, <2>3, <2>4 DEF WindowsAre
  <2> QED BY <1>2, <1>4, <2>5 DEF t
<1>5. CASE ~ \E i \in DOMAIN left : left[i].key = entry.key
  <2> DEFINE t == Append(left, entry)
  <2>1. /\ t \in Seq(WindowEntries) /\ Len(t) = Len(left) + 1
        /\ \A i \in 1 .. Len(left) : t[i] = left[i]
        /\ t[Len(left) + 1] = entry
    BY <1>1, AppendProperties
  <2> HIDE DEF t
  <2>2. \A i \in 1 .. Len(t) : i \in 1 .. Len(left) \/ i = Len(left) + 1
    BY <1>2, <2>1
  <2>3. \A d : d \in ToSet(t) => d = entry \/ d \in ToSet(left)
    <3>1. \A d : d \in ToSet(t) <=> \E i \in 1 .. Len(t) : t[i] = d
      BY <2>1, EntriesFinite
    <3> QED BY <1>3, <2>1, <2>2, <3>1
  <2>4. ASSUME NEW i \in 1 .. Len(t), NEW j \in 1 .. Len(t), t[i].key = t[j].key
        PROVE  i = j
    BY <1>1, <1>2, <1>5, <2>1, <2>2, <2>4
  <2>5. Len(t) <= MaxWindows
    BY <1>2, <2>1
  <2>6. WindowsAre(fs, tables, t)
    BY <1>1, <2>1, <2>3, <2>4, <2>5 DEF WindowsAre
  <2> QED BY <1>5, <2>6 DEF t
<1> QED BY <1>4, <1>5

\* The oldest window is dropped.
LEMMA WindowDropped ==
  ASSUME NEW fs, NEW tables, NEW windows, WindowsAre(fs, tables, windows), Len(windows) >= MaxWindows
  PROVE  WindowsAre(fs, tables, Tail(windows)) /\ Len(Tail(windows)) < MaxWindows
<1> DEFINE t == Tail(windows)
<1>1. /\ windows \in Seq(WindowEntries)
      /\ \A i, j \in 1 .. Len(windows) : windows[i].key = windows[j].key => i = j
      /\ \A d \in ToSet(windows) :
           /\ d.table \in tables /\ d.key.id = Id(fs, d.object)
           /\ d.table.object = d.object /\ d.table.start = d.key.start
      /\ Len(windows) <= MaxWindows
  BY DEF WindowsAre
<1>2. Len(windows) \in Nat /\ MaxWindows \in Nat \ {0} /\ Len(windows) = MaxWindows
  BY <1>1, WindowAssumption
<1>3. windows # <<>>
  BY <1>2
<1>4. /\ t \in Seq(WindowEntries) /\ Len(t) = Len(windows) - 1
      /\ \A i \in 1 .. Len(t) : t[i] = windows[i + 1]
  BY <1>1, <1>3, HeadTailProperties
<1> HIDE DEF t
<1>5. \A i \in 1 .. Len(t) : i + 1 \in 1 .. Len(windows)
  BY <1>2, <1>4
<1>6. /\ \A d : d \in ToSet(t) <=> \E i \in 1 .. Len(t) : t[i] = d
      /\ \A d : d \in ToSet(windows) <=> \E i \in 1 .. Len(windows) : windows[i] = d
  BY <1>1, <1>4, EntriesFinite
<1>7. \A d : d \in ToSet(t) => d \in ToSet(windows)
  BY <1>4, <1>5, <1>6
<1>8. ASSUME NEW i \in 1 .. Len(t), NEW j \in 1 .. Len(t), t[i].key = t[j].key
      PROVE  i = j
  <2>1. i + 1 = j + 1
    BY <1>1, <1>4, <1>5, <1>8
  <2> QED BY <2>1
<1>9. Len(t) < MaxWindows
  BY <1>2, <1>4
<1>10. WindowsAre(fs, tables, t)
  BY <1>1, <1>2, <1>4, <1>7, <1>8, <1>9 DEF WindowsAre
<1> QED BY <1>9, <1>10 DEF t

\* The window is made, and kept unless it may not be.
LEMMA WrapKeeps == WindowInv /\ Wrap => WindowInv'
<1> SUFFICES ASSUME WindowInv, Wrap PROVE WindowInv'
  OBVIOUS
<1> DEFINE key == Key(call.object, call.start, call.options)
           left == IF Len(windowCache) >= MaxWindows THEN Tail(windowCache) ELSE windowCache
           table == [object |-> call.object, start |-> call.start, rows |-> rows]
           entry == [key |-> key, object |-> call.object, table |-> table]
           joined == IF \E i \in DOMAIN left : left[i].key = entry.key
                     THEN [i \in DOMAIN left |-> IF left[i].key = entry.key THEN entry ELSE left[i]]
                     ELSE Append(left, entry)
           tables == ToSet(tableCache)
<1>1. /\ call # NoCall /\ call.phase = "wrap"
      /\ schedules' = schedules /\ feeds' = feeds /\ starts' = starts /\ serviceIds' = serviceIds
      /\ tableCache' = tableCache /\ cachedRows' = cachedRows
      /\ call' = NoCall /\ streams' = streams /\ rows' = <<>> /\ window' = table
      /\ windowCache' = IF call.timed THEN windowCache ELSE IF Len(rows) > MaxRows THEN left ELSE joined
  BY DEF Wrap
<1>2. /\ call \in Calls /\ call.object \in DOMAIN schedules
      /\ streams = <<>> /\ IsAnswer(feeds, schedules, call.object, call.start, rows)
      /\ Len(rows) <= MaxRows => table \in tables
  BY <1>1 DEF WindowInv, CallIs
<1>3. WindowsAre(feeds, tables, windowCache) /\ LoadedAre(feeds, schedules)
      /\ TablesAre(feeds, schedules, tableCache, cachedRows)
  BY DEF WindowInv
<1>4. WindowsAre(feeds, tables, left) /\ Len(left) < MaxWindows
  <2>1. CASE Len(windowCache) >= MaxWindows
    BY <1>3, <2>1, WindowDropped
  <2>2. CASE ~(Len(windowCache) >= MaxWindows)
    <3>1. Len(windowCache) \in Nat /\ MaxWindows \in Nat
      BY <1>3, WindowAssumption, LenProperties DEF WindowsAre
    <3> QED BY <1>3, <2>2, <3>1
  <2> QED BY <2>1, <2>2
<1>5. Len(rows) \in Nat /\ MaxRows \in Nat /\ rows \in Seq(RowTypes)
  BY <1>2, TableFacts, WindowAssumption DEF IsAnswer
<1>6. /\ entry.key.id = Id(feeds, call.object) /\ entry.key.start = call.start
      /\ entry.object = call.object /\ entry.table = table
      /\ table.object = call.object /\ table.start = call.start
  BY DEF Key, ArtifactId, Id
<1>7. entry \in WindowEntries
  <2>1. Id(feeds, call.object) \in Int
    <3>1. Id(feeds, call.object) \in Nat
      BY <1>2, <1>3, SameArtifact
    <3> QED BY <3>1
  <2>2. call.object \in Nat /\ call.start \in Int /\ call.options \in Options
    BY <1>2 DEF Calls
  <2>3. table \in Entries
    BY <1>5, <2>2 DEF Entries
  <2>4. key = [id |-> Id(feeds, call.object), start |-> call.start, options |-> call.options]
    BY DEF Key, ArtifactId, Id
  <2>5. key \in [id : Int, start : Int, options : Options]
    BY <2>1, <2>2, <2>4
  <2> HIDE DEF key, table
  <2> QED BY <2>2, <2>3, <2>5 DEF WindowEntries
<1>8. ~(Len(rows) > MaxRows) => WindowsAre(feeds, tables, joined)
  <2> HAVE ~(Len(rows) > MaxRows)
  <2>1. table \in tables
    BY <1>2, <1>5
  <2> HIDE DEF entry, left, table, tables
  <2> QED BY <1>4, <1>6, <1>7, <2>1, WindowJoins
<1>9. WindowsAre(feeds, tables, windowCache')
  <2> HIDE DEF entry, left, table, tables, joined
  <2> QED BY <1>1, <1>3, <1>4, <1>8
<1>10. CallIs(feeds, schedules, tables, NoCall, <<>>, <<>>)
  BY DEF CallIs
<1>11. WindowIs(feeds, schedules, table)
  BY <1>2 DEF WindowIs
<1> HIDE DEF table, joined, left, entry
<1> QED BY <1>1, <1>2, <1>9, <1>10, <1>11 DEF WindowInv

\* Every step of the window, its caches and their calls keeps the invariant.
LEMMA WindowNextKeeps == WindowInv /\ [WindowNext]_windowVars => WindowInv'
<1> SUFFICES ASSUME WindowInv, [WindowNext]_windowVars PROVE WindowInv'
  OBVIOUS
<1>1. CASE Import
  BY <1>1, ImportKeeps
<1>2. CASE Expire
  BY <1>2, ExpireKeeps
<1>3. CASE OpenStream
  BY <1>3, OpenStreamKeeps
<1>4. CASE MergeRow
  BY <1>4, MergeRowKeeps
<1>5. CASE FinishTable
  BY <1>5, FinishTableKeeps
<1>6. CASE Wrap
  BY <1>6, WrapKeeps
<1>7. ASSUME NEW o \in DOMAIN schedules, NEW start \in starts, OutOfBounds(o, start)
      PROVE  WindowInv'
  BY <1>7, OutOfBoundsKeeps
<1>8. ASSUME NEW o \in DOMAIN schedules, NEW start \in starts, NEW options \in Options,
             HitWindow(o, start, options)
      PROVE  WindowInv'
  BY <1>8, HitWindowKeeps
<1>9. ASSUME NEW o \in DOMAIN schedules, NEW start \in starts, NEW options \in Options,
             NEW timed \in BOOLEAN, HitTable(o, start, options, timed)
      PROVE  WindowInv'
  BY <1>9, HitTableKeeps
<1>10. ASSUME NEW o \in DOMAIN schedules, NEW start \in starts, NEW options \in Options,
              NEW timed \in BOOLEAN, Miss(o, start, options, timed)
       PROVE  WindowInv'
  BY <1>10, MissKeeps
<1>11. CASE UNCHANGED windowVars
  <2>1. /\ schedules' = schedules /\ feeds' = feeds /\ starts' = starts /\ serviceIds' = serviceIds
        /\ tableCache' = tableCache /\ cachedRows' = cachedRows /\ windowCache' = windowCache
        /\ call' = call /\ streams' = streams /\ rows' = rows /\ window' = window
    BY <1>11 DEF windowVars, cacheVars
  <2> QED BY <2>1 DEF WindowInv
<1> QED BY <1>1, <1>2, <1>3, <1>4, <1>5, <1>6, <1>7, <1>8, <1>9, <1>10, <1>11 DEF WindowNext

\* Whatever is loaded, searched, evicted or stopped by a deadline, the caches,
\* the running call and the window answer for the feeds (router.ts:523).
THEOREM WindowInvariant == WindowSpec => []WindowInv
<1>1. WindowInit => WindowInv
  BY WindowInitHolds
<1>2. WindowInv /\ [WindowNext]_windowVars => WindowInv'
  BY WindowNextKeeps
<1> QED BY <1>1, <1>2, PTL DEF WindowSpec

-------------------------------------------------------------------------------
(* What follows from it.                                                   *)

\* What a search is to be given, in the words of the properties.
LEMMA HoldsIs ==
  ASSUME NEW o, NEW start, NEW table
  PROVE  HoldsRides(o, start, table) <=> Holds(schedules[o], feeds[o], start, table)
<1>1. RidesIn(o, start) = Rides(schedules[o], feeds[o], start)
  BY DEF RidesIn, Rides
<1>2. \A d : HiddenByShortDay(o, d, start) <=> Hidden(schedules[o], d, start)
  BY Zenon DEF HiddenByShortDay, Hidden
<1> QED BY <1>1, <1>2, Zenon DEF HoldsRides, Holds

\* The state of a call is that of its invariant.
LEMMA CallsHold == WindowInv => CallsOK
<1> SUFFICES ASSUME WindowInv PROVE CallsOK
  OBVIOUS
<1>1. ASSUME NEW o \in DOMAIN schedules, schedules[o] # Rejected
      PROVE  schedules[o].earliest <= schedules[o].latest
  BY <1>1, LoadedFacts DEF WindowInv, IsCompiled
<1>2. call # NoCall => call.phase \in {"materialize", "wrap"} /\ call.object \in DOMAIN schedules
  BY RunningCall DEF Calls
<1>3. cachedRows \in 0 .. MaxRows
  <2>1. tableCache \in Seq(Entries) /\ cachedRows = RowsOf(tableCache) /\ cachedRows <= MaxRows
    BY DEF WindowInv, TablesAre
  <2>2. RowsOf(tableCache) \in Nat /\ MaxRows \in Nat
    BY <2>1, RowsOfCache, WindowAssumption
  <2> QED BY <2>1, <2>2
<1>4. \A k \in DOMAIN streams :
        streams[k].date < call.date /\ streams[k].candidate \in streams[k].range \cup {0}
  <2>1. CASE call = NoCall \/ call.phase = "wrap"
    <3>1. streams = <<>>
      BY <2>1, RunningCall DEF WindowInv, CallIs
    <3> QED BY <3>1
  <2>2. CASE call # NoCall /\ call.phase = "materialize"
    <3> DEFINE a == schedules[call.object]
    <3>1. /\ IsTimetable(a.connections) /\ call.start \in Int
          /\ Merges(a, call.start, call.date, streams, rows)
      BY <2>2, RunningCall
    <3>2. /\ DOMAIN streams = 1 .. Len(streams)
          /\ \A k \in 1 .. Len(streams) :
                IsCursor(a, call.start, streams[k], rows) /\ streams[k].date < call.date
      BY <3>1 DEF Merges
    <3> HIDE DEF a
    <3>3. ASSUME NEW k \in 1 .. Len(streams)
          PROVE  streams[k].candidate \in streams[k].range \cup {0}
      <4>1. /\ streams[k].date \in Dates /\ streams[k].range = Span(a, call.start, streams[k].date)
            /\ streams[k].candidate \in Fits(a, call.start, streams[k].date) \cup {0}
        BY <3>2, <3>3 DEF IsCursor
      <4>2. Fits(a, call.start, streams[k].date) \subseteq Span(a, call.start, streams[k].date)
        BY <3>1, <4>1, SpanFacts
      <4> QED BY <4>1, <4>2
    <3> QED BY <3>2, <3>3
  <2> QED BY <1>2, <2>1, <2>2
<1>5. \A r \in DOMAIN rows : rows[r].continuation \in {0} \cup (r + 1 .. Len(rows))
  <2>1. ASSUME NEW a, NEW start, IsTable(a, start, rows)
        PROVE  \A r \in DOMAIN rows : rows[r].continuation \in {0} \cup (r + 1 .. Len(rows))
    BY <2>1, TableFacts DEF IsTable
  <2>2. CASE call = NoCall
    <3>1. rows = <<>>
      BY <2>2 DEF WindowInv, CallIs
    <3> QED BY <3>1
  <2>3. CASE call # NoCall /\ call.phase = "materialize"
    <3>1. IsTable(schedules[call.object], call.start, rows)
      BY <2>3, RunningCall DEF Merges
    <3> QED BY <2>1, <3>1
  <2>4. CASE call # NoCall /\ call.phase = "wrap"
    <3>1. IsTable(schedules[call.object], call.start, rows)
      BY <2>4 DEF WindowInv, CallIs, IsAnswer
    <3> QED BY <2>1, <3>1
  <2> QED BY <1>2, <2>2, <2>3, <2>4
<1> QED BY <1>1, <1>2, <1>3, <1>4, <1>5 DEF CallsOK

\* The state of a call: its dates, cursors, rows and counter are in range.
THEOREM CallsStayOK == WindowSpec => []CallsOK
BY WindowInvariant, CallsHold, PTL

\* What a search is given are the rides of the feed (gtfs.ts:677, router.ts:616).
THEOREM WindowIsFeed == WindowSpec => []WindowIsOfFeed
<1>1. WindowInv => WindowIsOfFeed
  <2> SUFFICES ASSUME WindowInv PROVE WindowIsOfFeed
    OBVIOUS
  <2>1. ASSUME NEW o \in DOMAIN schedules, schedules[o] # Rejected
        PROVE  TripsAreKept(feeds[o], schedules[o].connections)
    <3>1. IsCompiled(feeds[o], schedules[o])
      BY <2>1, LoadedFacts DEF WindowInv
    <3>2. schedules[o].connections = Connections(feeds[o]) /\ HasTrips(feeds[o])
      BY <3>1 DEF IsCompiled
    <3>3. TripsAreKept(feeds[o], Connections(feeds[o]))
      BY <3>2, TripsKept
    <3> QED BY <3>2, <3>3
  <2>2. window # NoWindow => HoldsRides(window.object, window.start, window.rows)
    <3> HAVE window # NoWindow
    <3>1. Holds(schedules[window.object], feeds[window.object], window.start, window.rows)
      BY DEF WindowInv, WindowIs, IsAnswer
    <3> QED BY <3>1, HoldsIs
  <2> QED BY <2>1, <2>2, CallsHold DEF WindowIsOfFeed
<1> QED BY <1>1, WindowInvariant, PTL

\* What the compiler publishes the loader accepts (artifact.ts:840).
THEOREM CompiledIsLoaded == WindowSpec => []WhatCompilesLoads
<1>1. WindowInv => WhatCompilesLoads
  <2> SUFFICES ASSUME WindowInv, NEW o \in DOMAIN schedules, schedules[o] # Rejected
               PROVE  Loads(schedules[o]) /\ AttributionIsAgreed(feeds[o], schedules[o].official)
    BY DEF WhatCompilesLoads
  <2>1. /\ IsParsed(feeds[o]) /\ feeds[o].info \in FeedInfos /\ feeds[o].attributions \in Attributions
        /\ IsCompiled(feeds[o], schedules[o])
    BY LoadedFacts DEF WindowInv
  <2> QED BY <2>1, CompiledLoads
<1> QED BY <1>1, WindowInvariant, PTL

\* Whatever was evicted, expired or replaced, the caches hold what their keys
\* say, within their limits (router.ts:523).
THEOREM CachesStayFresh == WindowSpec => []CachesAreFresh
<1>1. WindowInv => CachesAreFresh
  <2> SUFFICES ASSUME WindowInv PROVE CachesAreFresh
    OBVIOUS
  <2>1. /\ tableCache \in Seq(Entries)
        /\ \A e \in ToSet(tableCache) : IsAnswer(feeds, schedules, e.object, e.start, e.rows)
        /\ \A i, j \in 1 .. Len(tableCache) :
             tableCache[i].object = tableCache[j].object /\ tableCache[i].start = tableCache[j].start => i = j
        /\ Len(tableCache) <= MaxTables
        /\ cachedRows = RowsOf(tableCache) /\ cachedRows <= MaxRows
    BY DEF WindowInv, TablesAre
  <2>2. /\ windowCache \in Seq(WindowEntries)
        /\ \A i, j \in 1 .. Len(windowCache) : windowCache[i].key = windowCache[j].key => i = j
        /\ \A e \in ToSet(windowCache) :
             /\ e.table \in ToSet(tableCache) /\ e.key.id = Id(feeds, e.object)
             /\ e.table.object = e.object /\ e.table.start = e.key.start
        /\ Len(windowCache) <= MaxWindows
    BY DEF WindowInv, WindowsAre
  <2>3. DOMAIN tableCache = 1 .. Len(tableCache) /\ DOMAIN windowCache = 1 .. Len(windowCache)
    BY <2>1, <2>2
  <2>4. ASSUME NEW e \in ToSet(tableCache) PROVE HoldsRides(e.object, e.start, e.rows)
    <3>1. Holds(schedules[e.object], feeds[e.object], e.start, e.rows)
      BY <2>1, <2>4 DEF IsAnswer
    <3> QED BY <3>1, HoldsIs
  <2>5. ASSUME NEW e \in ToSet(windowCache)
        PROVE  Contains(tableCache, e.table) /\ e.key.id = ArtifactId(e.object)
    <3>1. \E i \in 1 .. Len(tableCache) : tableCache[i] = e.table
      BY <2>1, <2>2, <2>5, EntriesFinite
    <3> QED BY <2>2, <2>5, <3>1 DEF Contains, ArtifactId, Id
  <2>6. ASSUME NEW e \in serviceIds, NEW o \in DOMAIN schedules, ArtifactId(o) = e.id
        PROVE  e.services = {s \in Services :
                  Runs(feeds[o], s, e.date) /\ e.date \in schedules[o].firstDate .. schedules[o].lastDate}
    <3>1. PICK p \in DOMAIN schedules :
             /\ schedules[p] # Rejected /\ e.id = Id(feeds, p)
             /\ e.services = ActiveServices(schedules[p], e.date)
      BY <2>6 DEF WindowInv, ServicesAre
    <3>2. Id(feeds, o) = Id(feeds, p)
      BY <2>6, <3>1 DEF ArtifactId, Id
    <3>3. schedules[o] = schedules[p] /\ feeds[o] = feeds[p]
      <4>1. \A h \in DOMAIN schedules : \A j \in DOMAIN schedules :
              Id(feeds, h) = Id(feeds, j) => schedules[h] = schedules[j] /\ feeds[h] = feeds[j]
        BY SameArtifact DEF WindowInv
      <4> QED BY <2>6, <3>2, <4>1
    <3>4. IsCompiled(feeds[o], schedules[o])
      BY <3>1, <3>3, LoadedFacts DEF WindowInv
    <3> QED BY <3>1, <3>3, <3>4, ActiveServicesRun
  <2> QED BY <2>1, <2>2, <2>3, <2>4, <2>5, <2>6 DEF CachesAreFresh
<1> QED BY <1>1, WindowInvariant, PTL

-------------------------------------------------------------------------------
(* What the router may assume of a window.                                 *)

\* Router, for any areas and row numbers: a row without continuation has 0, as
\* in the code, and the horizon is Day.  Only its constant operators are used.
Scan(areas, numbers) == INSTANCE Router WITH
  Areas <- areas, Rows <- numbers, NoRow <- 0, NoEdge <- 0, Horizon <- Day, ChangeTime <- 0,
  Networks <- {}, network <- 0, unseeded <- 0, bucket <- 0, open <- FALSE, arrival <- 0,
  ready <- 0, edge <- 0, authorized <- 0, taken <- 0, queue <- 0

\* The areas that the connections of a schedule join.
AreasOf(a) ==
  {a.connections[i].from : i \in DOMAIN a.connections}
    \cup {a.connections[i].to : i \in DOMAIN a.connections}

\* The compact connection table as the scan reads it, column by column
\* (router.ts:748).
Columns(a, rs) ==
  LET c(r) == a.connections[rs[r].source]
  IN  [from |-> [r \in DOMAIN rs |-> c(r).from], to |-> [r \in DOMAIN rs |-> c(r).to],
       departure |-> [r \in DOMAIN rs |-> rs[r].departure],
       arrival |-> [r \in DOMAIN rs |-> rs[r].arrival],
       pickup |-> [r \in DOMAIN rs |-> c(r).pickup],
       dropOff |-> [r \in DOMAIN rs |-> c(r).dropOff],
       next |-> [r \in DOMAIN rs |-> rs[r].continuation]]

\* What Router assumes of the tables it scans.
IsScannable(a, rs) ==
  /\ Columns(a, rs) \in Scan(AreasOf(a), DOMAIN rs)!Timetable
  /\ Scan(AreasOf(a), DOMAIN rs)!Chronological(Columns(a, rs))

\* The window a search is given can be scanned.
ScannableWindow ==
  window # NoWindow =>
    \A a \in {schedules[window.object]}, rs \in {window.rows} : IsScannable(a, rs)

\* A connection and the next of its trip.
LEMMA ConnectionsJoin ==
  ASSUME NEW f, HasTrips(f), NEW c \in AllConnections(f)
  PROVE  /\ c.pickup \in BOOLEAN /\ c.dropOff \in BOOLEAN
         /\ \A d \in AllConnections(f) : d.trip = c.trip /\ d.visit = c.visit + 1 =>
              d.from = c.to /\ c.departure <= d.departure /\ c.arrival <= d.arrival
<1>1. /\ c.trip \in Trips /\ c.visit \in 1 .. Visits(f, c.trip) - 1 /\ c.visit \in Nat
      /\ c = Connection(f, c.trip, c.visit)
  BY ConnectionType
<1>2. c.pickup \in BOOLEAN /\ c.dropOff \in BOOLEAN /\ c.to = Visit(f.stopTimes[c.trip], c.visit + 1).area
  <2> DEFINE A == Visit(f.stopTimes[c.trip], c.visit)  B == Visit(f.stopTimes[c.trip], c.visit + 1)
  <2>1. /\ Connection(f, c.trip, c.visit).pickup = A.pickup
        /\ Connection(f, c.trip, c.visit).dropOff = B.dropOff
        /\ Connection(f, c.trip, c.visit).to = B.area
    BY DEF Connection
  <2>2. A.pickup \in BOOLEAN /\ B.dropOff \in BOOLEAN
    BY DEF Visit
  <2> HIDE DEF A
  <2> QED BY <1>1, <2>1, <2>2
<1>3. ASSUME NEW d \in AllConnections(f), d.trip = c.trip, d.visit = c.visit + 1
      PROVE  d.from = c.to /\ c.departure <= d.departure /\ c.arrival <= d.arrival
  <2>1. d.visit \in 1 .. Visits(f, c.trip) - 1 /\ d = Connection(f, c.trip, d.visit)
    BY <1>3, ConnectionType
  <2>2. d.from = Visit(f.stopTimes[c.trip], d.visit).area
    BY <2>1 DEF Connection
  <2>3. c.visit < d.visit
    BY <1>1, <1>3
  <2>4. /\ Connection(f, c.trip, c.visit).departure <= Connection(f, c.trip, d.visit).departure
        /\ Connection(f, c.trip, c.visit).arrival <= Connection(f, c.trip, d.visit).arrival
    BY <1>1, <2>1, <2>3, ConnectionFacts
  <2> QED BY <1>1, <1>2, <1>3, <2>1, <2>2, <2>4
<1> QED BY <1>2, <1>3

\* A finished or unfinished table of a compiled schedule can be scanned.
LEMMA TableIsScannable ==
  ASSUME NEW f, NEW a, IsParsed(f), IsCompiled(f, a), NEW start \in Int, NEW rs, IsTable(a, start, rs)
  PROVE  IsScannable(a, rs)
<1> DEFINE cs == a.connections
           n == Len(rs)
           t == Columns(a, rs)
<1>1. /\ IsTimetable(cs) /\ HasTrips(f) /\ cs = Connections(f)
  BY CompiledBounds DEF IsCompiled
<1>2. /\ n \in Nat /\ DOMAIN rs = 1 .. n
      /\ \A r \in 1 .. n :
           /\ rs[r].source \in Int /\ rs[r].date \in Dates
           /\ rs[r].departure \in Int /\ rs[r].arrival \in Int /\ rs[r].continuation \in Int
           /\ rs[r].source \in Fits(a, start, rs[r].date)
  BY TableFacts
<1>3. Day \in Nat
  BY ScheduleAssumption
<1>4. ASSUME NEW r \in 1 .. n
      PROVE  /\ rs[r].source \in 1 .. Len(cs)
             /\ cs[rs[r].source] \in AllConnections(f)
             /\ rs[r].departure \in 0 .. Day /\ rs[r].arrival \in 0 .. Day
             /\ rs[r].departure <= rs[r].arrival
  <2> DEFINE x == rs[r].source  d == rs[r].date  A == Anchor[d]
  <2>1. d \in Dates /\ x \in Fits(a, start, d) /\ A \in Int
    BY <1>2, <1>4, AnchorsIncrease
  <2>2. x \in 1 .. Len(cs) /\ x \in Span(a, start, d)
    BY <1>1, <2>1, SpanFacts
  <2>3. /\ cs[x].departure \in Nat /\ cs[x].arrival \in Nat /\ cs[x].departure <= cs[x].arrival
    BY <1>1, <2>2 DEF IsTimetable
  <2>4. cs[x] \in AllConnections(f)
    BY <1>1, <2>2, ConnectionsAreSorted
  <2>5. start - A <= cs[x].departure /\ A + cs[x].arrival <= start + Day
    <3>1. cs[x].departure \in start - A .. start + Day - A
      BY <2>2 DEF Span
    <3>2. A + cs[x].arrival <= start + Day
      BY <2>1 DEF Fits
    <3> QED BY <1>3, <2>1, <2>3, <3>1, <3>2
  <2>6. rs[r].departure = A + cs[x].departure - start /\ rs[r].arrival = A + cs[x].arrival - start
    BY <1>4 DEF IsTable
  <2> HIDE DEF x, d, A
  <2>7. /\ 0 <= rs[r].departure /\ rs[r].departure <= rs[r].arrival /\ rs[r].arrival <= Day
        /\ rs[r].departure \in Int /\ rs[r].arrival \in Int
    <3> DEFINE g == cs[x].departure  h == cs[x].arrival
    <3>1. /\ g \in Int /\ h \in Int /\ g <= h /\ start - A <= g /\ A + h <= start + Day
          /\ rs[r].departure = A + g - start /\ rs[r].arrival = A + h - start
      BY <2>3, <2>5, <2>6
    <3> HIDE DEF g, h
    <3> QED BY <1>3, <2>1, <3>1
  <2>8. rs[r].departure \in 0 .. Day /\ rs[r].arrival \in 0 .. Day
    BY <1>3, <2>7
  <2> QED BY <2>2, <2>4, <2>7, <2>8 DEF x
<1>5. ASSUME NEW r \in 1 .. n, rs[r].continuation # 0
      PROVE  LET q == rs[r].continuation
             IN  /\ q \in 1 .. n /\ q # r
                 /\ cs[rs[q].source].from = cs[rs[r].source].to
                 /\ rs[r].departure <= rs[q].departure /\ rs[r].arrival <= rs[q].arrival
  <2> DEFINE q == rs[r].continuation
             x == rs[r].source  y == rs[q].source
  <2>1. q \in r + 1 .. n /\ q \in NextRows(cs, rs, r)
    BY <1>5 DEF IsTable
  <2>2. q \in 1 .. n /\ q # r
    BY <1>2, <2>1
  <2>3. rs[q].date = rs[r].date /\ cs[y].trip = cs[x].trip /\ cs[y].visit = cs[x].visit + 1
    BY <2>1 DEF NextRows
  <2>4. cs[x] \in AllConnections(f) /\ cs[y] \in AllConnections(f)
    BY <1>4, <2>2
  <2>5. cs[y].from = cs[x].to /\ cs[x].departure <= cs[y].departure /\ cs[x].arrival <= cs[y].arrival
    BY <1>1, <2>3, <2>4, ConnectionsJoin
  <2>6. /\ Anchor[rs[r].date] \in Int
        /\ cs[x].departure \in Int /\ cs[x].arrival \in Int
        /\ cs[y].departure \in Int /\ cs[y].arrival \in Int
    BY <1>1, <1>2, <1>4, <2>2, AnchorsIncrease DEF IsTimetable
  <2>7. /\ rs[r].departure = Anchor[rs[r].date] + cs[x].departure - start
        /\ rs[r].arrival = Anchor[rs[r].date] + cs[x].arrival - start
        /\ rs[q].departure = Anchor[rs[r].date] + cs[y].departure - start
        /\ rs[q].arrival = Anchor[rs[r].date] + cs[y].arrival - start
    BY <2>2, <2>3 DEF IsTable
  <2> HIDE DEF q, x, y
  <2>8. rs[r].departure <= rs[q].departure /\ rs[r].arrival <= rs[q].arrival
    <3> DEFINE A == Anchor[rs[r].date]
               g == cs[x].departure  h == cs[x].arrival  i == cs[y].departure  j == cs[y].arrival
    <3>1. /\ A \in Int /\ g \in Int /\ h \in Int /\ i \in Int /\ j \in Int /\ g <= i /\ h <= j
          /\ rs[r].departure = A + g - start /\ rs[r].arrival = A + h - start
          /\ rs[q].departure = A + i - start /\ rs[q].arrival = A + j - start
      BY <2>5, <2>6, <2>7
    <3> HIDE DEF A, g, h, i, j
    <3> QED BY <3>1
  <2> QED BY <2>2, <2>5, <2>8 DEF q, x, y
<1>6. /\ t.from = [r \in 1 .. n |-> cs[rs[r].source].from]
      /\ t.to = [r \in 1 .. n |-> cs[rs[r].source].to]
      /\ t.departure = [r \in 1 .. n |-> rs[r].departure]
      /\ t.arrival = [r \in 1 .. n |-> rs[r].arrival]
      /\ t.pickup = [r \in 1 .. n |-> cs[rs[r].source].pickup]
      /\ t.dropOff = [r \in 1 .. n |-> cs[rs[r].source].dropOff]
      /\ t.next = [r \in 1 .. n |-> rs[r].continuation]
      /\ t = [from |-> t.from, to |-> t.to, departure |-> t.departure, arrival |-> t.arrival,
              pickup |-> t.pickup, dropOff |-> t.dropOff, next |-> t.next]
  BY <1>2 DEF Columns
<1> HIDE DEF t
<1>7. t \in Scan(AreasOf(a), 1 .. n)!Timetable
  <2>1. \A r \in 1 .. n : cs[rs[r].source].from \in AreasOf(a) /\ cs[rs[r].source].to \in AreasOf(a)
    BY <1>1, <1>4 DEF AreasOf, IsTimetable
  <2>2. t.from \in [1 .. n -> AreasOf(a)] /\ t.to \in [1 .. n -> AreasOf(a)]
    BY <1>6, <2>1
  <2>3. t.departure \in [1 .. n -> 0 .. Day] /\ t.arrival \in [1 .. n -> 0 .. Day]
    BY <1>4, <1>6
  <2>4. t.pickup \in [1 .. n -> BOOLEAN] /\ t.dropOff \in [1 .. n -> BOOLEAN]
    BY <1>1, <1>4, <1>6, ConnectionsJoin
  <2>5. t.next \in [1 .. n -> (1 .. n) \cup {0}]
    BY <1>5, <1>6
  <2> HIDE DEF cs, n
  <2> QED BY <1>6, <2>2, <2>3, <2>4, <2>5 DEF Scan!Timetable, Scan!Times
<1>8. Scan(AreasOf(a), 1 .. n)!Chronological(t)
  <2>1. ASSUME NEW r \in 1 .. n
        PROVE  /\ t.departure[r] <= t.arrival[r]
               /\ t.next[r] # 0 =>
                    /\ t.next[r] # r /\ t.from[t.next[r]] = t.to[r]
                    /\ t.departure[r] <= t.departure[t.next[r]]
                    /\ t.arrival[r] <= t.arrival[t.next[r]]
    <3>1. t.departure[r] <= t.arrival[r]
      BY <1>4, <1>6
    <3>2. ASSUME t.next[r] # 0
          PROVE  /\ t.next[r] # r /\ t.from[t.next[r]] = t.to[r]
                 /\ t.departure[r] <= t.departure[t.next[r]]
                 /\ t.arrival[r] <= t.arrival[t.next[r]]
      <4>1. t.next[r] = rs[r].continuation /\ rs[r].continuation # 0
        BY <1>6, <3>2
      <4>2. rs[r].continuation \in 1 .. n
        BY <1>5, <4>1
      <4> HIDE DEF n, cs
      <4> QED BY <1>5, <1>6, <4>1, <4>2 DEF cs
    <3> QED BY <3>1, <3>2
  <2> HIDE DEF n
  <2> QED BY <2>1 DEF Scan!Chronological
<1> QED BY <1>2, <1>7, <1>8 DEF IsScannable, t

\* What the router assumes of its timetables, the compiler and the window
\* provide: the table of every window is well typed and chronological, on every
\* reachable state and for every feed (gtfs.ts:677, router.ts:616).
THEOREM WindowIsScannable == WindowSpec => []ScannableWindow
<1>1. WindowInv => ScannableWindow
  <2> SUFFICES ASSUME WindowInv, window # NoWindow, NEW a, NEW rs,
                      a = schedules[window.object], rs = window.rows
               PROVE  IsScannable(a, rs)
    BY DEF ScannableWindow
  <2>1. /\ window.object \in DOMAIN schedules /\ schedules[window.object] # Rejected
        /\ IsTable(schedules[window.object], window.start, window.rows) /\ window.start \in Int
    BY DEF WindowInv, WindowIs, IsAnswer
  <2>2. IsParsed(feeds[window.object]) /\ IsCompiled(feeds[window.object], schedules[window.object])
    BY <2>1, LoadedFacts DEF WindowInv
  <2> QED BY <2>1, <2>2, TableIsScannable
<1> QED BY <1>1, WindowInvariant, PTL
===============================================================================
