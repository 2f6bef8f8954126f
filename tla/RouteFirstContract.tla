------------------------- MODULE RouteFirstContract -------------------------
(***************************************************************************)
(* What becomes of a route-first result on its way to the map.  The job    *)
(* store turns it into wire values and publishes it only if the contract   *)
(* the client will check admits it (lib/domain/route-first/job-cache.ts,   *)
(* client-contract.ts); the contract computes the corridors again from     *)
(* the journeys.  The map draws one family of a published meeting          *)
(* (lib/client/route-first-map-evidence.ts).                               *)
(* Identities (snapshots, fingerprints, contexts) are copied, so a result  *)
(* of a well-formed request carries those of its job.                      *)
(*                                                                         *)
(* Beside what the service reads, a request has                            *)
(*   fingerprints  the length of the text of each participant's graph,     *)
(*                 which a certificate copies;                             *)
(*   terse         whether the contract takes every other text (names,     *)
(*                 numbers, policies, the whole envelope);                 *)
(*   place         where the vertices of the graphs lie, on one axis, and  *)
(*                 in its topology those of the topology.  A leg between   *)
(*                 two vertices at one place is a wait, or a way around.   *)
(***************************************************************************)
EXTENDS RouteFirstService

CONSTANTS
    MaxClientArray,         \* MAX_CLIENT_ARRAY
    MaxIdParts,             \* the parts of a component whose id fits into id()
    MaxFingerprint          \* the longest text that fits into stringValue()

\* The certificates of enumerations.
Certificates ==
    [complete : BOOLEAN, statesVisited : Nat, edgeTransitions : Nat, pathsEmitted : Nat,
     maxSimplePathStateBound : Nat, parallelEdgeFactor : Nat, workBudget : Nat \cup {None}, workUnits : Nat]

ASSUME ContractAssumption ==
    /\ MaxJourneys \in Nat /\ MaxClientArray \in Nat /\ MaxJourneys <= MaxClientArray
    /\ MaxIdParts <= MaxClientArray
    /\ \A r \in Requests : r.wellFormed => Cardinality(RelevantEdges(r.topology)) <= MaxClientArray
    /\ None \notin Certificates

VARIABLE published          \* the status of the job's envelope, None until it is decided

contractVars == <<vars, published>>

Met == {"complete", "no-eligible-target"}

-----------------------------------------------------------------------------
(* The contract.  Each part is a check of validateResult. *)

CertificateAdmitted(certificate) ==
    /\ certificate.parallelEdgeFactor >= 1
    /\ certificate.workUnits = certificate.statesVisited + certificate.edgeTransitions
    /\ certificate.pathsEmitted <= certificate.statesVisited
    /\ certificate.statesVisited <= certificate.maxSimplePathStateBound
    /\ ~certificate.complete => certificate.workBudget = certificate.workUnits
    /\ certificate.workBudget # None => certificate.workUnits <= certificate.workBudget

FingerprintFits(p) == request.fingerprints[p] <= MaxFingerprint

EnumerationsAdmitted(result) ==
    /\ Len(result.enumerations) <= Len(request.queries)
    /\ result.status \in Met => Len(result.enumerations) = Len(request.queries)
    /\ \A i \in DOMAIN result.enumerations :
          LET evidence == result.enumerations[i]
          IN  IF evidence.certificate = None THEN evidence.status = "unavailable"
              ELSE /\ CertificateAdmitted(evidence.certificate) /\ FingerprintFits(i)
                   /\ evidence.certificate.complete <=> evidence.status = "complete"

\* The vertices of a journey, from its edges.
VerticesOf(j) ==
    LET graph == request.queries[j.who].graph
    IN  <<graph.from[j.edges[1]]>> \o [i \in DOMAIN j.edges |-> graph.to[j.edges[i]]]

\* Its vertices, and so its edges, occurrences and segments.
JourneyFits(j) == Len(j.edges) + 1 <= MaxClientArray

JourneysAdmitted(result) ==
    /\ Cardinality(result.journeys) \in Len(request.queries) .. MaxClientArray
    /\ \A j \in result.journeys : ValidJourney(Legs(j)) /\ IsInjective(VerticesOf(j)) /\ JourneyFits(j)
    /\ \A i \in DOMAIN result.enumerations :
          result.enumerations[i].status = "complete" =>
              result.enumerations[i].certificate.pathsEmitted
                  = Cardinality({j \in result.journeys : j.who = i})

\* recomputeClientCorridor: the leg of the middle is the first that has not
\* ended before it, and the last one if there is none.  (A mutant takes the
\* first that ends after it.)
FirstLeg(legs, leg(_)) ==
    LET found == {i \in 1 .. legs : leg(i)}
    IN  IF found = {} THEN legs ELSE CHOOSE i \in found : \A k \in found : i <= k

LegEndingAfter(times, tau) == FirstLeg(Len(times) - 1, LAMBDA i : Less(tau, times[i + 1]))
LegAt(times, tau) == FirstLeg(Len(times) - 1, LAMBDA i : AtMost(tau, times[i + 1]))

recomputeClientCorridor(j) ==
    LET times == TimesOf(j)
        legs == Len(times) - 1
        duration == Minus(times[legs + 1], times[1])
        middle == Plus(times[1], Over(duration, <<2, 1>>))
        leg == LegAt(times, middle)
        margin == Over(Times(duration, request.tolerance), <<200, 1>>)
    IN  [middle |-> middle,
         position |-> [leg |-> leg,
                       fraction |-> Over(Minus(middle, times[leg]), Minus(times[leg + 1], times[leg]))],
         exact |-> [start |-> Higher(times[1], Minus(middle, margin)),
                    end |-> Lower(times[legs + 1], Plus(middle, margin))]]

\* A point that repeats the one before it is not added.
Distinct(points) ==
    LET changes == SelectSeq([k \in DOMAIN points |-> k], LAMBDA k : k = 1 \/ points[k] # points[k - 1])
    IN  [k \in DOMAIN changes |-> points[changes[k]]]

clientJourneyGeometry(j) ==
    LET vertices == VerticesOf(j) IN Distinct([i \in DOMAIN vertices |-> request.place[vertices[i]]])

\* The lines of the alternates, in one array: two points at least.
EnvelopeFits(alternates) ==
    alternates # {} =>
        FoldFunction(+, 0, [k \in alternates |-> Len(clientJourneyGeometry(k))]) \in 2 .. MaxClientArray

CorridorAdmitted(result, j) ==
    LET corridor == result.corridors[j]
        recomputed == recomputeClientCorridor(j)
        alternates == DOMAIN corridor.constituents \ {j}
        exact(k) == recomputeClientCorridor(k).exact
    IN  /\ corridor.middle = recomputed.middle
        /\ corridor.position = recomputed.position
        /\ corridor.exact = recomputed.exact
        /\ alternates \subseteq {k \in result.journeys : k.who = j.who}
        /\ \A k \in alternates : corridor.constituents[k] = exact(k)
        /\ corridor.envelope = <<>> <=> alternates = {}
        /\ EnvelopeFits(alternates)
        /\ alternates # {} =>
              LET envelope == corridor.envelope[1]
                  all == {exact(k) : k \in {j} \cup alternates}
              IN  /\ envelope.start \in {i.start : i \in all} /\ envelope.end \in {i.end : i \in all}
                  /\ \A i \in all : AtMost(envelope.start, i.start) /\ AtMost(i.end, envelope.end)

UnitInterval(i) == AtMost(Zero, i.start) /\ AtMost(i.start, i.end) /\ AtMost(i.end, One)

RegionFits(region) ==
    Cardinality(region.intervals) <= MaxClientArray /\ Cardinality(region.points) <= MaxClientArray

\* The intervals come in order: each starts where the one before it has ended.
RegionAdmitted(region) ==
    /\ RegionFits(region)
    /\ \A i \in region.intervals :
          /\ UnitInterval(i)
          /\ \A other \in region.intervals \ {i} : AtMost(i.end, other.start) \/ AtMost(other.end, i.start)
    /\ \A t \in region.points : AtMost(Zero, t) /\ AtMost(t, One)

IdParts(component) == Cardinality(component.intervals) + Cardinality(component.vertices)

ComponentAdmitted(result, component) ==
    /\ IdParts(component) <= MaxIdParts
    /\ \A part \in component.intervals :
          part.edge \in DOMAIN result.regions /\ UnitInterval(part.interval)

\* (Every family has the components and the edges of the result.)
FamiliesAdmitted(result) ==
    /\ \A f, g \in DOMAIN result.families : f # g => result.families[f] \cap result.families[g] = {}
    /\ IF result.status = "complete"
       THEN /\ DOMAIN result.families # {}
            /\ UNION {result.families[f] : f \in DOMAIN result.families} = result.journeys
       ELSE DOMAIN result.families = {}

LandmarksAdmitted(result) ==
    /\ ~result.evaluated => result.landmarks = {}
    /\ result.admitted \subseteq result.landmarks
    /\ \A i \in result.admitted :
          request.landmarks[i].vertex \in UNION {c.vertices : c \in result.components}

\* assertRouteFirstClientJobEnvelope of the converted result.
Admits(result) ==
    /\ EnumerationsAdmitted(result)
    /\ result.status \in Met =>
          /\ JourneysAdmitted(result)
          /\ DOMAIN result.corridors = result.journeys
          /\ \A j \in result.journeys : CorridorAdmitted(result, j)
          /\ DOMAIN result.regions # {} /\ Cardinality(DOMAIN result.regions) <= MaxClientArray
          /\ \A e \in DOMAIN result.regions : RegionAdmitted(result.regions[e])
          /\ Cardinality(result.components) <= MaxClientArray
          /\ result.components = {} <=> result.status = "no-eligible-target"
          /\ \A c \in result.components : ComponentAdmitted(result, c)
          /\ FamiliesAdmitted(result)
          /\ LandmarksAdmitted(result)

-----------------------------------------------------------------------------
\* internalResultMatches: a result the contract refuses becomes a failure.
\* That of a request that is not well formed may be refused for its identities,
\* and that of one that is not terse for a text.
Publish ==
    /\ phase = "done" /\ published = None
    /\ \/ Admits(outcome) /\ published' = outcome.status
       \/ ~(Admits(outcome) /\ request.wellFormed /\ request.terse) /\ published' = "failed"
    /\ UNCHANGED vars

ContractInit == Init /\ published = None
ContractNext == (Next /\ UNCHANGED published) \/ Publish
ContractSpec == ContractInit /\ [][ContractNext]_contractVars

-----------------------------------------------------------------------------
(* The map. *)

At(j, leg, fraction) ==
    LET vertices == VerticesOf(j)
    IN  Between(<<request.place[vertices[leg]], 1>>, <<request.place[vertices[leg + 1]], 1>>, fraction)

\* The corridor's part of a leg, and the legs of which it has a part.
Overlap(times, exact, i) ==
    Interval(Higher(exact.start, times[i]), Lower(exact.end, times[i + 1]))

Crossed(times, exact) ==
    {i \in 1 .. Len(times) - 1 : Less(Overlap(times, exact, i).start, Overlap(times, exact, i).end)}

\* The ends of the overlaps as points, those of the given legs in order.
LinePoints(j, times, exact, crossed) ==
    FlattenSeq([k \in DOMAIN crossed |->
        LET i == crossed[k]
            fraction(t) == Over(Minus(t, times[i]), Minus(times[i + 1], times[i]))
        IN  <<At(j, i, fraction(Overlap(times, exact, i).start)),
              At(j, i, fraction(Overlap(times, exact, i).end))>>])

\* The overlaps meet, and the last ends with the corridor.
Joined(times, exact, crossed) ==
    /\ crossed # <<>>
    /\ \A k \in DOMAIN crossed :
          Overlap(times, exact, crossed[k]).end =
              IF k = Len(crossed) THEN exact.end ELSE Overlap(times, exact, crossed[k + 1]).start

\* intervalGeometry: the corridor's part of each leg, one after the other; no
\* line if it is empty, or does not end with the corridor.
Line(j, times, exact, crossed) ==
    IF Less(exact.start, exact.end) /\ Joined(times, exact, crossed)
    THEN Distinct(LinePoints(j, times, exact, crossed)) ELSE <<>>

intervalGeometry(j, exact) ==
    Line(j, TimesOf(j), exact, SetToSortSeq(Crossed(TimesOf(j), exact), <))

\* fairRegionContainsInterval; a part that is not contained is not drawn.  The
\* first, a mutant, forgets the region's points.
IntervalContains(region, interval) ==
    \E i \in region.intervals : AtMost(i.start, interval.start) /\ AtMost(interval.end, i.end)

RegionContains(region, interval) ==
    \/ IntervalContains(region, interval)
    \/ interval.start = interval.end /\ interval.start \in region.points

\* The edge leads from one place to another.
Extends(topology, e) == topology.place[topology.edges[e].from] # topology.place[topology.edges[e].to]

\* A part is drawn as a line or, if it is a point, as a point.
DrawnParts(result) ==
    {part \in UNION {c.intervals : c \in result.components} :
        /\ RegionContains(result.regions[part.edge], part.interval)
        /\ Extends(request.topology, part.edge) \/ part.interval.start = part.interval.end}

\* buildRouteFirstMapEvidence of a family: it fails if a journey or a corridor
\* has no line.
Drawn(result, f) ==
    LET lines == [j \in result.families[f] |-> intervalGeometry(j, result.corridors[j].exact)]
    IN  IF \E j \in DOMAIN lines : Len(clientJourneyGeometry(j)) < 2 \/ Len(lines[j]) < 2 THEN None
        ELSE [corridors |-> lines,
              midpoints |-> [j \in DOMAIN lines |->
                  At(j, result.corridors[j].position.leg, result.corridors[j].position.fraction)],
              parts |-> DrawnParts(result)]

-----------------------------------------------------------------------------
(* Properties. *)

\* The result fits into the contract's sizes, which are not the service's.
FingerprintsFit(result) ==
    \A i \in DOMAIN result.enumerations : result.enumerations[i].certificate # None => FingerprintFits(i)

MeetingFits(result) ==
    /\ \A j \in result.journeys : JourneyFits(j) /\ EnvelopeFits(request.alternates[j])
    /\ \A e \in DOMAIN result.regions : RegionFits(result.regions[e])
    /\ Cardinality(result.components) <= MaxClientArray
    /\ \A c \in result.components : IdParts(c) <= MaxIdParts

Fits(result) == FingerprintsFit(result) /\ (result.status \in Met => MeetingFits(result))

\* The result of a well-formed request is published as it is if it fits into
\* the contract's sizes, and only then: whatever else the contract computes
\* again, counts and compares agrees with what the service computes, in every
\* outcome (client-contract.ts:336, job-cache.ts:262).
PublishedAsEvaluated ==
    published # None /\ request.wellFormed /\ request.terse =>
        published = IF Fits(outcome) THEN outcome.status ELSE "failed"

\* A family of a published meeting can be drawn exactly if the corridor of each
\* of its journeys takes time and moves.  Then the line of a corridor leads
\* from where the journey is at the corridor's start, through its midpoint, to
\* where it is at the end, and no part of a component is left out but a stretch
\* of an edge between two vertices at one place
\* (route-first-map-evidence.ts:148, 272, 282).
Moves(j, exact) ==
    LET graph == request.queries[j.who].graph
        times == TimesOf(j)
    IN  \E i \in DOMAIN j.edges :
            /\ request.place[graph.from[j.edges[i]]] # request.place[graph.to[j.edges[i]]]
            /\ Less(times[i], exact.end) /\ Less(exact.start, times[i + 1])

PositionAt(j, tau) ==
    LET position == journeyPositionAt(TimesOf(j), tau) IN At(j, position.leg, position.fraction)

LiesOn(point, line) ==
    \E k \in 2 .. Len(line) :
        /\ AtMost(Lower(line[k - 1], line[k]), point)
        /\ AtMost(point, Higher(line[k - 1], line[k]))

DrawnWhole ==
    published = "complete" =>
        \A f \in DOMAIN outcome.families :
            LET drawn == Drawn(outcome, f)
                exact(j) == outcome.corridors[j].exact
                family == outcome.families[f]
            IN  /\ drawn # None <=> request.tolerance # Zero /\ \A j \in family : Moves(j, exact(j))
                /\ drawn # None =>
                      /\ \A j \in family :
                            LET line == drawn.corridors[j]
                            IN  /\ line[1] = PositionAt(j, exact(j).start)
                                /\ line[Len(line)] = PositionAt(j, exact(j).end)
                                /\ LiesOn(drawn.midpoints[j], line)
                      /\ \A part \in UNION {c.intervals : c \in outcome.components} :
                            \/ part \in drawn.parts
                            \/ ~Extends(request.topology, part.edge) /\ part.interval.start # part.interval.end

\* A part of an edge, the vertices it reaches, and parts that hold together:
\* wherever they are cut in two, the sides reach a vertex in common.
PartOf(f) == [edge |-> f.edge, interval |-> f.interval]
EndsOf(topology, part) == endpointVertexIds(topology.edges[part.edge], part.interval)

HoldTogether(topology, parts) ==
    \A S \in (SUBSET parts) \ {{}, parts} :
        \E a \in S, b \in parts \ S : EndsOf(topology, a) \cap EndsOf(topology, b) # {}

\* The stretches where all can meet fall into the components: each is part of
\* exactly one, a component holds together and reaches the vertices its parts
\* reach, or is one vertex by itself, and two components share no vertex, with
\* landmarks and without (topology.ts:228, 257, meeting-service.ts:875).
ComponentsHoldTogether ==
    outcome.status \in Met =>
        LET topology == request.topology
            stretches == {PartOf(f) : f \in Fragments(topology, outcome.regions, request.access)}
        IN  /\ UNION {c.intervals : c \in outcome.components} = stretches
            /\ \A c \in outcome.components :
                  /\ HoldTogether(topology, c.intervals)
                  /\ \/ c.vertices = UNION {EndsOf(topology, part) : part \in c.intervals}
                     \/ c.intervals = {} /\ \E v \in c.vertices : c.vertices = {v}
                  /\ c.vertices \subseteq topology.meetingVertices
            /\ \A c, d \in outcome.components : c # d =>
                  c.vertices \cap d.vertices = {} /\ c.intervals \cap d.intervals = {}

\* The components of a meeting are the places where one can meet, exactly.  At
\* every sampled point of an edge: it is part of a component if and only if it
\* is fair, legal and accessible to all, and not on a stretch that reaches a
\* vertex where one may not meet.  They fall into components that hold together
\* (topology.ts:189, fairness.ts:243).
Samples == {Rat(n, 24) : n \in 0 .. 24}

Suitable(e, t) ==
    /\ toleranceSatisfied(request.profiles[e], t, request.tolerance)
    /\ \E i \in ToSet(request.topology.edges[e].legal) : Within(t, i)
    /\ \A p \in Participants : \E i \in request.access[p][e] : Within(t, i)

\* The samples from t to u are all suitable.
Reaches(e, t, u) ==
    \A x \in Samples : Within(x, Interval(Lower(t, u), Higher(t, u))) => Suitable(e, x)

Dropped(e, t) ==
    LET edge == request.topology.edges[e]
    IN  \/ edge.from \notin request.topology.meetingVertices /\ Reaches(e, Zero, t)
        \/ edge.to \notin request.topology.meetingVertices /\ Reaches(e, One, t)

MeetingPlacesAreExact ==
    /\ ComponentsHoldTogether
    /\ outcome.status \in Met =>
          \A e \in Relevant : \A t \in Samples :
              (\E c \in outcome.components : \E part \in c.intervals : part.edge = e /\ Within(t, part.interval))
                  <=> Suitable(e, t) /\ ~Dropped(e, t)
=============================================================================
