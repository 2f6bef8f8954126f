------------------------- MODULE RouteFirstService -------------------------
(***************************************************************************)
(* The evaluation of a route-first meeting request                         *)
(* (lib/domain/route-first/meeting-service.ts).  For each participant the  *)
(* service asks a provider, which it does not trust, to enumerate the      *)
(* routes, and enumerates them again to verify the answer.  Then it        *)
(* accepts a request only if its journeys, families and alternates cover   *)
(* the certified paths exactly, and looks for the places where all can     *)
(* meet.  The enumeration runs step by step, as in RouteEnumeration; a     *)
(* provider answers anything.                                              *)
(***************************************************************************)
EXTENDS RouteEnumeration, TargetTopology, Corridors

CONSTANTS
    Requests,           \* the trusted requests to evaluate
    Calls,              \* queries of calls of the enumeration by itself
    MaxJourneys,        \* MAX_ROUTE_FIRST_JOURNEYS
    MaxAggregateWork    \* MAX_ROUTE_FIRST_AGGREGATE_WORK

Statuses == {"failed", "incomplete", "unavailable", "no-eligible-target", "complete"}

ASSUME ServiceAssumption ==
    /\ Calls \subseteq Queries
    /\ \A r \in Requests : r.queries \in Seq(Queries) /\ r.queries # <<>>
    /\ None \notin Requests /\ None \notin Statuses

(***************************************************************************)
(* A request: one query for each participant, the journeys it brings, the  *)
(* family of each path key, and the alternates that come as evidence for   *)
(* each journey; the target topology with everybody's profile, access and  *)
(* reach, and the vertices that are fair by evidence; the landmarks, and   *)
(* the least number of components that makes them unnecessary.  A journey  *)
(* and a path key are both a participant with the edges of a path: the     *)
(* journey's other data repeat the graph's.                                *)
(***************************************************************************)
VARIABLES
    request,
    phase,              \* "validate", "ask", "verify", "cover" or "done"; "alone"
                        \* if only the enumeration was called
    job,                \* the participant whose enumeration is evaluated
    certified,          \* the path keys of the verified enumerations
    enumerations,       \* the evidence for each participant so far
    outcome             \* the result of the service

serviceVars == <<request, phase, job, certified, enumerations, outcome>>
vars == <<serviceVars, enumVars>>

Participants == DOMAIN request.queries
Budget(p) == request.queries[p].policy.workBudget

NoOutcome == [status |-> None]
Outcome(status) == [status |-> status, enumerations |-> enumerations]
Decide(result) == outcome' = result /\ phase' = "done"

Init ==
    /\ job = 1 /\ certified = {} /\ enumerations = <<>> /\ outcome = NoOutcome
    /\ \/ request \in Requests /\ phase = "validate" /\ EnumInit(request.queries[1])
       \/ request = None /\ phase = "alone" /\ \E q \in Calls : EnumInit(q)

-----------------------------------------------------------------------------
\* routeFirstRequiredWorkBudget: each participant's enumeration runs twice,
\* each alternate's once more.
AlternatesOf(p) ==
    {pair \in request.journeys \X request.journeys :
        pair[1].who = p /\ pair[2] \in request.alternates[pair[1]]}

RequiredWorkBudget ==
    FoldSet(LAMBDA p, sum : sum + (2 + Cardinality(AlternatesOf(p))) * Budget(p),
            0, Participants)

\* A journey takes the times of its edges.
Legs(j) == [i \in DOMAIN j.edges |-> request.queries[j.who].graph.duration[j.edges[i]]]
TimesOf(j) == Elapsed(Legs(j))

Relevant == RelevantEdges(request.topology)

\* Every participant has a profile and an access on every relevant edge.
PlacesCovered ==
    /\ \A e \in Relevant : DOMAIN request.profiles[e] = Participants
    /\ \A p \in Participants : Relevant \subseteq DOMAIN request.access[p]

\* What validateRequest checks of identifiers, sizes, order and snapshots.
WellFormed == request.wellFormed

\* The checks of validateRequest between the parts of a request, and of the
\* parts the evaluation computes with.
Valid ==
    /\ WellFormed
    /\ RequiredWorkBudget <= MaxAggregateWork
    /\ request.journeys # {} /\ Cardinality(request.journeys) <= MaxJourneys
    /\ \A j \in request.journeys : ValidJourney(Legs(j))
    /\ ValidTopology(request.topology)
    /\ PlacesCovered
    /\ \E key \in DOMAIN request.family : request.family[key] # None

Validate ==
    /\ phase = "validate"
    /\ \/ Valid /\ phase' = "ask" /\ UNCHANGED outcome
       \/ ~WellFormed /\ Decide(Outcome("failed"))
       \/ ~Valid /\ Decide(Outcome("incomplete"))
    /\ UNCHANGED <<request, job, certified, enumerations, enumVars>>

\* provider.enumerateRoutes throws, or validateProviderResult refuses the shape
\* of the answer, its policy or its snapshot.
AskInVain ==
    /\ phase = "ask"
    /\ Decide(Outcome("failed"))
    /\ UNCHANGED <<request, job, certified, enumerations, enumVars>>

AskUnavailable ==
    /\ phase = "ask"
    /\ enumerations' = Append(enumerations, [status |-> "unavailable", certificate |-> None])
    /\ Decide([status |-> "unavailable", enumerations |-> enumerations'])
    /\ UNCHANGED <<request, job, certified, enumVars>>

\* The provider answers with paths and a certificate, and
\* verifyEnumerationCertificate starts to enumerate again.
Ask ==
    /\ phase = "ask"
    /\ phase' = "verify"
    /\ Begins(request.queries[job])
    /\ UNCHANGED <<request, job, certified, enumerations, outcome>>

Reenumerate == phase \in {"verify", "alone"} /\ Enumerate /\ UNCHANGED serviceVars

(***************************************************************************)
(* The comparison with the answer.  An answer claims a status, its paths   *)
(* are those found but the last `missing` ones, and its counters and       *)
(* bindings match or do not.  What it claims is chosen here: nothing       *)
(* looked at it before.                                                    *)
(***************************************************************************)
Claims == [status : {"complete", "incomplete"}, missing : 0 .. 1, matches : BOOLEAN]

Honest == [status |-> IF stopped THEN "incomplete" ELSE "complete",
           missing |-> 0, matches |-> TRUE]

ClaimedPaths(c) ==
    SubSeq(paths, 1, IF c.missing < Len(paths) THEN Len(paths) - c.missing ELSE 0)

CertificateOfCounters(c) ==
    /\ c.status = IF stopped THEN "incomplete" ELSE "complete"
    /\ c.matches
    /\ \A i \in 1 .. Len(paths) : LegalPath(query, paths[i])
    /\ statesVisited <= MaxSimplePathStateBound(query)
    /\ workUnits = statesVisited + edgeTransitions
    /\ stopped => workUnits = query.policy.workBudget

CertificateHolds(c) ==
    /\ c.status = IF stopped THEN "incomplete" ELSE "complete"
    /\ ClaimedPaths(c) = paths
    /\ c.matches
    /\ \A i \in 1 .. Len(paths) : LegalPath(query, paths[i])
    /\ \A i, j \in 1 .. Len(paths) : paths[i] = paths[j] => i = j
    /\ statesVisited <= MaxSimplePathStateBound(query)
    /\ workUnits = statesVisited + edgeTransitions
    /\ stopped => workUnits = query.policy.workBudget

\* What the certificate of an answer that holds says.
Certificate ==
    [complete |-> ~stopped, statesVisited |-> statesVisited, edgeTransitions |-> edgeTransitions,
     pathsEmitted |-> Len(paths), maxSimplePathStateBound |-> MaxSimplePathStateBound(query),
     parallelEdgeFactor |-> ParallelEdgeFactor(query.graph),
     workBudget |-> query.policy.workBudget, workUnits |-> workUnits]

Evidenced(status) == Append(enumerations, [status |-> status, certificate |-> Certificate])

PathKey(path) == [who |-> job, edges |-> path.edges]

Verifies(c) ==
    /\ phase = "verify" /\ Enumerated
    /\ Len(ClaimedPaths(c)) <= MaxJourneys
    /\ CertificateHolds(c)

\* No paths at all are refused only after the certificate is evidence.
VerifyRefuses(c) ==
    /\ phase = "verify" /\ Enumerated
    /\ \/ ~Verifies(c) /\ UNCHANGED enumerations
       \/ /\ Verifies(c) /\ c.status = "complete" /\ ClaimedPaths(c) = <<>>
          /\ enumerations' = Evidenced("complete")
    /\ Decide([status |-> "failed", enumerations |-> enumerations'])
    /\ UNCHANGED <<request, job, certified, enumVars>>

VerifyIncomplete(c) ==
    /\ Verifies(c) /\ c.status = "incomplete"
    /\ enumerations' = Evidenced("incomplete")
    /\ Decide([status |-> "incomplete", enumerations |-> enumerations'])
    /\ UNCHANGED <<request, job, certified, enumVars>>

VerifyComplete(c) ==
    /\ Verifies(c) /\ c.status = "complete" /\ ClaimedPaths(c) # <<>>
    /\ certified' = certified \cup {PathKey(p) : p \in ToSet(ClaimedPaths(c))}
    /\ enumerations' = Evidenced("complete")
    /\ \/ job < Len(request.queries) /\ phase' = "ask" /\ job' = job + 1
       \/ job = Len(request.queries) /\ phase' = "cover" /\ UNCHANGED job
    /\ UNCHANGED <<request, outcome, enumVars>>

-----------------------------------------------------------------------------
\* Every journey runs along a certified path, and every certified path has
\* its journey.
JourneysCover == request.journeys = certified

Siblings(key) ==
    {other \in DOMAIN request.family \ {key} :
        other.who = key.who /\ request.family[other] = request.family[key]}

\* Paths of one participant in one family are each other's alternates, and
\* the evidence names exactly those.
AlternatesCover ==
    /\ \A key \in DOMAIN request.family :
          request.family[key] # None /\ Siblings(key) # {} => key \in request.journeys
    /\ \A j \in request.journeys :
          request.alternates[j] = IF request.family[j] = None THEN {} ELSE Siblings(j)

\* Every certified path belongs to a family, and nothing else does.
FamiliesCover ==
    {key \in DOMAIN request.family : request.family[key] # None} = certified

-----------------------------------------------------------------------------
CorridorOf(j) == exactTemporalCorridor(j, request.alternates[j], [k \in request.journeys |-> TimesOf(k)],
                                       request.tolerance)
RegionOf(e) == allParticipantToleranceRegion(request.profiles[e], request.tolerance)

Landmarks == DOMAIN request.landmarks
WithLandmarks == request.evidence \o [i \in Landmarks |-> request.landmarks[i].vertex]

\* A landmark is for all participants, of the request's snapshot, and evidence
\* for a vertex like any other.
LandmarksValid ==
    /\ \A i \in Landmarks : request.landmarks[i].bound
    /\ ValidEvidence(request.topology, WithLandmarks)

ComponentsWith(regions, evidence) ==
    constructFairEligibleComponents(request.topology, regions, request.access, request.reach, evidence)

FamilyNames == {request.family[key] : key \in DOMAIN request.family} \ {None}

\* The result, once the components are known.  Landmarks are evaluated only if
\* the request has too few components without them; one is admitted if its
\* vertex is part of a component.
Meeting(regions, organic, evaluated, components) ==
    [status |-> IF components = {} THEN "no-eligible-target" ELSE "complete",
     enumerations |-> enumerations,
     journeys |-> request.journeys,
     corridors |-> [j \in request.journeys |-> CorridorOf(j)],
     regions |-> regions,
     components |-> components,
     families |-> [f \in IF components = {} THEN {} ELSE FamilyNames |->
                     {key \in DOMAIN request.family : request.family[key] = f}],
     organic |-> Cardinality(organic),
     evaluated |-> evaluated,
     landmarks |-> IF evaluated THEN Landmarks ELSE {},
     admitted |-> {i \in Landmarks : evaluated /\ \E c \in components : request.landmarks[i].vertex \in c.vertices}]

EvaluatedIn(regions, organic) ==
    LET scarce == Cardinality(organic) < request.diversityMinimum
    IN  IF scarce /\ ~LandmarksValid THEN Outcome("failed")
        ELSE IF ~FamiliesCover THEN Outcome("incomplete")
        ELSE Meeting(regions, organic, scarce,
                     IF scarce THEN ComponentsWith(regions, WithLandmarks) ELSE organic)

\* runRouteFirstMeetingService from the coverage of the journeys on.
Evaluated ==
    IF ~JourneysCover \/ ~AlternatesCover THEN Outcome("incomplete")
    ELSE IF \E e \in Relevant, p \in Participants : ~ValidProfile(request.profiles[e][p])
         THEN Outcome("incomplete")
    ELSE IF ~SomeAccess(request.access, request.reach) \/ ~ValidEvidence(request.topology, request.evidence)
         THEN Outcome("failed")
    ELSE LET regions == [e \in Relevant |-> RegionOf(e)]
         IN  EvaluatedIn(regions, ComponentsWith(regions, request.evidence))

\* An alternate brings an enumeration of its own, which the corridor verifies
\* again, and which may not hold.
CoverFails ==
    /\ phase = "cover" /\ JourneysCover /\ AlternatesCover
    /\ \E j \in request.journeys : request.alternates[j] # {}
    /\ Decide(Outcome("incomplete"))
    /\ UNCHANGED <<request, job, certified, enumerations, enumVars>>

Cover ==
    /\ phase = "cover"
    /\ Decide(Evaluated)
    /\ UNCHANGED <<request, job, certified, enumerations, enumVars>>

Next ==
    \/ Validate \/ AskInVain \/ AskUnavailable \/ Ask \/ Reenumerate
    \/ \E c \in Claims : VerifyRefuses(c) \/ VerifyIncomplete(c) \/ VerifyComplete(c)
    \/ CoverFails \/ Cover

Spec == Init /\ [][Next]_vars

-----------------------------------------------------------------------------
(* Reference: the loopless paths, by their definition. *)

\* The time that has passed after each number of edges.
TimeAfter(g, s) ==
    LET passed[i \in 0 .. Len(s)] ==
            IF i = 0 THEN 0 ELSE passed[i - 1] + g.duration[s[i]]
    IN  passed

PathOf(q, origin, s) ==
    [vertices |-> <<origin>> \o [i \in DOMAIN s |-> q.graph.to[s[i]]],
     edges |-> s,
     duration |-> TimeAfter(q.graph, s)[Len(s)]]

AllPaths(q) ==
    {p \in {PathOf(q, o, s) :
               o \in q.origins,
               s \in UNION {[1 .. n -> Edges] : n \in 0 .. q.policy.maxHops}} :
        /\ LegalPath(q, p)
        /\ \A i \in 1 .. Len(p.edges) : p.vertices[i] \notin q.targets}

(* Properties. *)

\* Of the types: every path on the stack is one the enumeration may extend,
\* and a frame has only edges left that leave its path's end.
TypeOK ==
    /\ phase \in {"validate", "ask", "verify", "cover", "done", "alone"}
    /\ phase = "alone" <=> request = None
    /\ request # None => job \in 1 .. Len(request.queries)
    /\ \A key \in certified : key.who \in 1 .. job /\ key.edges \in Seq(Edges)
    /\ outcome.status \in Statuses \cup {None}
    /\ outcome.status = None <=> phase # "done"
    /\ Len(enumerations) <= job
    /\ \A i \in 1 .. Len(frames) :
          \A e \in frames[i].left : query.graph.from[e] = End(frames[i].path)

\* An enumeration that ends within its budget has emitted every loopless path
\* the policy permits up to the first target, each of them once: the early
\* returns, the cut by duration and the cut by hops lose none
\* (enumeration.ts:247).
EnumerationIsExact ==
    Enumerated /\ ~stopped =>
        /\ ToSet(paths) = AllPaths(query)
        /\ IsInjective(paths)

\* The work never passes the budget, not even by the last unit: both places
\* that spend a unit look at the budget before (enumeration.ts:249, 261).
WorkWithinBudget ==
    /\ workUnits = statesVisited + edgeTransitions
    /\ query.policy.workBudget # None => workUnits <= query.policy.workBudget

\* The verifier accepts what an honest provider answers, and neither of them
\* works longer than the budget: the state bound, the
\* spent budget of an incomplete enumeration and the checks of each path agree
\* with what the enumeration does (enumeration.ts:297).
HonestAnswerHolds ==
    /\ WorkWithinBudget
    /\ phase \in {"verify", "alone"} /\ Enumerated => CertificateHolds(Honest)

\* Whatever the providers answered, a meeting that is not refused rests on
\* all paths: each participant's journeys are all the loopless paths of the
\* participant's query, each belongs to a family, and the paths of one
\* participant in one family are evidence for each other
\* (meeting-service.ts:755).
CompleteCoversEveryPath ==
    /\ TypeOK
    /\ outcome.status \in {"complete", "no-eligible-target"} =>
          /\ request.journeys =
                UNION {{[who |-> p, edges |-> path.edges] :
                          path \in AllPaths(request.queries[p])} : p \in Participants}
          /\ \A j \in request.journeys :
                /\ request.family[j] # None
                /\ request.alternates[j] =
                     {k \in request.journeys \ {j} :
                        k.who = j.who /\ request.family[k] = request.family[j]}
=============================================================================
