-------------------------- MODULE SelfHostedRouting --------------------------
(***************************************************************************)
(* The point-to-point adapters of lib/providers/self-hosted-routing.ts: one*)
(* call of route() asks the OTP engine for a transit connection page by    *)
(* page, or GraphHopper for a bike or car path, and turns what they answer *)
(* into whole, checked routes or fails.  Both engines are external: what   *)
(* they know is "listing", they answer with any part of it, or wrongly.    *)
(* Times are milliseconds, Second of them a second; distances are those of *)
(* a grid.                                                                 *)
(***************************************************************************)
EXTENDS RoutingEnvelope, SequencesExt

CONSTANTS
  Scenarios,            (* what is asked of which engine: records of a request,
                           the engine's listing and the envelope in force     *)
  Boundary,             (* the points of the official Munich boundary         *)
  EnvelopeOf,           (* the geometry of each envelope                      *)
  CellsOf,              (* the unit squares each envelope consists of         *)
  Second,
  MaxItineraries,       (* MAX_OTP_ITINERARIES                                *)
  MaxPages,             (* MAX_OTP_PAGES                                      *)
  MaxLegs,              (* MAX_OTP_LEGS_PER_ITINERARY                         *)
  MaxPaths,             (* MAX_GRAPHHOPPER_PATHS                              *)
  EndpointTolerance,    (* ROUTE_ENDPOINT_TOLERANCE_METERS                    *)
  ContinuityTolerance   (* ROUTE_GEOMETRY_CONTINUITY_TOLERANCE_METERS         *)

ASSUME SelfHostedRoutingAssumption ==
  /\ Scenarios # {}
  /\ \A s \in Scenarios : s.listing \in Seq(ToSet(s.listing))

VARIABLES
  scenario,   (* the scenario of this call                                  *)
  page,       (* the number of pages received                               *)
  after,      (* the cursor: how much of the listing has been served        *)
  raw,        (* rawItineraries                                             *)
  outcome,    (* "asking", "failed" or "answered"                           *)
  routes      (* the answer                                                 *)

routingVars == <<scenario, page, after, raw, outcome, routes>>

RoutingStart ==
  /\ page = 0
  /\ after = 0
  /\ raw = <<>>
  /\ outcome = "asking"
  /\ routes = <<>>

request == scenario.request
envelope == EnvelopeOf[scenario.envelope]

Distance(p, q) ==
  LET Gap(i) == IF p[i] < q[i] THEN q[i] - p[i] ELSE p[i] - q[i]
  IN  Gap(1) + Gap(2)

\* validateRouteRequest
RequestIsValid == {request.origin, request.destination} \subseteq Boundary

\* validateRequestEndpoints
ReachesRequest(line) ==
  /\ Distance(line[1], request.origin) <= EndpointTolerance
  /\ Distance(Last(line), request.destination) <= EndpointTolerance

-------------------------------------------------------------------------------
(* OTP itineraries.                                                         *)

\* In place of an estimated time: there is none, or it is malformed.
NoEstimate == -1
Malformed == -2

\* otpLegTimestamp: the estimated time if there is one.
LegTime(t) == IF t.estimated = NoEstimate THEN t.scheduled ELSE t.estimated

TimeParses(t) == t.estimated # Malformed

\* requiredDurationSeconds against the difference of two instants
TimingAgrees(start, end, seconds) ==
  start <= end /\ end - start = seconds * Second

LegParses(leg) ==
  /\ leg.mode \in {"transit", "walk"}
  /\ TimeParses(leg.start) /\ TimeParses(leg.end)
  /\ TimingAgrees(LegTime(leg.start), LegTime(leg.end), leg.duration)
  /\ Len(leg.points) >= 2
  /\ Distance(leg.points[1], leg.from) <= EndpointTolerance
  /\ Distance(Last(leg.points), leg.to) <= EndpointTolerance

Step(kind, mode, from, to, start, end, line) ==
  [kind |-> kind, mode |-> mode, from |-> from, to |-> to,
   departureAt |-> start, arrivalAt |-> end, geometry |-> line]

LegStep(leg) ==
  Step("leg", leg.mode, leg.from, leg.to,
       LegTime(leg.start), LegTime(leg.end), leg.points)

\* Mutant of AddWaitingSteps: the gaps between two legs stay.
LegsOnly(legs) == legs

\* addOtpWaitingSteps, for legs that do not overlap
AddWaitingSteps(legs) ==
  FoldLeft(LAMBDA steps, leg :
             IF steps = <<>> \/ Last(steps).arrivalAt = leg.departureAt
             THEN Append(steps, leg)
             ELSE LET previous == Last(steps)
                  IN  steps \o <<Step("wait", "wait", previous.to, leg.from,
                                      previous.arrivalAt, leg.departureAt, <<>>),
                                 leg>>,
           <<>>, legs)

LegsAreInOrder(legs) ==
  \A i \in 1 .. Len(legs) - 1 : legs[i].arrivalAt <= legs[i + 1].departureAt

\* mergeStepGeometry: the positions of the legs, no position twice in a row
MergeGeometry(lines) ==
  FoldLeft(LAMBDA merged, p :
             IF merged # <<>> /\ Last(merged) = p THEN merged ELSE Append(merged, p),
           <<>>, FlattenSeq(lines))

GeometryMerges(lines) ==
  /\ \A i \in DOMAIN lines : IsLineInside(lines[i], envelope)
  /\ \A i \in 1 .. Len(lines) - 1 :
       Distance(Last(lines[i]), lines[i + 1][1]) <= ContinuityTolerance
  /\ Len(MergeGeometry(lines)) >= 2

Route(mode, start, end, line, steps) ==
  [mode |-> mode, departureAt |-> start, arrivalAt |-> end,
   durationMilliseconds |-> end - start, geometry |-> line, steps |-> steps]

Lines(itinerary) == [i \in DOMAIN itinerary.legs |-> itinerary.legs[i].points]

\* Mutant of ItineraryParses: validateStepTimeline is not called.
ItineraryParsesUntimed(itinerary) ==
  LET legs == [i \in DOMAIN itinerary.legs |-> LegStep(itinerary.legs[i])]
  IN  /\ Len(legs) \in 1 .. MaxLegs
      /\ \A i \in DOMAIN legs : LegParses(itinerary.legs[i])
      /\ LegsAreInOrder(legs)
      /\ TimingAgrees(itinerary.start, itinerary.end, itinerary.duration)
      /\ GeometryMerges(Lines(itinerary))
      /\ ReachesRequest(MergeGeometry(Lines(itinerary)))

\* parseOtpItinerary does not throw.
ItineraryParses(itinerary) ==
  LET legs == [i \in DOMAIN itinerary.legs |-> LegStep(itinerary.legs[i])]
  IN  /\ Len(legs) \in 1 .. MaxLegs
      /\ \A i \in DOMAIN legs : LegParses(itinerary.legs[i])
      /\ LegsAreInOrder(legs)
      /\ TimingAgrees(itinerary.start, itinerary.end, itinerary.duration)
      /\ legs[1].departureAt = itinerary.start
      /\ Last(legs).arrivalAt = itinerary.end
      /\ GeometryMerges(Lines(itinerary))
      /\ ReachesRequest(MergeGeometry(Lines(itinerary)))

ItineraryRoute(itinerary) ==
  Route("transit", itinerary.start, itinerary.end,
        MergeGeometry(Lines(itinerary)),
        AddWaitingSteps([i \in DOMAIN itinerary.legs |->
                           LegStep(itinerary.legs[i])]))

-------------------------------------------------------------------------------
(* GraphHopper paths.                                                       *)

\* The sum of the times of the instructions in front of instruction n.
InstructionOffset(instructions, n) ==
  FoldLeft(LAMBDA sum, instruction : sum + instruction.time,
           0, SubSeq(instructions, 1, n - 1))

\* parseGraphHopperInstructions does not throw; positions count from 0.
InstructionsParse(path) ==
  LET instructions == path.instructions
      count == Len(instructions)
  IN  /\ count > 0
      /\ \A i \in 1 .. count :
           LET instruction == instructions[i]
           IN  /\ 0 <= instruction.first
               /\ instruction.first <= instruction.last
               /\ instruction.last < Len(path.points)
               /\ instruction.first = instruction.last => instruction.time = 0
               /\ instruction.time \in 0 .. path.time
               /\ instruction.first = IF i = 1 THEN 0 ELSE instructions[i - 1].last
      /\ instructions[count].last = Len(path.points) - 1
      /\ InstructionOffset(instructions, count + 1) = path.time

InstructionSteps(path) ==
  [i \in DOMAIN path.instructions |->
     LET instruction == path.instructions[i]
         start == request.departureAt + InstructionOffset(path.instructions, i)
         line == SubSeq(path.points, instruction.first + 1, instruction.last + 1)
     IN  Step("leg", request.mode, line[1], Last(line), start, start + instruction.time,
              IF Len(line) = 1 THEN <<>> ELSE line)]

\* Without instructions the whole path is one step (summaryRouteStep).
PathParses(path) ==
  /\ path.time >= 0
  /\ Len(path.points) >= 2
  /\ IsLineInside(path.points, envelope)
  /\ ReachesRequest(path.points)
  /\ path.instructed => InstructionsParse(path)

PathRoute(path) ==
  LET end == request.departureAt + path.time
  IN  Route(request.mode, request.departureAt, end, path.points,
            IF path.instructed
            THEN InstructionSteps(path)
            ELSE <<Step("leg", request.mode, request.origin, request.destination,
                        request.departureAt, end, path.points)>>)

-------------------------------------------------------------------------------
\* The request is refused before the engine is asked.
RefuseRequest ==
  /\ outcome = "asking"
  /\ ~RequestIsValid
  /\ outcome' = "failed"
  /\ UNCHANGED <<scenario, page, after, raw, routes>>

\* The HTTP request fails, or its answer is malformed or reports errors.
EngineFails ==
  /\ outcome = "asking"
  /\ RequestIsValid
  /\ outcome' = "failed"
  /\ UNCHANGED <<scenario, page, after, raw, routes>>

Fail == outcome' = "failed" /\ UNCHANGED <<after, routes>>

\* One itinerary that does not parse fails the whole call.
AnswerWith(itineraries) ==
  IF \A i \in DOMAIN itineraries : ItineraryParses(itineraries[i])
  THEN /\ outcome' = "answered"
       /\ routes' = [i \in DOMAIN itineraries |-> ItineraryRoute(itineraries[i])]
       /\ UNCHANGED after
  ELSE Fail

\* Mutant of ReceivePage: the last page that may be asked for ends the list.
ReceivePageAndStop(count, more, cursor) ==
  LET received == raw \o SubSeq(scenario.listing, after + 1, after + count)
  IN  /\ outcome = "asking"
      /\ RequestIsValid
      /\ request.mode = "transit"
      /\ raw' = received
      /\ page' = page + 1
      /\ IF Len(received) > MaxItineraries THEN Fail
         ELSE IF ~more \/ page = MaxPages - 1 THEN AnswerWith(received)
         ELSE IF ~cursor THEN Fail
         ELSE after' = after + count /\ UNCHANGED <<outcome, routes>>
      /\ UNCHANGED scenario

\* One page of "count" more itineraries; "more" is hasNextPage, "cursor" whether
\* there is an endCursor.
ReceivePage(count, more, cursor) ==
  LET received == raw \o SubSeq(scenario.listing, after + 1, after + count)
  IN  /\ outcome = "asking"
      /\ RequestIsValid
      /\ request.mode = "transit"
      /\ raw' = received
      /\ page' = page + 1
      /\ IF Len(received) > MaxItineraries THEN Fail
         ELSE IF ~more THEN AnswerWith(received)
         ELSE IF ~cursor \/ page = MaxPages - 1 THEN Fail
         ELSE after' = after + count /\ UNCHANGED <<outcome, routes>>
      /\ UNCHANGED scenario

\* OTP may announce a page it then leaves empty, never hide one.
OtpAnswers ==
  \E count \in 0 .. Len(scenario.listing) - after, more, cursor \in BOOLEAN :
    /\ more \/ after + count = Len(scenario.listing)
    /\ ReceivePage(count, more, cursor)

\* Only the first path is used.
GraphHopperAnswers ==
  LET paths == scenario.listing
  IN  /\ outcome = "asking"
      /\ RequestIsValid
      /\ request.mode \in {"bike", "car"}
      /\ IF Len(paths) <= MaxPaths /\ (paths # <<>> => PathParses(paths[1]))
         THEN /\ outcome' = "answered"
              /\ routes' = IF paths = <<>> THEN <<>> ELSE <<PathRoute(paths[1])>>
         ELSE outcome' = "failed" /\ UNCHANGED routes
      /\ UNCHANGED <<scenario, page, after, raw>>

RoutingNext == RefuseRequest \/ EngineFails \/ OtpAnswers \/ GraphHopperAnswers

-------------------------------------------------------------------------------
(* Properties.                                                              *)

Answered == outcome = "answered"

\* The steps of a route are one gap-free timeline from its departure to its
\* arrival, in which a wait stands only between two legs.
IsTimeline(route) ==
  LET steps == route.steps
  IN  /\ steps # <<>>
      /\ steps[1].departureAt = route.departureAt
      /\ Last(steps).arrivalAt = route.arrivalAt
      /\ \A i \in DOMAIN steps : steps[i].departureAt <= steps[i].arrivalAt
      /\ \A i \in 1 .. Len(steps) - 1 :
           /\ steps[i].arrivalAt = steps[i + 1].departureAt
           /\ {steps[i].kind, steps[i + 1].kind} # {"wait"}
      /\ "leg" = steps[1].kind /\ "leg" = Last(steps).kind

\* A route leads from the origin to the destination, its legs follow each other
\* within the tolerances, and its geometry is that of its steps.
IsConnected(route) ==
  LET legs == SelectSeq(route.steps, LAMBDA step : step.kind = "leg")
  IN  /\ Distance(route.geometry[1], request.origin) <= EndpointTolerance
      /\ Distance(Last(route.geometry), request.destination) <= EndpointTolerance
      /\ \A i \in 1 .. Len(legs) - 1 :
           Distance(legs[i].to, legs[i + 1].from)
             <= 2 * EndpointTolerance + ContinuityTolerance
      /\ MergeGeometry([i \in DOMAIN legs |-> legs[i].geometry])
           = MergeGeometry(<<route.geometry>>)

\* An OTP answer holds the whole listing in its order, though it came in pages:
\* where there is more than the limits allow the call fails, it never cuts.
NothingIsCut ==
  request.mode = "transit" =>
    /\ Len(routes) = Len(scenario.listing)
    /\ \A i \in DOMAIN routes : routes[i] = ItineraryRoute(scenario.listing[i])

\* Every route an adapter answers with is whole.
RoutesAreWhole ==
  Answered => /\ \A i \in DOMAIN routes : IsTimeline(routes[i])
              /\ \A i \in DOMAIN routes : IsConnected(routes[i])
              /\ NothingIsCut

\* Twelve samples and the end of each segment lie in the cells of the envelope.
\* On the grid of the model every crossing is at a multiple of a sixth.
IsCovered(line) ==
  \A i \in 1 .. Len(line) - 1, k \in 0 .. 12 :
    \E cell \in CellsOf[scenario.envelope] :
      \A axis \in 1 .. 2 :
        LET x == 12 * line[i][axis] + k * (line[i + 1][axis] - line[i][axis])
        IN  12 * cell[axis] <= x /\ x <= 12 * (cell[axis] + 1)

\* The lines an engine offers.
Offered ==
  UNION {IF request.mode = "transit"
         THEN {l.points : l \in ToSet(entry.legs)}
         ELSE {entry.points} : entry \in ToSet(scenario.listing)}

\* A line passes the envelope check exactly when all of it, not only its
\* vertices, lies in the envelope; so do the legs of every route.
RoutesStayInside ==
  /\ \A line \in Offered :
       Len(line) >= 2 => (IsLineInside(line, envelope) <=> IsCovered(line))
  /\ Answered => \A i \in DOMAIN routes :
                   \A step \in ToSet(routes[i].steps) : IsCovered(step.geometry)
===============================================================================
