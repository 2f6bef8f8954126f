---------------------------- MODULE MeetingSurface ----------------------------
(* The meeting calculation of meeting.ts from the two participants' access    *)
(* seeds to the answer, and the details of one station area.  The router      *)
(* scans the same window for the red participant and then for the blue one;   *)
(* what both reach is compared area by area; and the server sends a surface   *)
(* or details only if the strict validators of lib/validation, which derive   *)
(* every field a second time, accept them.                                    *)
(*                                                                            *)
(* Names, coordinates and provenance are copied unchanged and left out.       *)
(* Tolerance and boundary enter after the scans, so that the properties speak *)
(* of all of them at the end instead of one choice at the beginning.          *)
EXTENDS Itinerary

CONSTANTS Parties,     \* the two participants' access seeds
          Tolerances,  \* tolerancePercent
          AreaOrder    \* station areas in the order of compareScheduledIds

Null == Never          \* an arrival that is null
NoRoute == [arrival |-> [a \in Areas |-> Never], edge |-> [a \in Areas |-> NoEdge]]
Colors == <<"red", "blue">>

ASSUME PartiesAssumption ==
  \A p \in Parties : p \in (SUBSET Seeds) \X (SUBSET Seeds)
ASSUME TolerancesAssumption == Tolerances \subseteq Nat
ASSUME OrderAssumption ==
  /\ AreaOrder \in [1 .. Cardinality(Areas) -> Areas]
  /\ {AreaOrder[i] : i \in DOMAIN AreaOrder} = Areas

VARIABLES party,   \* the access seeds of the request
          routes   \* the results of the finished scans, red first

meetingVars == <<vars, party, routes>>

MeetingInit ==
  /\ Init
  /\ party \in Parties
  /\ network.seeds = party[1]
  /\ routes = <<>>

\* The participant whose scan comes next.
turn == Len(routes) + 1
Routed == Len(routes) = 2

\* A participant without access seeds is not scanned.
Scan ==
  /\ ~Routed /\ party[turn] # {}
  /\ Next
  /\ UNCHANGED <<party, routes>>

\* The scan of a participant returned, or was not needed.  The next one starts
\* from nothing but the shared window.
FinishScan ==
  /\ ~Routed
  /\ party[turn] = {} \/ Done
  /\ routes' = Append(routes, IF party[turn] = {} THEN NoRoute
                              ELSE Found)
  /\ IF turn = 1
     THEN /\ network' = [network EXCEPT !.seeds = party[2]]
          /\ unseeded' = party[2]
          /\ bucket' = -1
          /\ arrival' = NoRoute.arrival /\ ready' = NoRoute.arrival
          /\ edge' = NoRoute.edge
          /\ authorized' = {} /\ taken' = {}
          /\ UNCHANGED <<open, queue>>
     ELSE UNCHANGED vars
  /\ UNCHANGED party

MeetingNext == Scan \/ FinishScan

MeetingSpec == MeetingInit /\ [][MeetingNext]_meetingVars

-------------------------------------------------------------------------------
(* The surface.                                                               *)

\* Mutant of IsScheduledToleranceSatisfied: the limit itself is outside.
StrictlyWithinTolerance(first, second, tolerance) ==
  LET difference == IF first < second THEN second - first ELSE first - second IN
  difference * 100 < (first + second) * tolerance

IsScheduledToleranceSatisfied(first, second, tolerance) ==
  LET difference == IF first < second THEN second - first ELSE first - second IN
  difference * 100 <= (first + second) * tolerance

Faster(red, blue) ==
  CASE red = blue -> "none" [] red < blue -> "red" [] red > blue -> "blue"

\* classifyStationArea.  Null is later than every arrival.
Classify(a, red, blue, tolerance) ==
  LET fair == /\ red # Null /\ blue # Null
              /\ IsScheduledToleranceSatisfied(red, blue, tolerance) IN
  [area |-> a, red |-> red, blue |-> blue, within |-> fair, faster |-> Faster(red, blue),
   class |-> CASE red = Null /\ blue = Null -> "unclassified"
               [] fair -> "fair"
               [] OTHER -> Faster(red, blue)]

Reachable(p) == {a \in Areas : routes[p].arrival[a] # Never}
NoAccessSeeds == party[1] = {} \/ party[2] = {}
NoResult == NoAccessSeeds \/ Reachable(1) = {} \/ Reachable(2) = {}

\* The areas inside the official boundary, in the order of the catalog.
Catalog(inside) ==
  LET rows == {i \in DOMAIN AreaOrder : AreaOrder[i] \in inside}
      row(k) == CHOOSE i \in rows : Cardinality({j \in rows : j < i}) = k - 1 IN
  [k \in 1 .. Cardinality(rows) |-> AreaOrder[row(k)]]

Candidate(a, tolerance) ==
  IF NoResult THEN Classify(a, Null, Null, tolerance)
  ELSE Classify(a, routes[1].arrival[a], routes[2].arrival[a], tolerance)

Response(tolerance, inside) ==
  LET catalog == Catalog(inside) IN
  [status |-> IF NoResult THEN "no-result" ELSE "ok",
   reason |-> CASE NoAccessSeeds -> "no-access-seeds"
                [] ~NoAccessSeeds /\ NoResult -> "no-reachable-stations"
                [] OTHER -> "none",
   seeds |-> party,
   seedCounts |-> <<Cardinality(party[1]), Cardinality(party[2])>>,
   stationAreas |-> [i \in DOMAIN catalog |-> Candidate(catalog[i], tolerance)]]

-------------------------------------------------------------------------------
(* The validator of the surface, meeting-v3.ts.                               *)

IsToleranceSatisfied(first, second, tolerance) ==
  LET difference == IF first < second THEN second - first ELSE first - second IN
  difference * 100 <= (first + second) * tolerance

\* validateDerivedStationAreaInvariant.
DerivedAreaHolds(marker, status, tolerance) ==
  IF status = "no-result"
  THEN /\ marker.class = "unclassified" /\ marker.faster = "none"
       /\ marker.red = Null /\ marker.blue = Null /\ ~marker.within
  ELSE LET both == marker.red # Null /\ marker.blue # Null
           within == both /\ IsToleranceSatisfied(marker.red, marker.blue, tolerance)
           first == Faster(marker.red, marker.blue) IN
       /\ marker.within = within
       /\ marker.faster = first
       /\ marker.class = CASE within -> "fair"
                           [] ~within /\ first # "none" -> first
                           [] ~within /\ first = "none" -> "unclassified"

\* validateStationArea: arrivals are whole minutes or null, areas of the
\* surface lie inside the boundary.
StationAreaTyped(marker, inside) ==
  /\ marker.area \in inside
  /\ marker.class \in {"red", "blue", "fair", "unclassified"}
  /\ marker.red \in Times \cup {Null} /\ marker.blue \in Times \cup {Null}
  /\ marker.faster \in {"red", "blue", "none"} /\ marker.within \in BOOLEAN

\* validateStationAreasOnce: exactly the catalog, in its order.
StationAreasHold(r, tolerance, inside) ==
  LET areas == r.stationAreas
      catalog == Catalog(inside) IN
  /\ \A i \in DOMAIN areas : /\ StationAreaTyped(areas[i], inside)
                             /\ DerivedAreaHolds(areas[i], r.status, tolerance)
  /\ \A i, k \in DOMAIN areas : areas[i].area = areas[k].area => i = k
  /\ Len(areas) = Len(catalog)
  /\ \A i \in DOMAIN areas : areas[i].area = catalog[i]

\* validateResponseParticipant: an access time is a whole minute.
SeedsHold(seeds) == \A s \in seeds : s.area \in Areas /\ s.time \in Times

\* validateResponseInvariants: the seeds are counted and agree with the reason.
ReasonAgrees(r) ==
  LET hasEmptySeedSet == \E p \in {1, 2} : r.seedCounts[p] = 0 \/ r.seeds[p] = {} IN
  /\ \A p \in {1, 2} : r.seedCounts[p] = Cardinality(r.seeds[p])
  /\ r.status = "no-result" /\ r.reason = "no-access-seeds" => hasEmptySeedSet
  /\ r.status = "no-result" /\ r.reason = "no-reachable-stations" => ~hasEmptySeedSet

ValidResponse(r, tolerance, inside) ==
  /\ r.status \in {"ok", "no-result"}
  /\ r.status = "ok" <=> r.reason = "none"
  /\ \A p \in {1, 2} : SeedsHold(r.seeds[p])
  /\ StationAreasHold(r, tolerance, inside)
  /\ ReasonAgrees(r)

-------------------------------------------------------------------------------
(* The details of one station area, from the basis of the calculation: the    *)
(* marker and the predecessor edges of both scans.                            *)

ItineraryOf(p, a) == BuildItinerary(routes[p], a)

Unavailable(reason) ==
  [status |-> "unavailable", reason |-> reason, total |-> Null,
   itinerary |-> NoItinerary]

\* Mutant of DetailParticipant: whoever does not reach the area is told that
\* nobody does.
DetailParticipantUnclassified(p, marker, response) ==
  LET total == marker[Colors[p]] IN
  IF total = Null THEN Unavailable("station-area-unclassified")
  ELSE [status |-> "available", reason |-> "none", total |-> total,
        itinerary |-> ItineraryOf(p, marker.area)]

DetailParticipant(p, marker, response) ==
  LET total == marker[Colors[p]] IN
  IF total = Null
  THEN Unavailable(CASE response.status = "no-result" -> response.reason
                     [] response.status = "ok" /\ marker.class = "unclassified" ->
                          "station-area-unclassified"
                     [] OTHER -> "station-area-unavailable-for-participant")
  ELSE [status |-> "available", reason |-> "none", total |-> total,
        itinerary |-> ItineraryOf(p, marker.area)]

DetailOf(marker, response, participants) ==
  [status |-> response.status, reason |-> response.reason, marker |-> marker,
   participants |-> participants]

\* unavailableStationAreaDetailsResponse: an area without result needs no
\* itinerary.
UnavailableDetail(marker, response) ==
  DetailOf(marker, response,
    [p \in {1, 2} |-> Unavailable(IF response.status = "no-result"
                                  THEN response.reason
                                  ELSE "station-area-unclassified")])

Detail(marker, response) ==
  DetailOf(marker, response,
           [p \in {1, 2} |-> DetailParticipant(p, marker, response)])

\* validateItinerary: no leg runs backwards.
LegsHold(legs) == \A i \in DOMAIN legs : legs[i].start <= legs[i].end

\* deriveMarker.
DerivedMarker(red, blue, tolerance) ==
  LET fair == IsScheduledToleranceSatisfied(red, blue, tolerance)
      sooner == IF red < blue THEN "red" ELSE "blue" IN
  CASE red = Null /\ blue = Null -> <<"unclassified", "none", FALSE>>
    [] red = Null /\ blue # Null -> <<"blue", "blue", FALSE>>
    [] red # Null /\ blue = Null -> <<"red", "red", FALSE>>
    [] OTHER -> <<IF fair THEN "fair" ELSE sooner,
                  IF red = blue THEN "none" ELSE sooner, fair>>

\* validateMarkerInvariant.
MarkerHolds(marker) ==
  /\ marker.class = "unclassified" =>
       /\ marker.red = Null /\ marker.blue = Null
       /\ marker.faster = "none" /\ ~marker.within
  /\ marker.class # "unclassified" => marker.red # Null \/ marker.blue # Null

\* validateBasisBindings.
MarkerBinds(marker, status, tolerance) ==
  /\ <<marker.class, marker.faster, marker.within>> =
       DerivedMarker(marker.red, marker.blue, tolerance)
  /\ status = "no-result" => marker.class = "unclassified"

\* validateParticipantBindings: the itinerary starts with the search and ends
\* with the marker's total, to the minute.
ParticipantBinds(participant, total, detail) ==
  LET legs == participant.itinerary IN
  IF total # Null
  THEN /\ participant.status = "available" /\ participant.reason = "none"
       /\ participant.total = total
       /\ legs # NoItinerary
       /\ legs[1].start = 0
       /\ legs[Len(legs)].end - total \in -1 .. 1
  ELSE participant = Unavailable(
         CASE detail.status = "no-result" -> detail.reason
           [] detail.status # "no-result" /\ detail.marker.class = "unclassified" ->
                "station-area-unclassified"
           [] OTHER -> "station-area-unavailable-for-participant")

\* validateStationAreaDetailsResponse.
ValidDetail(detail, tolerance) ==
  /\ MarkerHolds(detail.marker)
  /\ MarkerBinds(detail.marker, detail.status, tolerance)
  /\ detail.status = "ok" <=> detail.reason = "none"
  /\ \A p \in {1, 2} :
       /\ LegsHold(detail.participants[p].itinerary)
       /\ ParticipantBinds(detail.participants[p], detail.marker[Colors[p]], detail)

\* Status code of the details of an area.
Answer(marker, response, tolerance) ==
  LET detail == IF response.status = "no-result" \/ marker.class = "unclassified"
                THEN UnavailableDetail(marker, response)
                ELSE Detail(marker, response) IN
  IF ValidDetail(detail, tolerance) THEN 200 ELSE 500

-------------------------------------------------------------------------------
(* Properties.                                                                *)

\* Every surface the calculation builds passes the validator that derives it
\* again, whatever tolerance and boundary, or the client would get a 500
\* instead of its meeting places (meeting-api.ts:224); and there is a result
\* unless a participant has no access seeds: the reason no-reachable-stations
\* that the contract provides for never comes up, for seeds are arrivals.
SurfacePassesValidation ==
  Routed =>
    /\ NoResult <=> NoAccessSeeds
    /\ \A tolerance \in Tolerances, inside \in SUBSET Areas :
         ValidResponse(Response(tolerance, inside), tolerance, inside)

\* A timetable whose trips let passengers off at every stop, where they also
\* arrive before they depart.
Stopping ==
  \A r \in Rows :
    /\ table.dropOff[r]
    /\ \A q \in Continuation(r) : table.arrival[r] <= table.departure[q]

\* Whatever marker of a surface is opened, its details pass their validator,
\* so that the answer is 200 (meeting-api.ts:469): on a stopping timetable for
\* every marker, with legs in the order of travel; on every other one unless a
\* participant reaches the area by edges that lead round in a circle.
DetailsAreServed ==
  Routed =>
    \A tolerance \in Tolerances :
      LET response == Response(tolerance, Areas) IN
      \A i \in DOMAIN response.stationAreas :
        LET marker == response.stationAreas[i]
            reached == {p \in {1, 2} : marker[Colors[p]] # Null} IN
        /\ (Answer(marker, response, tolerance) = 200) <=>
             \A p \in reached : ItineraryOf(p, marker.area) # NoItinerary
        /\ Stopping => \A p \in reached :
             /\ ItineraryOf(p, marker.area) # NoItinerary
             /\ InOrder(ItineraryOf(p, marker.area))

===============================================================================
