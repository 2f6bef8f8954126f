------------------------------- MODULE Itinerary -------------------------------
(* The itinerary that itinerary.ts rebuilds from the predecessor edges of a   *)
(* finished scan: the chain of edges from the selected area back to an access *)
(* seed, turned into legs.  A route is what a scan returns, the arrival at    *)
(* every area and the edge it came by.                                        *)
EXTENDS Router, Sequences

ASSUME AreasAssumption == IsFiniteSet(Areas)

\* What the scan has found.
Found == [arrival |-> arrival, edge |-> edge]

\* The area that an edge comes from (a seed has none, the chain ends there).
Source(e) == IF e.kind = "connection" THEN table.from[e.row] ELSE e.from

\* The chain of areas, walking back from the selected one.  At an access seed
\* and at an area without an edge the walk stands still.
Before(route, area) ==
  IF route.edge[area] = NoEdge \/ route.edge[area].kind = "seed" THEN area
  ELSE Source(route.edge[area])

Back(route, target) ==
  LET back[n \in 0 .. Cardinality(Areas)] ==
        IF n = 0 THEN target ELSE Before(route, back[n - 1])
  IN back

\* The chain has as many edges as it takes to meet a seed.  A chain that is
\* broken or cyclic meets none, for every area has one edge.
SeedDepths(route, target) ==
  {n \in 0 .. Cardinality(Areas) - 1 :
     LET last == route.edge[Back(route, target)[n]] IN
     last # NoEdge /\ last.kind = "seed"}

ArrivalBy(e) == IF e.kind = "connection" THEN table.arrival[e.row] ELSE e.time

NoItinerary == <<>>

\* The legs in the order they are travelled.  A walk starts when the leg before
\* it ends.  The end of the last leg must be the certified arrival, to the
\* minute.
BuildItinerary(route, target) ==
  IF SeedDepths(route, target) = {} THEN NoItinerary
  ELSE
    LET depth == CHOOSE n \in SeedDepths(route, target) :
                   \A m \in SeedDepths(route, target) : n <= m
        edgeOf(i) == route.edge[Back(route, target)[depth + 1 - i]]
        legs == [i \in 1 .. depth + 1 |->
                   [edge |-> edgeOf(i),
                    start |-> CASE edgeOf(i).kind = "seed" -> 0
                                [] edgeOf(i).kind = "connection" ->
                                     table.departure[edgeOf(i).row]
                                [] edgeOf(i).kind = "walk" ->
                                     ArrivalBy(edgeOf(i - 1)),
                    end |-> ArrivalBy(edgeOf(i))]]
        late == legs[depth + 1].end - route.arrival[target] IN
    IF late \in -1 .. 1 THEN legs ELSE NoItinerary

-------------------------------------------------------------------------------
(* Properties.                                                                *)

\* No leg starts before the leg before it ends, and none ends before it starts.
InOrder(legs) ==
  /\ \A i \in 1 .. Len(legs) : legs[i].start <= legs[i].end
  /\ \A i \in 1 .. Len(legs) - 1 : legs[i].end <= legs[i + 1].start

\* itinerary.ts:44 says of its legs that they "run chronologically".
LegsRunChronologically ==
  Done => \A a \in Areas : arrival[a] # Never => InOrder(BuildItinerary(Found, a))

===============================================================================
