-------------------------------- MODULE Router --------------------------------
(* The connection scan of router.ts for one participant: the earliest arrival *)
(* at every station area, and for each area the edge that arrival came by.    *)
(*                                                                            *)
(* Times are minutes since the search start.  A timetable is a set of rows,   *)
(* the compact connection table of a routing window: row r goes from one area *)
(* to the next one its trip stops at, may be boarded there (pickup, GTFS      *)
(* pickup_type 0), may be left there (dropOff), and next[r] is the row the    *)
(* same trip continues with on the same service day, or NoRow.                *)
(*                                                                            *)
(* The whole scan runs in one turn of the event loop.  Its steps are the      *)
(* iterations of its loops; the order of the seeds and of the rows of one     *)
(* departure minute is left open, because nothing may depend on it: the code  *)
(* takes rows from a queue that is filled in the order of row numbers and of  *)
(* neighbour lists.  A deadline may end the scan with an exception between    *)
(* two iterations, which leaves no result (see MeetingApi).                   *)
EXTENDS Integers, FiniteSets

CONSTANTS Areas,       \* station areas
          Rows,        \* row numbers
          NoRow,       \* continuationRowPlusOne = 0
          NoEdge,      \* no predecessor edge
          Horizon,     \* ROUTING_HORIZON_SECONDS, in minutes
          ChangeTime,  \* changeTimeSeconds, in minutes
          Networks     \* the routing windows and access seeds to scan

\* An arrival that is not in the map, and every time beyond the horizon.
Never == Horizon + 1

Times == 0 .. Horizon

Seeds == [area : Areas, time : Times]

Timetable ==
  [from : [Rows -> Areas], to : [Rows -> Areas],
   departure : [Rows -> Times], arrival : [Rows -> Times],
   pickup : [Rows -> BOOLEAN], dropOff : [Rows -> BOOLEAN],
   next : [Rows -> Rows \cup {NoRow}]]

\* walk[a][b] is the walking time between the centroids of two areas, or Never
\* beyond the transfer radius.
Walks == [Areas -> [Areas -> 0 .. Never]]

\* A row does not arrive before it departs; a trip continues where it arrived,
\* and neither departs nor arrives earlier than on the row before.  (It may
\* depart earlier than that row arrives: a visit of an area with several stops
\* departs at its first pickup and arrives at its first drop-off.)
Chronological(t) ==
  \A r \in Rows :
    /\ t.departure[r] <= t.arrival[r]
    /\ t.next[r] # NoRow =>
         /\ t.next[r] # r
         /\ t.from[t.next[r]] = t.to[r]
         /\ t.departure[r] <= t.departure[t.next[r]]
         /\ t.arrival[r] <= t.arrival[t.next[r]]

ASSUME HorizonAssumption == Horizon \in Nat /\ ChangeTime \in Nat
ASSUME RowsAssumption == NoRow \notin Rows
ASSUME NetworksAssumption ==
  \A n \in Networks :
    /\ n \in [table : Timetable, seeds : SUBSET Seeds, walk : Walks]
    /\ Chronological(n.table)

VARIABLES network,     \* the routing window and the access seeds
          unseeded,    \* access seeds not yet taken
          bucket,      \* the departure minute of the last bucket, -1 before it
          open,        \* whether that bucket is being processed
          arrival,     \* earliestArrivalByArea
          ready,       \* earliestBoardingReadyByArea
          edge,        \* predecessorByArea
          authorized,  \* authorizedRows
          taken,       \* queuedOrProcessedRows
          queue        \* rows of the open bucket still to be processed

vars == <<network, unseeded, bucket, open, arrival, ready, edge, authorized,
          taken, queue>>

table == network.table

Edges == [kind : {"seed"}, time : Times]
           \cup [kind : {"connection"}, row : Rows]
           \cup [kind : {"walk"}, from : Areas, time : Times]

ASSUME NoEdgeAssumption == NoEdge \notin Edges

Init ==
  /\ network \in Networks
  /\ unseeded = network.seeds
  /\ bucket = -1
  /\ open = FALSE
  /\ arrival = [a \in Areas |-> Never]
  /\ ready = [a \in Areas |-> Never]
  /\ edge = [a \in Areas |-> NoEdge]
  /\ authorized = {}
  /\ taken = {}
  /\ queue = {}

-------------------------------------------------------------------------------

\* The minimum that a map keeps.  Times beyond the horizon never get in.
Earlier(current, time) == IF time < current THEN time ELSE current

\* A row can be boarded at its departure by someone who is ready there.
Boardable(r) == table.pickup[r] /\ ready[table.from[r]] <= table.departure[r]

\* Access seeds: the participant is at the area and may board at once.
TakeSeed(s) ==
  /\ s \in unseeded
  /\ unseeded' = unseeded \ {s}
  /\ arrival' = [arrival EXCEPT ![s.area] = Earlier(@, s.time)]
  /\ ready' = [ready EXCEPT ![s.area] = Earlier(@, s.time)]
  /\ edge' = [edge EXCEPT ![s.area] =
                IF s.time < arrival[s.area]
                THEN [kind |-> "seed", time |-> s.time] ELSE @]
  /\ UNCHANGED <<network, bucket, open, authorized, taken, queue>>

\* The next departure minute: every row of it that can be boarded, or that the
\* passenger is already sitting in, is queued.
OpenBucket(minute) ==
  /\ unseeded = {} /\ ~open
  /\ minute > bucket
  /\ \E r \in Rows : table.departure[r] = minute
  /\ \A r \in Rows : table.departure[r] > bucket => minute <= table.departure[r]
  /\ bucket' = minute
  /\ open' = TRUE
  /\ queue' = {r \in Rows : /\ table.departure[r] = minute
                            /\ r \notin taken
                            /\ Boardable(r) \/ r \in authorized}
  /\ taken' = taken \cup queue'
  /\ UNCHANGED <<network, unseeded, arrival, ready, edge, authorized>>

\* The row the trip continues with, which the passenger may stay for.
Continuation(r) == {table.next[r]} \ {NoRow}

\* When the areas are reached by leaving row r: the area it goes to by the row
\* itself, the areas around it on foot.
Alight(r) ==
  [a \in Areas |-> IF a = table.to[r] THEN table.arrival[r]
                   ELSE table.arrival[r] + network.walk[table.to[r]][a]]

\* Mutant of ReadyAfter: whoever changes at the area of arrival boards at once.
ReadyAfterAtOnce(r) ==
  [a \in Areas |-> IF a = table.to[r] THEN table.arrival[r]
                   ELSE table.arrival[r] + network.walk[table.to[r]][a]]

\* When a passenger who left row r is ready to board: after the change time at
\* the same area, at once after a walk.
ReadyAfter(r) ==
  [a \in Areas |-> IF a = table.to[r] THEN table.arrival[r] + ChangeTime
                   ELSE table.arrival[r] + network.walk[table.to[r]][a]]

\* Mutant of EdgeBy: a walk edge keeps the time the walk starts.
EdgeByDeparture(r, a) ==
  IF a = table.to[r] THEN [kind |-> "connection", row |-> r]
  ELSE [kind |-> "walk", from |-> table.to[r], time |-> table.arrival[r]]

EdgeBy(r, a) ==
  IF a = table.to[r] THEN [kind |-> "connection", row |-> r]
  ELSE [kind |-> "walk", from |-> table.to[r], time |-> Alight(r)[a]]

\* Mutant of Improves: an equal arrival replaces the edge.
ImprovesOrTies(r, a) == Alight(r)[a] <= arrival[a] /\ arrival[a] # Never

\* Leaving row r reaches area a before anything found so far.
Improves(r, a) == Alight(r)[a] < arrival[a]

\* The rows of the open bucket that row r brings into the queue: its own
\* continuation, and those at areas where one is now ready earlier.
Joining(r) ==
  {q \in Rows \ taken :
     /\ table.departure[q] = bucket
     /\ \/ q \in Continuation(r)
        \/ /\ table.dropOff[r]
           /\ ReadyAfter(r)[table.from[q]] < ready[table.from[q]]
           /\ table.pickup[q]
           /\ ReadyAfter(r)[table.from[q]] <= table.departure[q]}

\* One row: its continuation is authorized, and if it may be left, the areas
\* it leads to are reached.
ProcessRow(r) ==
  /\ open /\ r \in queue
  /\ authorized' = authorized \cup {r} \cup Continuation(r)
  /\ IF table.dropOff[r]
     THEN /\ arrival' = [a \in Areas |-> Earlier(arrival[a], Alight(r)[a])]
          /\ ready' = [a \in Areas |-> Earlier(ready[a], ReadyAfter(r)[a])]
          /\ edge' = [a \in Areas |-> IF Improves(r, a) THEN EdgeBy(r, a)
                                      ELSE edge[a]]
     ELSE UNCHANGED <<arrival, ready, edge>>
  /\ queue' = (queue \ {r}) \cup Joining(r)
  /\ taken' = taken \cup Joining(r)
  /\ UNCHANGED <<network, unseeded, bucket, open>>

CloseBucket ==
  /\ open /\ queue = {}
  /\ open' = FALSE
  /\ UNCHANGED <<network, unseeded, bucket, arrival, ready, edge, authorized,
                 taken, queue>>

Next ==
  \/ \E s \in unseeded : TakeSeed(s)
  \/ \E minute \in Times : OpenBucket(minute)
  \/ \E r \in Rows : ProcessRow(r)
  \/ CloseBucket

Spec == Init /\ [][Next]_vars

\* The scan has returned.
Done ==
  /\ unseeded = {} /\ ~open
  /\ \A r \in Rows : table.departure[r] <= bucket

-------------------------------------------------------------------------------
(* What a journey is, without a scan.                                         *)

\* Row q can be ridden directly after row p: by staying seated, after a change
\* in the same area, or after a walk to another one.
Follows(p, q) ==
  \/ q \in Continuation(p)
  \/ /\ table.dropOff[p] /\ table.pickup[q]
     /\ table.from[q] = table.to[p]
     /\ table.arrival[p] + ChangeTime <= table.departure[q]
  \/ /\ table.dropOff[p] /\ table.pickup[q]
     /\ table.from[q] # table.to[p]
     /\ table.arrival[p] + network.walk[table.to[p]][table.from[q]]
          <= table.departure[q]

\* Row r can be boarded straight from an access seed.
Starts(r) ==
  /\ table.pickup[r]
  /\ \E s \in network.seeds :
       s.area = table.from[r] /\ s.time <= table.departure[r]

\* The sets of rows that hold every row a participant can ride.
ClosedSets ==
  {S \in SUBSET Rows :
     /\ \A r \in Rows : Starts(r) => r \in S
     /\ \A p \in S : \A q \in Rows : Follows(p, q) => q \in S}

\* Row r is ridden on some journey.
Rideable(r) == \A S \in ClosedSets : r \in S

\* Some journey reaches area a at that time: an access seed, or a ride that is
\* left there or at another area a short walk away.
Reaches(a, time) ==
  \/ \E s \in network.seeds : s.area = a /\ s.time = time
  \/ \E r \in Rows :
       /\ Rideable(r) /\ table.dropOff[r]
       /\ IF table.to[r] = a THEN table.arrival[r] = time
          ELSE table.arrival[r] + network.walk[table.to[r]][a] = time

-------------------------------------------------------------------------------
(* Properties.                                                                *)

\* Every variable has its type.
TypeOK ==
  /\ network \in [table : Timetable, seeds : SUBSET Seeds, walk : Walks]
  /\ unseeded \subseteq network.seeds
  /\ bucket \in Times \cup {-1}
  /\ open \in BOOLEAN
  /\ arrival \in [Areas -> 0 .. Never]
  /\ ready \in [Areas -> 0 .. Never]
  /\ edge \in [Areas -> Edges \cup {NoEdge}]
  /\ authorized \subseteq Rows
  /\ taken \subseteq Rows
  /\ queue \subseteq taken

\* Between two departure minutes no row that has departed was missed: each one
\* that could be boarded, or that the passenger sat in, was processed, although
\* rows of one minute feed one another and the scan never looks back.
NoDepartureMissed ==
  ~open => \A r \in Rows \ taken :
             table.departure[r] <= bucket =>
               ~Boardable(r) /\ r \notin authorized

\* The result of the scan: the arrival of an area is that of some journey, and
\* no journey within the horizon arrives earlier.
EarliestArrivalIsExact ==
  Done => \A a \in Areas :
            /\ arrival[a] # Never => Reaches(a, arrival[a])
            /\ \A time \in Times : Reaches(a, time) => arrival[a] <= time

\* The edge of an area explains its arrival at every moment of the scan: it is
\* the seed, the ridden row or the walk from an area a ridden row was left at
\* that arrives exactly then.
EdgeExplainsArrival ==
  \A a \in Areas :
    /\ (edge[a] = NoEdge) <=> (arrival[a] = Never)
    /\ edge[a] # NoEdge /\ edge[a].kind = "seed" =>
         [area |-> a, time |-> edge[a].time] \in network.seeds \ unseeded
           /\ arrival[a] = edge[a].time
    /\ edge[a] # NoEdge /\ edge[a].kind = "connection" =>
         LET r == edge[a].row IN
         /\ r \in taken \ queue
         /\ table.dropOff[r] /\ table.to[r] = a /\ arrival[a] = table.arrival[r]
    /\ edge[a] # NoEdge /\ edge[a].kind = "walk" =>
         /\ arrival[a] = edge[a].time
         /\ \E r \in taken \ queue :
              /\ table.dropOff[r] /\ table.to[r] = edge[a].from
              /\ arrival[a] = table.arrival[r] + network.walk[edge[a].from][a]

===============================================================================
