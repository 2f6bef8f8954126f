-------------------------- MODULE ScheduleCompiler --------------------------
(***************************************************************************)
(* importGtfsSchedule (lib/domain/scheduled-routing/gtfs.ts): from a feed  *)
(* of trips, stop times and service calendars to the connections between   *)
(* areas that the router scans, and to the bounds of the searches they     *)
(* allow.  The parts a feed brings but no search depends on (agency,       *)
(* routes, names, coordinates, hashes) are left out.  Times are minutes:   *)
(* gtfsTime drops the seconds before anything looks at them.               *)
(***************************************************************************)
EXTENDS Integers, FiniteSetsExt, SequencesExt

CONSTANTS
    Trips, Services,    \* ids, numbered in the order in which they sort
    Dates,              \* service dates, consecutive
    Anchor,             \* serviceDateAnchorEpochSeconds: when a service date begins
    Day,                \* SECONDS_PER_DAY and ROUTING_HORIZON_SECONDS, in minutes
    DaysPerWeek,
    Rejected            \* the import failed

ASSUME ScheduleAssumption ==
    /\ Trips \subseteq Nat /\ IsFiniteSet(Trips) /\ Trips # {}
    /\ Services \subseteq Nat
    /\ Day \in Nat \ {0} /\ DaysPerWeek \in Nat \ {0}
    /\ Min(Dates) \in Int /\ Max(Dates) \in Int
    /\ Dates = Min(Dates) .. Max(Dates)
    /\ Anchor \in [Dates -> Nat]
    /\ \A d \in Dates \ {Max(Dates)} : Anchor[d] < Anchor[d + 1]

-----------------------------------------------------------------------------
(* A feed: stopTimes[trip] is the sequence of the trip's stop times, each   *)
(* [area, arrival, departure, pickup, dropOff]; service[trip] its service;  *)
(* calendars gives some services [from, until, weekdays]; exceptions maps   *)
(* some pairs of service and date to "added" or "removed".                  *)

\* What parsing the tables makes sure of.  Dates reaches beyond every feed.
IsParsed(feed) ==
    /\ \A t \in Trips :
          LET s == feed.stopTimes[t]
          IN  /\ s \in Seq(ToSet(s))
              /\ \A i \in DOMAIN s : /\ s[i].arrival \in Nat /\ s[i].departure \in Nat
                                     /\ s[i].pickup \in BOOLEAN /\ s[i].dropOff \in BOOLEAN
              /\ feed.service[t] \in Services
    /\ feed.validFrom \in Int /\ Min(Dates) < feed.validFrom
    /\ feed.validUntil \in Int /\ feed.validUntil < Max(Dates)

\* groupTripIntoAreaVisits: consecutive stops of one area are one visit.
VisitOf(s, i) == 1 + Cardinality({j \in 2 .. i : s[j].area # s[j - 1].area})

VisitAtLastStop(s, v) ==
    LET stops == {i \in DOMAIN s : VisitOf(s, i) = v}
        pickups == {i \in stops : s[i].pickup}
        dropOffs == {i \in stops : s[i].dropOff}
    IN  [area |-> s[Min(stops)].area,
         departure |-> Max({s[i].departure : i \in IF pickups = {} THEN stops ELSE pickups}),
         arrival |-> Min({s[i].arrival : i \in IF dropOffs = {} THEN stops ELSE dropOffs}),
         pickup |-> pickups # {}, dropOff |-> dropOffs # {}]

\* buildAreaVisit: a visit departs at its first pickup and arrives at its
\* first drop-off; a visit without any keeps the times of the trip.
Visit(s, v) ==
    LET stops == {i \in DOMAIN s : VisitOf(s, i) = v}
        pickups == {i \in stops : s[i].pickup}
        dropOffs == {i \in stops : s[i].dropOff}
    IN  [area |-> s[Min(stops)].area,
         departure |-> Min({s[i].departure : i \in IF pickups = {} THEN stops ELSE pickups}),
         arrival |-> Min({s[i].arrival : i \in IF dropOffs = {} THEN stops ELSE dropOffs}),
         pickup |-> pickups # {}, dropOff |-> dropOffs # {}]

Connection(feed, t, v) ==
    LET a == Visit(feed.stopTimes[t], v)
        b == Visit(feed.stopTimes[t], v + 1)
    IN  [trip |-> t, service |-> feed.service[t], visit |-> v,
         from |-> a.area, departure |-> a.departure, pickup |-> a.pickup,
         to |-> b.area, arrival |-> b.arrival, dropOff |-> b.dropOff]

TripConnections(feed, t) ==
    LET s == feed.stopTimes[t]
    IN  {Connection(feed, t, v) : v \in 1 .. VisitOf(s, Len(s)) - 1}

\* compareScheduledConnections.
SortKey(c) == <<c.departure, c.arrival, c.service, c.trip, c.visit>>

Precedes(a, b) ==
    \E i \in DOMAIN a : a[i] < b[i] /\ \A j \in 1 .. i - 1 : a[j] = b[j]

\* The connections of all trips, each at its rank.
Connections(feed) ==
    LET all == UNION {TripConnections(feed, t) : t \in Trips}
        Rank(c) == Cardinality({d \in all : Precedes(SortKey(d), SortKey(c))})
    IN  [n \in 1 .. Cardinality(all) |-> CHOOSE c \in all : Rank(c) = n - 1]

\* parseConnections accepts the trip.
Chronological(s) ==
    /\ Len(s) >= 2
    /\ \A i \in DOMAIN s : s[i].arrival <= s[i].departure
    /\ \A i \in 2 .. Len(s) : s[i - 1].departure <= s[i].arrival

-----------------------------------------------------------------------------
(* Services. *)

Weekday(d) == d % DaysPerWeek

Excepted(feed, s, d, kind) ==
    <<s, d>> \in DOMAIN feed.exceptions /\ feed.exceptions[<<s, d>>] = kind

InCalendar(feed, s, d) ==
    /\ s \in DOMAIN feed.calendars
    /\ d \in feed.calendars[s].from .. feed.calendars[s].until
    /\ Weekday(d) \in feed.calendars[s].weekdays

\* calendarActiveBoundaryDates: the first and the last day the calendar has
\* after removals.
BoundaryDates(feed, s) ==
    LET active == {d \in Dates : InCalendar(feed, s, d) /\ ~Excepted(feed, s, d, "removed")}
    IN  IF active = {} THEN {} ELSE {Min(active), Max(active)}

AdditionDates(feed, s) == {d \in Dates : Excepted(feed, s, d, "added")}

\* The dates deriveServiceDateRange looks at.
RangeDates(feed) ==
    UNION {BoundaryDates(feed, feed.service[t]) \cup AdditionDates(feed, feed.service[t]) :
              t \in Trips}

\* validateServices
HasServices(feed) ==
    \A t \in Trips : BoundaryDates(feed, feed.service[t]) \cup AdditionDates(feed, feed.service[t]) # {}

\* Mutant of MaximumTime: the last departure.
LastDeparture(connections) == Max({0} \cup {c.departure : c \in ToSet(connections)})

\* maximumConnectionTimeSeconds
MaximumTime(connections) == Max({0} \cup {c.arrival : c \in ToSet(connections)}
                                    \cup {c.departure : c \in ToSet(connections)})

\* deriveSearchStartBounds: what runs before the first date cannot reach into a
\* search, and a search ends before the day after the last date begins.
Earliest(first, maximum) == Max({Anchor[first], Anchor[first - 1] + maximum + 1})
Latest(last) == Anchor[last + 1] - Day - 1

\* official: the attribution the artifact carries.
ImportSchedule(feed, official) ==
    LET connections == Connections(feed)
        first == Min(RangeDates(feed))
        last == Max(RangeDates(feed))
        maximum == MaximumTime(connections)
    IN  IF /\ \A s \in DOMAIN feed.calendars : feed.calendars[s].from <= feed.calendars[s].until
           /\ \A t \in Trips : Chronological(feed.stopTimes[t])
           /\ HasServices(feed)
           /\ first >= feed.validFrom /\ last <= feed.validUntil
           /\ Earliest(first, maximum) <= Latest(last)
        THEN [connections |-> connections, service |-> feed.service,
              calendars |-> feed.calendars, exceptions |-> feed.exceptions,
              firstDate |-> first, lastDate |-> last, maximumTime |-> maximum,
              earliest |-> Earliest(first, maximum), latest |-> Latest(last),
              official |-> official]
        ELSE Rejected

-----------------------------------------------------------------------------
(* Properties of the compiler. *)

\* What a passenger can do with a trip, by its stop times: board at a pickup
\* and leave at a drop-off after the trip has changed areas.
Hops(feed, t) ==
    LET s == feed.stopTimes[t]
    IN  {[from |-> s[p[1]].area, departure |-> s[p[1]].departure,
          to |-> s[p[2]].area, arrival |-> s[p[2]].arrival] :
            p \in {q \in (DOMAIN s) \X (DOMAIN s) :
                     /\ q[1] < q[2] /\ s[q[1]].pickup /\ s[q[2]].dropOff
                     /\ \E m \in q[1] + 1 .. q[2] : s[m].area # s[q[1]].area}}

\* The same by the connections: board one, stay seated, leave from one.
Legs(connections, t) ==
    LET own == {c \in ToSet(connections) : c.trip = t}
    IN  {[from |-> p[1].from, departure |-> p[1].departure,
          to |-> p[2].to, arrival |-> p[2].arrival] :
            p \in {q \in own \X own : q[1].visit <= q[2].visit /\ q[1].pickup /\ q[2].dropOff}}

\* The connections offer nothing the trip does not do, and whoever is at the
\* stop in time for the trip is offered all that the trip does
\* (gtfs.ts:677).
TripsAreKept(feed, connections) ==
    \A t \in Trips :
        /\ Legs(connections, t) \subseteq Hops(feed, t)
        /\ \A h \in Hops(feed, t) :
              \E l \in Legs(connections, t) :
                  /\ l.from = h.from /\ l.departure <= h.departure
                  /\ l.to = h.to /\ l.arrival <= h.arrival
=============================================================================
