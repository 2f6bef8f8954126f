---------------------------- MODULE RoutingWindow ----------------------------
(***************************************************************************)
(* createScheduledRoutingWindow (lib/domain/scheduled-routing/router.ts):  *)
(* the rides of a schedule that lie in the day after a search start, as a  *)
(* table in order of departure, and the two caches that keep tables and    *)
(* windows.  A call runs to its end before the next one begins, so that    *)
(* the steps of a call are seen by no other; but its deadline can stop it  *)
(* between any two of them.                                                *)
(***************************************************************************)
EXTENDS ScheduleLoader

CONSTANTS
    Scenarios,          \* families of: feeds loaded, search starts tried, calls made
    Options,            \* walking speed, transfer radius and change time
    MaxTables,          \* MAX_CACHED_CONNECTION_TABLES
    MaxWindows,         \* MAX_CACHED_ROUTING_WINDOWS
    MaxRows,            \* MAX_CACHED_ROUTING_BYTES, in rows of a table
    NoCall, NoWindow

VARIABLES
    feeds,              \* the feeds the loader reads, in turn
    starts,             \* the search starts tried
    schedules,          \* the artifact objects it has returned
    serviceIds,         \* serviceIdsByArtifactAndDate
    tableCache,         \* routingConnectionTableCache, the oldest first
    cachedRows,         \* cachedRoutingBytes
    windowCache,        \* routingWindowCache, in its order
    call,               \* the running call
    streams,            \* its cursors, one for each date with service
    rows,               \* the table it builds or has found
    window,             \* what the last call returned
    callsLeft           \* bound

\* A running call: getOrCreateConnectionTable with the next date to open a
\* cursor for, or the window made around the table.
Calls == [object : Nat, start : Int, options : Options, timed : BOOLEAN,
          phase : {"materialize", "wrap"}, date : Int]

\* The feeds are parsed, and carry the license metadata of ScheduleLoader.
ASSUME WindowAssumption ==
    /\ \A family \in Scenarios : \A s \in family :
          /\ s.feeds \in Seq(ToSet(s.feeds))
          /\ \A i \in DOMAIN s.feeds : /\ IsParsed(s.feeds[i])
                                       /\ s.feeds[i].info \in FeedInfos
                                       /\ s.feeds[i].attributions \in Attributions
          /\ s.starts \subseteq Int /\ s.calls \in Nat
    /\ {MaxTables, MaxWindows, MaxRows} \subseteq Nat \ {0}
    /\ NoCall \notin Calls

cacheVars == <<tableCache, cachedRows, windowCache>>
windowVars == <<feeds, starts, schedules, serviceIds, cacheVars, call, streams, rows, window, callsLeft>>

WindowInit ==
    /\ \E family \in Scenarios : \E s \in family :
          feeds = s.feeds /\ starts = s.starts /\ callsLeft = s.calls
    /\ schedules = <<>> /\ serviceIds = {}
    /\ tableCache = <<>> /\ cachedRows = 0 /\ windowCache = <<>>
    /\ call = NoCall /\ streams = <<>> /\ rows = <<>> /\ window = NoWindow

\* The loader returns a new object, which may be of the same artifact.
Import ==
    /\ call = NoCall /\ Len(schedules) < Len(feeds)
    /\ schedules' = Append(schedules, compileScheduledArtifact(feeds[Len(schedules) + 1]))
    /\ UNCHANGED <<feeds, starts, serviceIds, cacheVars, call, streams, rows, window, callsLeft>>

\* compiledArtifactId: equal for equal feeds.
ArtifactId(o) == Min({p \in DOMAIN feeds : feeds[p] = feeds[o]})

-----------------------------------------------------------------------------
(* Dates. *)

\* serviceDateForEpochSeconds
ServiceDate(time) == Max({d \in Dates : Anchor[d] <= time})

FirstCandidateOfStart(o, start) == ServiceDate(start)

\* serviceDateRangeForSearch
FirstCandidate(o, start) == ServiceDate(start) - schedules[o].maximumTime \div Day
LastCandidate(start) == ServiceDate(start + Day)

\* activeServiceIdsForDate without its cache.
ActiveServices(a, d) ==
    IF d \notin a.firstDate .. a.lastDate THEN {}
    ELSE ({s \in Services : InCalendar(a, s, d)} \cup {s \in Services : Excepted(a, s, d, "added")})
            \ {s \in Services : Excepted(a, s, d, "removed")}

-----------------------------------------------------------------------------
(* The caches are insertion-ordered maps: an entry that is touched moves to *)
(* the end, one that is set again stays.                                    *)

Key(o, start, options) == [id |-> ArtifactId(o), start |-> start, options |-> options]

Touched(cache, entry) ==
    IF Contains(cache, entry)
    THEN LET place == CHOOSE i \in DOMAIN cache : cache[i] = entry
         IN  Append(RemoveAt(cache, place), entry)
    ELSE cache

TablesOf(o, start) == {e \in ToSet(tableCache) : e.object = o /\ e.start = start}
WindowsOf(key) == {e \in ToSet(windowCache) : e.key = key}

\* A call with a deadline callback does not use the cache of windows.
FoundWindow(o, start, options, timed) ==
    {e \in WindowsOf(Key(o, start, options)) : ~timed /\ e.object = o}

Begins(o, start) ==
    /\ call = NoCall /\ callsLeft > 0
    /\ schedules[o] # Rejected
    /\ start \in schedules[o].earliest .. schedules[o].latest
    /\ callsLeft' = callsLeft - 1

\* validateScheduledSearchWindow
OutOfBounds(o, start) ==
    /\ call = NoCall /\ callsLeft > 0
    /\ schedules[o] # Rejected
    /\ start \notin schedules[o].earliest .. schedules[o].latest
    /\ callsLeft' = callsLeft - 1 /\ window' = NoWindow
    /\ UNCHANGED <<feeds, starts, schedules, serviceIds, cacheVars, call, streams, rows>>

\* The window is cached.
HitWindow(o, start, options) ==
    /\ Begins(o, start)
    /\ \E e \in FoundWindow(o, start, options, FALSE) :
          /\ windowCache' = Touched(windowCache, e)
          /\ tableCache' = Touched(tableCache, e.table)
          /\ window' = [object |-> o, start |-> start, rows |-> e.table.rows]
    /\ UNCHANGED <<feeds, starts, schedules, serviceIds, cachedRows, call, streams, rows>>

\* Only the table is.
HitTable(o, start, options, timed) ==
    /\ Begins(o, start)
    /\ FoundWindow(o, start, options, timed) = {}
    /\ \E e \in TablesOf(o, start) :
          /\ tableCache' = Touched(tableCache, e)
          /\ rows' = e.rows
    /\ call' = [object |-> o, start |-> start, options |-> options, timed |-> timed,
                phase |-> "wrap", date |-> 0]
    /\ window' = NoWindow
    /\ UNCHANGED <<feeds, starts, schedules, serviceIds, cachedRows, windowCache, streams>>

Miss(o, start, options, timed) ==
    /\ Begins(o, start)
    /\ FoundWindow(o, start, options, timed) = {}
    /\ TablesOf(o, start) = {}
    /\ call' = [object |-> o, start |-> start, options |-> options, timed |-> timed,
                phase |-> "materialize", date |-> FirstCandidate(o, start)]
    /\ window' = NoWindow
    /\ UNCHANGED <<feeds, starts, schedules, serviceIds, cacheVars, streams, rows>>

\* deadlineCheck throws.
Expire ==
    /\ call # NoCall /\ call.timed
    /\ call' = NoCall /\ streams' = <<>> /\ rows' = <<>>
    /\ UNCHANGED <<feeds, starts, schedules, serviceIds, cacheVars, window, callsLeft>>

-----------------------------------------------------------------------------
(* materializeConnections: one cursor for each date, merged by a heap. *)

Source(i) == schedules[call.object].connections[i]
Departs(c, i) == Anchor[c.date] + Source(i).departure
Arrives(c, i) == Anchor[c.date] + Source(i).arrival

\* createScheduledConnectionDateStream: the connections of a service day that
\* depart in the window are between two binary searches.
CursorRange(d) ==
    {i \in DOMAIN schedules[call.object].connections :
        Source(i).departure \in call.start - Anchor[d] .. call.start + Day - Anchor[d]}

\* advanceScheduledConnectionDateCursor: to the next active connection that
\* arrives in the window; those passed over end the continuation of their trip.
Advanced(c) ==
    LET active == {i \in c.range : i > c.index /\ Source(i).service \in c.active}
        fits == {i \in active : Arrives(c, i) <= call.start + Day}
        next == IF fits = {} THEN 0 ELSE Min(fits)
        passed == {i \in active : next = 0 \/ i < next}
    IN  [c EXCEPT !.candidate = next,
                  !.index = IF next = 0 THEN Max(c.range \cup {0}) ELSE next,
                  !.previousRow = [t \in Trips |-> IF \E i \in passed : Source(i).trip = t
                                                   THEN 0 ELSE @[t]]]

Cached(id, d) == {e \in serviceIds : e.id = id /\ e.date = d}

OpenStream ==
    /\ call # NoCall /\ call.phase = "materialize" /\ call.date <= LastCandidate(call.start)
    /\ LET id == ArtifactId(call.object)
           found == Cached(id, call.date)
           active == IF found # {} THEN (CHOOSE e \in found : TRUE).services
                     ELSE ActiveServices(schedules[call.object], call.date)
           cursor == [date |-> call.date, active |-> active, range |-> CursorRange(call.date),
                      index |-> 0, candidate |-> 0, previousRow |-> [t \in Trips |-> 0]]
       IN  /\ serviceIds' = serviceIds \cup {[id |-> id, date |-> call.date, services |-> active]}
           /\ streams' = IF active = {} THEN streams ELSE Append(streams, Advanced(cursor))
    /\ call' = [call EXCEPT !.date = @ + 1]
    /\ UNCHANGED <<feeds, starts, schedules, cacheVars, rows, window, callsLeft>>

Merging ==
    call # NoCall /\ call.phase = "materialize" /\ call.date > LastCandidate(call.start)

Waiting == {k \in DOMAIN streams : streams[k].candidate # 0}

\* compareHeapEntries
HeapKey(k) ==
    LET c == streams[k]
    IN  <<Departs(c, c.candidate)>> \o SortKey(Source(c.candidate))
          \o <<Arrives(c, c.candidate), k>>

\* The heap's least cursor becomes a row, and the row of the same trip before
\* it continues in it.
MergeRow ==
    /\ Merging
    /\ \E k \in Waiting :
          /\ \A other \in Waiting \ {k} : Precedes(HeapKey(k), HeapKey(other))
          /\ LET c == streams[k]
                 trip == Source(c.candidate).trip
                 row == [source |-> c.candidate, date |-> c.date,
                         departure |-> Departs(c, c.candidate) - call.start,
                         arrival |-> Arrives(c, c.candidate) - call.start,
                         continuation |-> 0]
             IN  /\ rows' = Append(IF c.previousRow[trip] = 0 THEN rows
                                   ELSE [rows EXCEPT ![c.previousRow[trip]].continuation = Len(rows) + 1],
                                   row)
                 /\ streams' = [streams EXCEPT ![k] =
                                  Advanced([c EXCEPT !.previousRow[trip] = Len(rows) + 1])]
    /\ UNCHANGED <<feeds, starts, schedules, serviceIds, cacheVars, call, window, callsLeft>>

-----------------------------------------------------------------------------
(* getOrCreateConnectionTable keeps the table. *)

\* The rows of the tables of a cache, which are of different starts or schedules.
RowsOf(cache) ==
    Cardinality({p \in ToSet(cache) \X (1 .. MaxRows) : p[2] <= Len(p[1].rows)})

\* Whether a table of the rows now built can join these tables.
Room(cache) == Len(cache) < MaxTables /\ RowsOf(cache) + Len(rows) <= MaxRows

\* evictCachedConnectionTable: the oldest tables, with the windows that use them.
Kept == SubSeq(tableCache,
               1 + Min({n \in 0 .. Len(tableCache) :
                          n = Len(tableCache) \/ Room(SubSeq(tableCache, n + 1, Len(tableCache)))}),
               Len(tableCache))

EveryWindow == windowCache

WindowsOfKept ==
    LET stay == {i \in DOMAIN windowCache : Contains(Kept, windowCache[i].table)}
        Place(n) == CHOOSE i \in stay : Cardinality({h \in stay : h < i}) = n - 1
    IN  [n \in 1 .. Cardinality(stay) |-> windowCache[Place(n)]]

FinishTable ==
    /\ Merging /\ Waiting = {}
    /\ IF Len(rows) > MaxRows THEN UNCHANGED cacheVars
       ELSE LET entry == [object |-> call.object, start |-> call.start, rows |-> rows]
            IN  /\ tableCache' = Append(Kept, entry)
                /\ cachedRows' = cachedRows - (RowsOf(tableCache) - RowsOf(Kept)) + Len(rows)
                /\ windowCache' = WindowsOfKept
    /\ call' = [call EXCEPT !.phase = "wrap"]
    /\ streams' = <<>>
    /\ UNCHANGED <<feeds, starts, schedules, serviceIds, rows, window, callsLeft>>

\* The window is made around the table, and kept unless it has a deadline
\* callback or its table is too large.
Wrap ==
    /\ call # NoCall /\ call.phase = "wrap"
    /\ window' = [object |-> call.object, start |-> call.start, rows |-> rows]
    /\ LET key == Key(call.object, call.start, call.options)
           left == IF Len(windowCache) >= MaxWindows THEN Tail(windowCache) ELSE windowCache
           entry == [key |-> key, object |-> call.object,
                     table |-> [object |-> call.object, start |-> call.start, rows |-> rows]]
       IN  windowCache' =
              IF call.timed THEN windowCache
              ELSE IF Len(rows) > MaxRows THEN left
              ELSE IF \E i \in DOMAIN left : left[i].key = key
                   THEN [i \in DOMAIN left |-> IF left[i].key = key THEN entry ELSE left[i]]
                   ELSE Append(left, entry)
    /\ call' = NoCall /\ rows' = <<>>
    /\ UNCHANGED <<feeds, starts, schedules, serviceIds, tableCache, cachedRows, streams, callsLeft>>

WindowNext ==
    \/ Import \/ Expire \/ OpenStream \/ MergeRow \/ FinishTable \/ Wrap
    \/ \E o \in DOMAIN schedules, start \in starts :
          \/ OutOfBounds(o, start)
          \/ \E options \in Options :
                \/ HitWindow(o, start, options)
                \/ \E timed \in BOOLEAN :
                      HitTable(o, start, options, timed) \/ Miss(o, start, options, timed)

WindowSpec == WindowInit /\ [][WindowNext]_windowVars

-----------------------------------------------------------------------------
(* Reference: the rides of a window, by the feed's calendars alone. *)

Runs(feed, s, d) ==
    \/ Excepted(feed, s, d, "added")
    \/ InCalendar(feed, s, d) /\ ~Excepted(feed, s, d, "removed")

\* A ride of a service day that a day shorter than Day ends before the search
\* begins, in a feed without times as late as the days since would be if none
\* were short.
HiddenByShortDay(o, d, start) ==
    /\ \E e \in Dates \ {Max(Dates)} :
          e >= d /\ Anchor[e + 1] <= start /\ Anchor[e + 1] - Anchor[e] < Day
    /\ schedules[o].maximumTime < Day * (ServiceDate(start) - d)

RidesIn(o, start) ==
    {ride \in (DOMAIN schedules[o].connections) \X Dates :
        LET c == schedules[o].connections[ride[1]]
        IN  /\ Runs(feeds[o], c.service, ride[2])
            /\ Anchor[ride[2]] + c.departure >= start
            /\ Anchor[ride[2]] + c.arrival <= start + Day}

\* The row in which a passenger of row r stays seated.
NextRows(connections, table, r) ==
    {q \in DOMAIN table :
        /\ table[q].date = table[r].date
        /\ connections[table[q].source].trip = connections[table[r].source].trip
        /\ connections[table[q].source].visit = connections[table[r].source].visit + 1}

\* The table holds the rides of its window, each once and in order, and a row
\* continues in the next ride of its trip on its service day.  Rides that a
\* short day hides may be absent.
HoldsRides(o, start, table) ==
    LET cs == schedules[o].connections
        rides == {<<table[r].source, table[r].date>> : r \in DOMAIN table}
    IN  /\ Cardinality(rides) = Len(table)
        /\ rides \subseteq RidesIn(o, start)
        /\ \A ride \in RidesIn(o, start) \ rides : HiddenByShortDay(o, ride[2], start)
        /\ \A r \in DOMAIN table :
              /\ table[r].departure = Anchor[table[r].date] + cs[table[r].source].departure - start
              /\ table[r].arrival = Anchor[table[r].date] + cs[table[r].source].arrival - start
              /\ r > 1 => table[r - 1].departure <= table[r].departure
              /\ NextRows(cs, table, r) = IF table[r].continuation = 0 THEN {} ELSE {table[r].continuation}

(* Properties. *)

CallsOK ==
    /\ \A o \in DOMAIN schedules :
          schedules[o] # Rejected => schedules[o].earliest <= schedules[o].latest
    /\ call # NoCall => call.phase \in {"materialize", "wrap"} /\ call.object \in DOMAIN schedules
    /\ \A k \in DOMAIN streams : streams[k].date < call.date /\ streams[k].candidate \in streams[k].range \cup {0}
    /\ \A r \in DOMAIN rows : rows[r].continuation \in {0} \cup (r + 1 .. Len(rows))
    /\ cachedRows \in 0 .. MaxRows

\* What a search is given are the rides of the feed: the compiled connections
\* offer a passenger what the trips do, and the window holds those of the day
\* after the search start (gtfs.ts:677, router.ts:616).
WindowIsOfFeed ==
    /\ CallsOK
    /\ \A o \in DOMAIN schedules :
          schedules[o] # Rejected => TripsAreKept(feeds[o], schedules[o].connections)
    /\ window # NoWindow => HoldsRides(window.object, window.start, window.rows)

\* What the compiler publishes the loader accepts: every schedule that compiles
\* passes the checks of writing and loading, under the license its feed names
\* (artifact.ts:840).
WhatCompilesLoads ==
    call = NoCall =>
        \A o \in DOMAIN schedules : schedules[o] # Rejected =>
            /\ Loads(schedules[o])
            /\ AttributionIsAgreed(feeds[o], schedules[o].official)

\* Whatever was evicted, expired or replaced, the caches hold what their keys
\* say: tables and windows of the rides of their own schedule and start,
\* services of their own date; and their limits and their byte counter hold
\* (router.ts:523).
CachesAreFresh ==
    /\ \A i, j \in DOMAIN tableCache :
          tableCache[i].object = tableCache[j].object /\ tableCache[i].start = tableCache[j].start => i = j
    /\ \A e \in ToSet(tableCache) : HoldsRides(e.object, e.start, e.rows)
    /\ \A i, j \in DOMAIN windowCache : windowCache[i].key = windowCache[j].key => i = j
    /\ \A e \in ToSet(windowCache) :
          /\ Contains(tableCache, e.table)
          /\ e.key.id = ArtifactId(e.object)
          /\ e.table.object = e.object /\ e.table.start = e.key.start
    /\ \A e \in serviceIds : \A o \in DOMAIN schedules :
          ArtifactId(o) = e.id => e.services = {s \in Services :
              Runs(feeds[o], s, e.date) /\ e.date \in schedules[o].firstDate .. schedules[o].lastDate}
    /\ cachedRows = RowsOf(tableCache) /\ cachedRows <= MaxRows
    /\ Len(tableCache) <= MaxTables /\ Len(windowCache) <= MaxWindows
=============================================================================
