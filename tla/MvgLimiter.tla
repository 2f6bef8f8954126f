------------------------------ MODULE MvgLimiter ------------------------------
(***************************************************************************)
(* The shared upstream limiter of lib/providers/mvg-limiter.ts, the HTTP   *)
(* requests it bounds (lib/providers/http.ts), and its two users: the      *)
(* nearby-station lookups of a calculation (lib/providers/mvg-nearby.ts)   *)
(* and the location searches of the page (lib/providers/mvg-locations.ts). *)
(* A caller stops waiting as soon as its signal aborts, but its limiter    *)
(* slot is given back only when the upstream request has settled.  A nearby*)
(* lookup passes its signal on to the request and looks into its cache     *)
(* before it asks for a slot; a search does neither.                       *)
(***************************************************************************)
EXTENDS Integers, Sequences, FiniteSets

CONSTANTS
  Lookups,    (* the calls of fetchMvgNearbyStations, searchMvgLocations    *)
  Searches,   (* those of searchMvgLocations                                *)
  Signals,    (* the abort signals, each shared by the lookups of a request *)
  SignalOf,   (* Lookups -> Signals                                         *)
  Places,     (* the rounded coordinates and queries that key the caches    *)
  PlaceOf,    (* Lookups -> Places                                          *)
  Maximum     (* MVG_MAX_CONCURRENCY                                        *)

ASSUME MvgLimiterAssumption ==
  /\ Searches \subseteq Lookups
  /\ SignalOf \in [Lookups -> Signals]
  /\ PlaceOf \in [Lookups -> Places]
  /\ Maximum \in Nat \ {0}

VARIABLES
  caller,     (* what the awaiting caller sees of each lookup               *)
  job,        (* what the limiter knows of each lookup                      *)
  queue,      (* the limiter's waiting start functions                      *)
  active,     (* the limiter's counter                                      *)
  aborted,    (* the signals that have been aborted                         *)
  fresh       (* the places with an unexpired cache entry                   *)

vars == <<caller, job, queue, active, aborted, fresh>>

Init ==
  /\ caller = [l \in Lookups |-> "idle"]
  /\ job = [l \in Lookups |-> "none"]
  /\ queue = <<>>
  /\ active = 0
  /\ aborted = {}
  /\ fresh = {}

-------------------------------------------------------------------------------
\* Only a nearby lookup looks into its cache before it asks the limiter.
HitsCache(l) == PlaceOf[l] \in fresh /\ l \notin Searches

\* The cached stations are returned without asking the limiter.
FetchCached(l) ==
  /\ caller[l] = "idle"
  /\ HitsCache(l)
  /\ caller' = [caller EXCEPT ![l] = "served"]
  /\ UNCHANGED <<job, queue, active, aborted, fresh>>

\* run() with an aborted signal rejects at once.
FetchAborted(l) ==
  /\ caller[l] = "idle"
  /\ ~HitsCache(l)
  /\ SignalOf[l] \in aborted
  /\ caller' = [caller EXCEPT ![l] = "failed"]
  /\ UNCHANGED <<job, queue, active, aborted, fresh>>

\* Mutant of Fetch: the newest lookup goes to the head of the queue.
FetchAhead(l) ==
  /\ caller[l] = "idle"
  /\ ~HitsCache(l)
  /\ SignalOf[l] \notin aborted
  /\ caller' = [caller EXCEPT ![l] = "waiting"]
  /\ IF active < Maximum
     THEN /\ active' = active + 1
          /\ job' = [job EXCEPT ![l] = "connecting"]
          /\ UNCHANGED queue
     ELSE /\ queue' = <<l>> \o queue
          /\ job' = [job EXCEPT ![l] = "queued"]
          /\ UNCHANGED active
  /\ UNCHANGED <<aborted, fresh>>

\* run(): start at once below the maximum, otherwise queue behind the others.
Fetch(l) ==
  /\ caller[l] = "idle"
  /\ ~HitsCache(l)
  /\ SignalOf[l] \notin aborted
  /\ caller' = [caller EXCEPT ![l] = "waiting"]
  /\ IF active < Maximum
     THEN /\ active' = active + 1
          /\ job' = [job EXCEPT ![l] = "connecting"]
          /\ UNCHANGED queue
     ELSE /\ queue' = Append(queue, l)
          /\ job' = [job EXCEPT ![l] = "queued"]
          /\ UNCHANGED active
  /\ UNCHANGED <<aborted, fresh>>

\* Mutant of StartCount: startNext() runs before the counter is decremented.
StartCountEarly ==
  LET room == Maximum - active IN
  IF Len(queue) < room THEN Len(queue) ELSE room

\* How many queued lookups startNext() starts once a slot has been given
\* back.  None of them is aborted: abort takes a lookup out of the queue.
StartCount ==
  LET room == Maximum - (active - 1) IN
  IF Len(queue) < room THEN Len(queue) ELSE room

\* The slot is taken: the request waits for the head of the response, for its
\* body, or for fetch to notice that its controller was aborted.
Running == {"connecting", "reading", "stopped"}

\* The upstream operation of l settles and its finally block gives the slot
\* to the head of the queue.
Settle(l, ended) ==
  LET started == {queue[i] : i \in 1 .. StartCount} IN
  /\ active' = active - 1 + StartCount
  /\ queue' = SubSeq(queue, StartCount + 1, Len(queue))
  /\ job' = [k \in Lookups |-> IF k = l THEN "ended"
                               ELSE IF k \in started THEN "connecting" ELSE job[k]]
  /\ caller' = [caller EXCEPT ![l] = IF @ = "waiting" THEN ended ELSE @]
  /\ UNCHANGED aborted

\* fetch resolves with a response that is ok and comes from the endpoint.
Respond(l) ==
  /\ job[l] = "connecting"
  /\ job' = [job EXCEPT ![l] = "reading"]
  /\ UNCHANGED <<caller, queue, active, aborted, fresh>>

\* The body is whole, within its bound and well-formed.  A nearby lookup stores
\* the stations if its caller still waits, a search is cached in any case.
UpstreamAnswers(l) ==
  /\ job[l] = "reading"
  /\ Settle(l, "served")
  /\ fresh' = IF caller[l] = "waiting" \/ l \in Searches
              THEN fresh \cup {PlaceOf[l]} ELSE fresh

\* A search holds its slot while the framework answers it from its cache.
SearchIsCached(l) ==
  /\ job[l] = "connecting"
  /\ l \in Searches
  /\ PlaceOf[l] \in fresh
  /\ Settle(l, "served")
  /\ UNCHANGED fresh

\* Mutant of UpstreamFails: the finally block does not start the next lookup.
UpstreamFailsForgetsNext(l) ==
  /\ job[l] \in Running
  /\ active' = active - 1
  /\ job' = [job EXCEPT ![l] = "ended"]
  /\ caller' = [caller EXCEPT ![l] = IF @ = "waiting" THEN "failed" ELSE @]
  /\ UNCHANGED <<queue, aborted, fresh>>

\* The network fails, the status or the URL is not the expected one, the body is
\* too large or malformed, or the stopped fetch rejects.
UpstreamFails(l) ==
  /\ job[l] \in Running
  /\ Settle(l, "failed")
  /\ UNCHANGED fresh

\* Mutant of TimerFires: the timer ends with the head of the response.
TimerFiresWhileConnecting(l) ==
  /\ job[l] = "connecting"
  /\ job' = [job EXCEPT ![l] = "stopped"]
  /\ UNCHANGED <<caller, queue, active, aborted, fresh>>

\* The timeout aborts the request's own controller; it runs until the body has
\* been read.
TimerFires(l) ==
  /\ job[l] \in {"connecting", "reading"}
  /\ job' = [job EXCEPT ![l] = "stopped"]
  /\ UNCHANGED <<caller, queue, active, aborted, fresh>>

\* What abort does to the job of a concerned lookup.
Aborted(l) ==
  IF job[l] = "queued" THEN "ended"
  ELSE IF job[l] \in Running /\ l \notin Searches THEN "stopped"
  ELSE job[l]

\* The queue without the lookups of a signal; the others keep their order.
QueueWithout(s) ==
  LET stay == {i \in DOMAIN queue : SignalOf[queue[i]] # s}
      At(n) == CHOOSE i \in stay : Cardinality({h \in stay : h < i}) = n - 1
  IN  [n \in 1 .. Cardinality(stay) |-> queue[At(n)]]

\* Mutant of Abort: the slots of aborted operations are given back at once.
AbortFreesSlots(s) ==
  LET concerned == {l \in Lookups : SignalOf[l] = s} IN
  /\ s \notin aborted
  /\ aborted' = aborted \cup {s}
  /\ queue' = QueueWithout(s)
  /\ job' = [l \in Lookups |-> IF l \in concerned THEN Aborted(l) ELSE job[l]]
  /\ caller' = [l \in Lookups |-> IF l \in concerned /\ caller[l] = "waiting"
                                  THEN "failed" ELSE caller[l]]
  /\ active' = active - Cardinality({l \in concerned : job[l] \in Running})
  /\ UNCHANGED fresh

\* Mutant of Abort: the aborted lookups stay in the queue.
AbortLeavesQueue(s) ==
  LET concerned == {l \in Lookups : SignalOf[l] = s} IN
  /\ s \notin aborted
  /\ aborted' = aborted \cup {s}
  /\ job' = [l \in Lookups |-> IF l \in concerned THEN Aborted(l) ELSE job[l]]
  /\ caller' = [l \in Lookups |-> IF l \in concerned /\ caller[l] = "waiting"
                                  THEN "failed" ELSE caller[l]]
  /\ UNCHANGED <<queue, active, fresh>>

\* controller.abort(): every lookup of the signal stops waiting; those still
\* queued leave the queue, those running keep their slot.  Only the request of
\* a nearby lookup is stopped: the search's fill was given no signal.
Abort(s) ==
  LET concerned == {l \in Lookups : SignalOf[l] = s} IN
  /\ s \notin aborted
  /\ aborted' = aborted \cup {s}
  /\ queue' = QueueWithout(s)
  /\ job' = [l \in Lookups |-> IF l \in concerned THEN Aborted(l) ELSE job[l]]
  /\ caller' = [l \in Lookups |-> IF l \in concerned /\ caller[l] = "waiting"
                                  THEN "failed" ELSE caller[l]]
  /\ UNCHANGED <<active, fresh>>

\* A cache entry reaches the end of its time to live.
Expire(p) ==
  /\ p \in fresh
  /\ fresh' = fresh \ {p}
  /\ UNCHANGED <<caller, job, queue, active, aborted>>

Upstream(l) ==
  Respond(l) \/ UpstreamAnswers(l) \/ UpstreamFails(l) \/ SearchIsCached(l)

Next ==
  \/ \E l \in Lookups :
       FetchCached(l) \/ FetchAborted(l) \/ Fetch(l) \/ Upstream(l) \/ TimerFires(l)
  \/ \E s \in Signals : Abort(s)
  \/ \E p \in Places : Expire(p)

Spec == Init /\ [][Next]_vars

\* A timer that is not cleared fires, and an aborted fetch or read rejects.
\* Nothing is assumed of the upstream service.
Fairness ==
  \A l \in Lookups : /\ WF_vars(TimerFires(l))
                     /\ WF_vars(job[l] = "stopped" /\ UpstreamFails(l))

FairSpec == Spec /\ Fairness

-------------------------------------------------------------------------------
(* Properties.                                                             *)

\* Every variable has its type.
TypeOK ==
  /\ caller \in [Lookups -> {"idle", "waiting", "served", "failed"}]
  /\ job \in [Lookups -> {"none", "queued", "ended"} \cup Running]
  /\ queue \in Seq(Lookups)
  /\ active \in Int
  /\ aborted \subseteq Signals
  /\ fresh \subseteq Places

InFlight == {l \in Lookups : job[l] \in Running}

\* The counter is the number of upstream operations in flight, also of those
\* whose callers left, and never exceeds the maximum.
SlotsCounted ==
  /\ active = Cardinality(InFlight)
  /\ Cardinality(InFlight) <= Maximum

\* A lookup waits in the queue only while every slot is taken: no finished,
\* failed or aborted operation strands the lookups behind it.
WorkConserving == queue # <<>> => active = Maximum

\* The queue holds each queued lookup once, and none that was aborted.
QueueIsExact ==
  /\ \A i, k \in 1 .. Len(queue) : queue[i] = queue[k] => i = k
  /\ {queue[i] : i \in 1 .. Len(queue)} = {l \in Lookups : job[l] = "queued"}
  /\ \A l \in Lookups :
       /\ job[l] = "queued" => caller[l] = "waiting"
       /\ caller[l] = "waiting" => SignalOf[l] \notin aborted

\* Every slot is counted, and used while somebody waits: aborts, failures and
\* upstream calls that outlive their callers neither leak a slot nor a lookup.
SlotsAreUsed == TypeOK /\ SlotsCounted /\ WorkConserving /\ QueueIsExact

\* The lookups that wait in front of lookup l.
Ahead(l) ==
  {queue[i] : i \in {i \in 1 .. Len(queue) :
                       \E k \in i + 1 .. Len(queue) : queue[k] = l}}

\* While a lookup waits in the queue nobody gets in front of it, and only those
\* in front of it start, although aborts take lookups out of the middle.
FirstComeFirstServed ==
  [][\A l \in Lookups :
       job[l] = "queued" /\ job'[l] = "queued" =>
         /\ Ahead(l)' \subseteq Ahead(l)
         /\ \A k \in Lookups :
              k \notin InFlight /\ k \in InFlight' => k \in Ahead(l)]_vars

\* Every caller gets an answer, although others may abort around it.
EveryCallerSettles ==
  \A l \in Lookups : caller[l] = "waiting" ~> caller[l] \in {"served", "failed"}

===============================================================================
