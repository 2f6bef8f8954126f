# Verification of meeet

meeet finds places where two people can meet in the Munich transit area after
about equal travel times. This directory holds TLA+ models of the parts of the
program that carry its logic, the TLC runs that check them on small instances,
and TLAPS proofs of the main results for all values of the constants. Paths
below are those of the repository; in `PROJECT.json` they begin with `src/`.

    tlc -workers 2 -config MCRouter.cfg MCRouter.tla     # one run
    tlapm RouterProofs.tla                                # one module of proofs

## 1. Inventory

| Component | State | Operations | Hard about it |
|---|---|---|---|
| Request handling (`lib/domain/meeting-api.ts`, `scheduled-admission.ts`, the routes under `app/api/meeting`) | admission counter, release closures, per-request deadline, abort signals, the event stream | JSON calculation, event-stream calculation, station-area details | one slot for all, released exactly once on each of a dozen paths; timer, late answer and disconnect race; events in an order clients rely on |
| Basis cache (`station-area-details-cache.ts`) | map of entries, byte counter, sequence counter | put, get, clear | two limits, expiry inside every operation, eviction order, references that outlive their basis |
| Meeting calculation (`scheduled-routing/meeting.ts`, `surface.ts`) | none across calls | two scans, the catalog of areas, tolerance and classification, the response | deadline checks and failures between phases; what it derives is derived again by the validators |
| MVG lookups and location search (`providers/mvg-limiter.ts`, `mvg-nearby.ts`, `mvg-locations.ts`, `http.ts`, `mvg-scheduled-access.ts`) | limiter counter and queue, nearby cache | fetch, abort, time out, settle, expire; reading an answer into seeds or suggestions | an aborted caller leaves, its upstream call keeps its slot; aborts take entries out of the queue; bad entries among good ones |
| Scheduled artifact (`scheduled-routing/artifact.ts`, `scripts/compile-mvv-schedule.ts`, `compose.production.yml`) | two files, the loader's in-process cache | startup rotation, offline compile, license metadata, load with validation | kills between two renames, overlapping compilers, days that pass, new compiler versions; what compiles must load |
| Router (`scheduled-routing/router.ts`, `time.ts`, `spatial.ts`) | arrival, readiness and predecessor maps, authorized rows, the queue; a cursor per service day; caches of windows, of tables and of active services | scan, window materialization, caches | rows of one minute feed one another; staying seated; walks; trips of two service days, days of 23 and 25 hours; two caches of different keys and orders |
| Itinerary (`scheduled-routing/itinerary.ts`) | none | rebuild legs from predecessor edges | an edge belongs to the earliest arrival, which need not be the journey's |
| GTFS compiler (`scheduled-routing/gtfs.ts`, `freeze.ts`) | none | parse, validate, stop times to connections, calendars to search bounds | several stops of one area; pickup and drop-off flags; what a search at the edge of the calendar may still reach |
| Route-first job store (`lib/domain/route-first/job-cache.ts`) | jobs, drain queue, concurrency counter | submit, read, drain, expire | deadlines that free a job while its work runs; jobs removed while queued. No route reaches it today |
| Route-first evaluation (`enumeration.ts`, `meeting-service.ts`, `fairness.ts`, `topology.ts`, `corridor.ts`, `client-contract.ts`) | the stack, paths and counters of an enumeration; the certified paths | validate, ask a provider, verify its answer, check that the request covers the paths, find the places to meet, publish | a work budget that can run out between any two steps; an untrusted provider; exact rationals cut and joined at boundaries; a contract that computes everything again. No route reaches it today |
| Stream contract and reader (`client/calculation-stream.ts`, `calculation-progress-contract.ts`) | the parser's buffer and phase | feed a chunk, end | arbitrary chunks, heartbeats, line ends, order of events |
| Planner (`components/MeetPlanner.tsx` and its client modules) | request numbers, abort controllers, result, details | calculate, cancel, open and clear details | late answers, superseded requests |
| Validators (`validation/meeting-v3.ts`, `station-area-details-v1.ts`) | none | derive a response again from the request and the basis | equality and rounding at the tolerance; areas only one of the two reaches |
| Provider configuration (`providers/config.ts`, `factory.ts`; the scripts `routing/scripts/*.py` that write its files) | environment, manifest, attestation and envelope files | read settings and files, build providers | files replaced one by one while they are read; the envelope read twice |
| Self-hosted routing (`providers/self-hosted-routing.ts`) | none across calls | ask OTP page by page or GraphHopper, check and convert the answer | limits of pages and entries, gaps between legs, lines that leave the envelope between two points. The active calculation does not call it |
| Map, wording, health route, deployment | none of interest | | not modelled, see section 8 |

They interact as follows. A browser's planner posts a calculation; the handler
takes the admission slot and a deadline, looks up access seeds through the MVG
limiter, runs the router for each participant on the artifact that the loader
returns, evaluates the surface, stores the calculation basis in the cache and
hands out a reference to it. A later details request brings the reference back
and gets itineraries rebuilt from the predecessor edges in the basis. The
artifact is published by compiler processes that share only a directory with
the server; so are the routing manifest and its envelope by the routing scripts.

What makes each of them correct, in a sentence:

- handlers: at most one calculation holds the slot and it always comes back;
  a client's events tell one story; a reference names its owner's surface;
- cache: the counters are exact, the limits hold, only the oldest are evicted;
- limiter: a slot per upstream call in flight, never an idle slot beside a
  queue, first come first served, every caller answered;
- artifact: a manifest never names a missing payload; a server never answers
  from an expired schedule; a successful rotation leaves a current artifact;
- router: its arrivals are the earliest of all journeys; each predecessor edge
  explains its arrival;
- window: the rides of the feed that lie in the day after the start, each once, in
  order and joined to the next of its trip, fresh or cached;
- itinerary: legs are consecutive in time and could be travelled;
- surface: what the calculation answers is what its validators derive again, and the
  details of each of its markers can be had;
- compiler and loader: what compiles loads, under the license the feed names;
- stream: the page hears what the server wrote, each event once and in order;
- configuration: what was accepted was attested as one, and is what the page is told;
- upstream answers: the good entries are kept, in order and within the limit; a
  self-hosted route is whole and inside the envelope;
- planner: whatever is on the page together belongs together and comes from the
  latest request, and whoever is shown as waiting is still listened to;
- job store: no more fills than slots, no idle slot beside a waiting job, one
  live job per key, and what a client was told stays true;
- route-first evaluation: an enumeration that ends within its budget has found
  every loopless path, honest answers are accepted, a result rests on all
  paths whatever the provider claims, its meeting places are exactly the suitable
  ones, and it is published and drawn as it was evaluated.

`PROJECT.json` lists the hazards behind these, each at its line.

## 2. Modules

| Module | Models | Extends |
|---|---|---|
| `BasisStore` | the abstract store: references to bases that may be forgotten at any time | |
| `BasisCache` | the cache of `station-area-details-cache.ts` | |
| `MeetingApi` | the three POST handlers, the slot, the deadline | `BasisStore` |
| `CalculationStream` | the event stream from the server's write to the page: frames, chunks, heartbeats, the reader | `MeetingApi` |
| `MvgLimiter` | the limiter with lookups and searches, the nearby cache, the timeout and abort races | |
| `MvgAnswers` | the seeds and suggestions that are read from an MVG answer, as operators | |
| `ProviderConfiguration` | settings, the files read one by one, the tools that replace them, the factory | |
| `RoutingEnvelope` | whether a line stays inside the service envelope, as operators | |
| `SelfHostedRouting` | one call of a self-hosted adapter: pages, paths, the conversion to a route | `RoutingEnvelope` |
| `Providers` | the provider layer: the four above in one specification | all four |
| `ArtifactRotation` | compiler processes, the artifact directory, the loader | |
| `Planner` | the page: starting points, calculate and cancel, details, React's renders | |
| `JobStore` | the job store of the route-first engine | |
| `ScheduleCompiler` | from stop times and calendars to connections and search bounds, as operators | |
| `ScheduleLoader` | license metadata, and what writing and loading an artifact validate, as operators | `ScheduleCompiler` |
| `RoutingWindow` | the window of a search: the merge of service days, and the caches | `ScheduleLoader` |
| `Router` | the earliest-arrival scan for one participant | |
| `Itinerary` | rebuilding an itinerary after the scan | `Router` |
| `MeetingSurface` | a whole calculation: a scan per participant, catalog, classification, response, validators, details | `Itinerary` |
| `RouteEnumeration` | the exhaustive search for loopless paths under a work budget, and its certificate | |
| `Rationals`, `FairRegions`, `TargetTopology`, `Corridors` | exact numbers; where all arrive at about the same time; where one can meet; the middle of a journey, as operators | each other |
| `RouteFirstService` | the evaluation of a request: asking, verifying, covering, finding places | the five above |
| `RouteFirstContract` | the client's contract and the map's evidence of a result | `RouteFirstService` |
| `*Proofs` | the theorems about the module of that name; `RouterProofs` also those about `Itinerary` and `MeetingSurface`, `RouteFirstProofs` those about `RouteEnumeration` and `RouteFirstService`, `ScheduleProofs` those about `ArtifactRotation` and about `RoutingWindow` with the compiler and loader below it, and hands its tables to an instance of `Router` | the module (`RouterProofs` `MeetingSurface`, `RouteFirstProofs` `RouteFirstContract`), `TLAPS` |
| `MC*` | constants for TLC | the module |

`RouteFirstService` composes the enumeration with its verifier: the provider's
answer is a choice, and the steps of `RouteEnumeration` are those of the trusted
re-enumeration. `RoutingWindow` searches what `ScheduleCompiler` compiles and
`ScheduleLoader` admits, and what it returns satisfies the assumption of `Router` (section 4). `MeetingSurface` runs `Router`'s scan once for each participant
and hands both to the surface, its validators and `Itinerary`. `CalculationStream` takes
the events that `MeetingApi`'s handlers send to the page. The
composition at the centre of the program is `MeetingApi` over `BasisStore`: the handlers see a
store that may forget, and `BasisCache` is shown to implement that store (a refinement
with the live entries as the store's content). So what holds for the handlers with the
abstract store holds with the cache.

### How state and actions correspond to the code

**BasisCache.** `entries`, `bytes` and `sequence` are the fields of the class,
`clock` is `now()`, `answer` what the last `get` returned. `Put`, `PutTooLarge`,
`Get`, `GetExpired`, `Clear` are whole calls: they include the sweep of expired
entries and the eviction loop. The methods are synchronous, so a call is one step.

**MeetingApi.** Handlers run on one event loop. `turn` is the request whose code
runs; `pc[r]` says how far it got. Everything between two awaits of real I/O
belongs to one turn, in which only the clock moves; bodies, upstream answers,
timers and disconnects happen while `turn = Idle`. The one wait inside a
calculation is the access lookup (`pc = "access"`). After it the code yields no
more, which is why the promise at `meeting-api.ts:376` - a disconnect stops the
calculation - holds although nothing after the lookup reads the signal.
`slot[r]` is the release closure (`"held"` until called), `active` the counter in
the admission object, `deadline`, `expired` and `aborted` the deadline object.
`Admit`, `PassAdmission`, `Preflight`, `StartRun`, `AccessAnswers`, `Route`,
`Evaluate`, `Validate`, `StoreBasis`, `Reply` are the successful path; each error
return is an action of its own. `events[r]` is what the stream wrote.

**CalculationStream.** `wire[r]` is the text written for a stream, as a sequence of
symbols: an `event:` line, the two halves of a `data:` line, a comment, line ends.
`Serve` is a step of `MeetingApi` with the frames of the events it sends, `Beat` the
heartbeat interval. `Receive` is an iteration of the reader's loop with a chunk of any
length: normalising line ends, cutting frames at empty lines, parsing and dispatching
each. `reader[r].buffer` is the text left over. A chunk that ends between CR and LF
makes the reader take two line ends (`ReceiveTorn`); what it hears afterwards is not
followed.

**MvgLimiter.** A lookup is one `fetchMvgNearbyStations` call, or a location search,
which takes a slot even when its answer is cached and whether or not its caller is
still there (`mvg-locations.ts:43`). `caller[l]` is the
promise its caller awaits, `job[l]` the same lookup as the limiter knows it; they
part when a signal aborts. `Settle` is an upstream call that ends together with
the `finally` block that starts the next ones.

**MvgAnswers.** `Seeds` is `createSeeds` - of each station area the first entry within the
radius, by distance, up to the limit - and `Suggestions` the reading of a location answer. One
incomplete station, or one station too many, fails the whole answer; an incomplete place is passed
over. `SeedsAreNearest` says when an answer fails and which entries can cost a near one its seed:
none but an earlier one of the same station (section 5).

**ProviderConfiguration.** `reader` is one request that builds its providers: settings,
manifest, the envelope parsed, the attestation, the envelope again for its hash, each read
a step of its own. Between them the operator removes files and the scripts write new ones;
a file's content is its generation, a hash comparison is the comparison of generations. It
is assumed that an older envelope is never put back: then parsing one version and hashing another could agree.

**RoutingEnvelope, SelfHostedRouting.** `IsSegmentInside` cuts a segment at its
crossings with the boundary and tests midpoints, in exact fractions. `Ask` and
`ReceivePage` are a request and an answer of the paging loop, `AddWaitingSteps` the
waits between legs, `ItineraryParses` the checks of times, ends and continuity. An engine
may answer with anything. The code does not check that an OTP itinerary departs no earlier than asked,
and does not check the envelope on the gaps of up to five metres that it bridges; the
model follows it.

**ArtifactRotation.** Each rename is an action, so is each of the server's two
reads. `manifest` is the manifest file, `payloads` maps file names to the artifact
in the file, `loaded` is the loader's cache. `Kill` ends a compiler before any of
its steps. A manifest is a record of the artifact's id, its feed and the compiler
version; a hash comparison is the comparison of ids.

**Router.** A network is a compact connection table, access seeds and walking
times. `arrival`, `ready`, `edge` are the three maps, with `Never` (one past the
horizon) for a missing entry, so that the code's horizon checks and its minimum
become one operator, `Earlier`. `authorized` and `taken` are the two byte arrays,
`queue` the part of a bucket's queue that is still to be processed. `TakeSeed` is
an iteration of the seed loop, `OpenBucket` the first pass over the rows of a
departure minute, `ProcessRow` an iteration of the queue loop with the
continuation, the arrivals, the transfers and the rows these bring into the queue.
The order of seeds and of queued rows is left open, which covers the code's order
and shows that it does not matter for the arrivals.

**ScheduleCompiler, RoutingWindow.** A feed is stop times, a service per trip, calendars
and exceptions; `IsParsed` is what the reading of the tables leaves of it to rely on.
`ImportSchedule` gives the artifact or rejects the feed; `Connections` puts every
connection at its rank in the order of `compareScheduledConnections`. `schedules` are the
artifact objects the process has loaded; two objects of equal feeds have one
`ArtifactId`, as two loads of one file do. A call of `createScheduledRoutingWindow` runs
to its end before the next begins; its steps are still separate actions, because a
deadline callback can throw between them (`Expire`). `OpenStream` is a service date with its entry
in the cache of active services, `MergeRow` an iteration of the merge: a
row appended, the continuation written into the row before it, the cursor advanced. The
heap is the set `Waiting`, of which the least by `HeapKey` is taken. `tableCache` and
`windowCache` are the two insertion-ordered maps as sequences, `FinishTable` puts a table
into the first with the evictions in both, `Wrap` the window into the second.

**ScheduleLoader.** `compileScheduledArtifact` resolves the license metadata before the
import; `Loads` is `isScheduledRoutingArtifact` with `validateArtifactStructure`, which
the writer and the loader both call.

**MeetingSurface.** `Scan` runs the participants' scans one after the other on one
timetable; `Catalog`, `Classify` and `Response` are the rest of the calculation.
`ValidResponse` is the validator of the calculation's answer, `ValidDetail` that of a
details answer; both take the request and the basis and derive again what they compare.

**Itinerary.** `BuildItinerary(route, area)` is `buildItinerary` for an area reached by
a scan, whose arrivals and edges are the record `route`: the chain of edges back to a
seed, the legs, and the check of the last leg's end.

**Planner.** `ui` is the React state with every setter applied, `shown` the last
render: the state that the handlers on the page close over. A user's event, the
continuation of a promise and a browser callback are single steps, as they run to
completion on the page's event loop; `Render` is React's commit with the effects
that follow it. After a user's event React renders before the next event
(`flushing`), except that a script can dispatch a second submit in the same task;
after a continuation other events may come first. The refs (`requestRef`,
`streamAbort`, `detailRequestId`, `detailAbort`, `detailCache`) are variables of
their own, because they change at once. `calculations` and `details` are the
running calls of `calculate` and `selectStationArea` with the signal each was
given; `lookup` is what a field's live operation number waits for. The stream's
events arrive as the server sends them: verdicts, then a reference, then a result
or an error, or the stream breaks. The model states three things about the code
that are easy to miss: the comparison `ref !== calculationRef` (line 395) reads one
closure twice and is always false, so only the abort in `clearDetails` keeps an old
answer out; a 410 answer is handled without asking whether it is still wanted
(line 388), which is harmless only for the same reason; and a retry straight after a
browser position starts from the starting point of the last render.

**JobStore.** `jobs`, `cacheIndex`, `queue` and `activeFills` are the fields of the
class. `SubmitNew`, `SubmitKnown`, `Get`, `TimerFires` and `FillSettles` are tasks
of the event loop, each with its sweep of expired jobs, the removal and the drain it
causes; `EndFill` is the microtask in which `runFill` returns, frees its slot and
drains. `expireJob`, `remove` and `drain` are operators on a record of the store,
since one call of `submit` applies several of them. `working` are the fills whose
promise has not settled, which may outlast their job.

**RouteEnumeration.** The recursion of `visit` is a stack: `call` is the path `visit`
is being called with, `frames` are the calls that try their edges. `VisitOrigin`,
`VisitTarget`, `VisitInner`, `TryEdge` and `Return` are what one call does up to the
next, `VisitRefused` and `TryRefused` the two places that find the budget spent and
unwind the whole stack (`stopped`). Vertices and edges are numbered in the code's
canonical order, so that `Least` is the next one of the code's sorted arrays.

**RouteFirstService.** `phase` says which part of `evaluateMeeting` runs. `Ask` starts
the re-enumeration of the participant `job`; when it has ended, the answer is chosen
among `Claims` and compared. A query's paths are bound to a participant by
`PathKey`. `Cover` has the checks of journeys, alternates, landmarks and families
in the code's order, then fair regions, topology and corridors, which `CoverFails` finds impossible.
`FairRegions` cuts an edge where two participants may change their order, decides each piece between cuts
and merges what touches; `TargetTopology` keeps what is legal, accessible and eligible and
joins it at meeting vertices. `phase = "alone"` is a call of the enumeration without a
service, which is how the enumeration is checked on many more graphs.

**RouteFirstContract.** `Publish` turns a result into wire values and publishes it only if
`Admits` - the contract the client checks, with its sizes - holds of it. `Drawn` is the family that the
map draws, with lines cut at fractions of legs, or nothing if one of them is a point. Vertices
have a `place`; a leg between two of one place is stationary.

## 3. Runs

| Run | Distinct states | Question |
|---|---|---|
| `basis_cache` | 5 063 | Do counters, limits and eviction order survive every order of puts, gets, clears and ticks, and does the cache implement the store? |
| `meeting_api` | 2 039 296 | Do a stream, a JSON calculation and a details request, with disconnects, deadlines and every failure, keep the slot, the event order and the references right? |
| `calculation_stream` | 99 308 | Does the page hear what the server wrote, however it is cut, and is everybody answered when the upstream never is? |
| `providers` | 112 990 | Are slots, queue and callers right under aborts, timeouts and failures; are answers read whole; is a configuration read while its files change of one version; are self-hosted routes whole and inside? |
| `artifact_rotation` | 3 064 866 | Do kills, overlaps, days, feeds and versions leave a usable artifact? |
| `router` | 564 887 | Is the scan exact on every timetable of the bounded family, do the surface and its details pass their validators? |
| `schedule` | 800 978 | Does what compiles load, and does a search get the feed's rides of its day, from a fresh merge and from the caches? |
| `planner` | 3 831 958 | Does what is on the page belong together, in every order of edits, answers, renders and cancellations? |
| `job_store` | 99 641 | Are slots, index, queue and outcomes right under deadlines, late fills, expiry and removal, and does every job end? |
| `route_first` | 582 039 | Is the enumeration exact and within its budget on every small graph; does a result rest on all paths whatever the provider answers; are its meeting places exact and its components apart; is exactly what fits the contract published, and exactly what moves drawn, as evaluated? |
| `itinerary_order` | violation | `itinerary.ts` says that legs run chronologically |
| `planner_inputs` | violation | the page says that changed inputs need a new search |

### Bounds

- `basis_cache`: three references, bases of size 1, 2 and 4 against limits of two
  entries and three bytes, so that one basis is refused, two big ones evict, and
  the entry limit binds before the byte limit and the other way round. Five clock
  values with a time to live of two let entries expire in the middle; four puts
  reuse a reference.
- `meeting_api`: one request of each kind, two meeting requests (a reference can be
  sent with the wrong one), two artifacts (the artifact can change under a
  calculation), two references (one can be forgotten and handed out again). A
  third calculation adds nothing to a slot of one.
- `calculation_stream`: one stream and one details request with one body, artifact and reference,
  on connections that end lines with LF or CR LF; chunks of up to nine symbols (a frame is six or eight),
  one heartbeat. Chunks arrive between turns: what arrives within a turn is a
  part of what arrives after it.
- `providers`: the parts share no state, so each behaviour runs one of them. Limiter: two
  lookups of one request and two searches of others on two places over two slots: two
  run, two wait, and an abort can hit the head and the tail of the queue. Answers: up to
  three entries of all kinds, up to five of a few, against limits of two and four.
  Configuration: every combination of the settings, two envelopes and two manifests.
  Routing: every segment of a grid of 16 points in an envelope with a bay, one with a hole and one of
  three parts that touch at a side and at a corner; two legs timed and joined in every
  way; instructions; listings around the limits of pages and entries.
- `artifact_rotation`: two compilers, two feeds whose validity overlaps by a day,
  two compiler versions, three days, three compiles. Two feeds show a change, an
  expired and a not yet valid feed; three compiles let both compilers publish and
  one publish again.
- `router`: three areas, a trip of two rows a-b-c and a trip of one row between any
  two areas, all departures and arrivals within a horizon of three minutes, with and
  without pickup and drop-off at the middle stop, two sets of seeds, and b and c zero
  or one minute apart. The change time of two minutes exceeds both, so that
  staying seated, changing and walking lead to different arrivals. The 48 000
  networks include equal times, rows of zero length and walks of zero length. The
  proofs remove the bound. The second participant starts elsewhere; the surface is
  evaluated for two tolerances and every part of the areas inside the boundary. The code's
  tolerances are 5, 10 and 15 percent of arrivals in seconds; with arrivals of few minutes it takes
  20 for the comparison to hold with equality (2 and 3), while 10 is too little there.
- `schedule`: a day of four minutes, a week of two days, six dates; the day before the one
  that begins at minute 7 has three minutes and the one that begins at 11 has five, as
  the clock changes make them. With one call: a trip of three stops over two or three
  areas, every order of times up to five minutes (so trips pass midnight), pickup and
  drop-off missing at each stop in turn, four pairs of calendars with removals and
  additions, a second trip that competes for the order, and every search start within and
  just outside of the bounds. With four calls: two feeds, or one loaded twice, over two
  tables, two windows and five rows, so that a table is evicted for its number and for its
  rows, takes its windows with it, is too large to be kept, and a window is replaced by
  that of a reloaded artifact. Without calls: every license metadata of a feed with up to two
  attributions, and a calendar that ends before it begins.
- `planner`: one participant (fields only share the functions they call), two places,
  two settings, two areas, two values of `requestRef` (a calculation and the one, or the
  cancellation, that supersedes it) and two selections. Places and areas are symmetric.
- `planner_inputs`: as `planner` with one setting.
- `job_store`: three jobs of three keys over a map of two entries and one slot, so that
  a job waits, a waiting or a running one is removed, and a key is submitted again.
  The deadline (1) is shorter than the time to live (2), submissions come until 2.
- `route_first`: calls of the enumeration on every graph of four edges on four vertices, parallel
  edges included, and stars of five edges from one vertex to four others (their ends in order), with two sets of ends and five
  policies, which cut by hops, duration, mode and budget. Requests for two
  participants with up to three paths, of which two can be in one family: any subset
  as journeys, any assignment to two families or none, right and wrong evidence, too few
  organic components with every set of landmarks, an incomplete enumeration, a graph
  without a path, and one journey more than the limit. For one request the places vary:
  legal and accessible parts of two edges in quarters, profiles with three knots,
  meeting vertices, tolerances with zero. The contract's arrays take four entries, as many as the
  service takes journeys, so that single requests have a journey of five vertices, alternates
  whose lines together are five points or one, five intervals or points of a region, five
  components, a component with a name of five parts, and a graph whose text is too long; all of
  these are refused, and the others are published. A request may have another text that is
  too long (`terse`). Two of the vertices lie at one place, with tolerances 0, 20 and 100, so that
  legs are stationary, corridors lie within them or reach beyond them, and parts of edges have no
  length. Two or three journeys of one participant are in one family or in two.
- violation run of the itinerary: only everyday timetables (every ride takes time,
  one seed, nothing within walking distance), so that the counterexample is one
  a real feed can contain.

`CHECK_DEADLOCK FALSE` is set where the system ends: the scan returns, the provider layer's
finite set of lookups and calls is used up, the calendar and compile bounds of the
rotation are reached, the calls for windows are used up, and an evaluation of the
route-first engine returns. The meeting API and the cache are checked for deadlock: a server
with nothing to do waits for its next request (`Quiet`), and the cache can always be
read or cleared.

### Fairness

- `MeetingApi!Fairness`: the event loop continues a turn that has begun, the clock
  reaches a deadline, an armed timer fires, and an access lookup whose signal has
  aborted rejects (`raceWithAbort`). Nothing is assumed of the upstream, of the
  connection or of clients: the access lookup of an unaborted request may last for ever.
- `MvgLimiter!Fairness`: the HTTP client's timeout fires, and an upstream call it has
  stopped fails (`http.ts`). That an upstream answers, aborts, new lookups and expiry are
  not fair.
- `JobStore!FairSpec`: microtasks run, time passes and timers fire. No fill need
  ever settle.

No other run assumes fairness.

## 4. Proofs

| Module | Theorems | Inductive invariant |
|---|---|---|
| `BasisCacheProofs` | types, `AccountedWithinBounds` (`BytesAccounted`, `WithinBounds`), `SequenceOrdersEntries`, `EvictsOnlyForRoom`, refinement of `BasisStore` | the four state properties together with a bound on expiry times by the clock: a newer entry expires no earlier |
| `MeetingApiProofs` | types, `OneTimedCalculation` (`OneCalculation`, `HeldSlotIsTimed`), `DisconnectedStoresNothing`, `ReferenceNamesOwnSurface`, `DetailsMatchRequest`, `StreamTellsOneStory` | who holds the slot at which step, that steps between awaits belong to the turn, that a calculation past its lookup was connected when its turn began, that a handler's basis is its own and still stored when it replies; and `StoryInv`: before its end a stream has heard exactly the phases of the steps behind it, other requests nothing |
| `ScheduleProofs`, rotation | types, `PublishedPairIsWhole`, `ExitZeroLeavesCurrentArtifact`, `ServesValidSchedule` | `RotationInv`: a payload file holds the artifact it is named for; what a compiler is about to publish is of the deployed version and its payload precedes its manifest; a reason that lets a failed rotation exit 0 still finds a current manifest |
| `ScheduleProofs`, window | `WindowIsOfFeed` (with `CallsOK`), `WhatCompilesLoads`, `CachesAreFresh`, `ScannableWindow` | `WindowInv` below: what is loaded, kept and under way, each part stated of the schedule and feed it belongs to |
| `RouterProofs` | types, `NoDepartureMissed`, `EdgeExplainsArrival`, `EarliestArrivalIsExact`, the last two also of both scans of a calculation, `SurfacePassesValidation`, `DetailsAreServed` | `InSequence`, `AllTaken`, `Sound`, `Complete` and `MeetingInv` below |
| `PlannerProofs` | types, `PanelIsOfSelection`, `OnlyLatestCalculation`, `ResultIsForInputs` | of all calculations the page listens to the last only, of all selections it waits for the last only; beside a result stand the details of its own calculation; while a calculation is listened to, the controls are disabled or will be by the render that is due (`InputsKept`) |
| `JobStoreProofs` | types, `IndexIsExact`, `SlotsAreUsed`, `OutcomesStay` | of the store between any two calls: the counter counts the fills that have a slot, a job stands in the queue once and stands there while it waits, the index names the live jobs; and no job waits while a slot is free, which holds between tasks only |
| `ProvidersProofs` | `SlotsAreUsed`, `FirstComeFirstServed`, `ConfigurationIsHonest`, `NothingIsCut` (a part of `RoutesAreWhole`) | the set of lookups under way is finite and counted; the envelope a reader has parsed is no older than the one its manifest names; what has been received is the beginning of the listing |
| `RouteFirstProofs` | `EnumerationIsExact`, `WorkWithinBudget` (a part of `HonestAnswerHolds`), `HonestAnswerHolds`, `CompleteCoversEveryPath`, `ComponentsHoldTogether` (a part of `MeetingPlacesAreExact`), `CountsAgree` (a part of `PublishedAsEvaluated`) | `Stack`, `Emitted`, `Covered`, `Room` below; what is certified are the keys of all paths of the participants so far; `EvaluationInv`: a meeting is the evaluation of a checked request; `CountInv`: the counters of each certificate kept as evidence are admitted and count all paths of its participant |

Assumptions are the named `ASSUME`s of the modules: types of the constants, finite sets
of requests, compilers, areas, vertices and edges, nonempty sets of keys, scenarios and
settings, `NoX` and `None` values outside of the sets they complement, requests whose
queries are a nonempty sequence of those that `validateGraph` and `validatePolicy` accept,
listings that are sequences, limits of journeys and of target edges that are no greater than that of the contract's
arrays (all are 256 in the code), component ids with room for no more parts than that, a `None` that is no certificate, tolerances that are natural numbers, an order of the areas that has
them all, and for the router that every network in `Networks` is well typed and
`Chronological` - what `gtfs.ts` and the artifact loader establish for the
connections of a trip. The window's feeds are parsed (`IsParsed`): times are natural numbers,
a feed's validity lies strictly inside `Dates`, and service dates begin one after another,
however long each is. Nothing is assumed of the order of stop times or of calendars: a feed
that is wrong there is one that `ImportSchedule` rejects. TLC evaluates each on the runs.

**The router's argument.** What a passenger can ride is defined without a scan: the
least set of rows that contains those boardable from a seed and is closed under
`Follows` (stay seated, change after the change time, walk). `EarliestArrivalIsExact`
says that the scan's arrivals are those of rideable rows and that no rideable row
leads anywhere earlier. The invariant has two halves. `Sound`: every row taken or
authorized is rideable, and each arrival and readiness is that of a seed or of a
rideable row; a taken row was either authorized by the row before it or boardable
from something ready there, which is one more `Follows`. `Complete`: whatever was
processed has written its consequences into the maps. `AllTaken` closes the gap:
of the rows up to the current minute none is left that could be boarded or sat in.
It is inductive only because nobody is ready anywhere before the row they left
arrives, and rows arrive no earlier than they depart: processing a row of this
minute makes rows of this minute boardable, which join the queue, and never rows of
an earlier one. At the end the taken rows are therefore closed, and contain the
least closed set.

**The calculation around it.** `MeetingInv` adds what the first scan leaves
behind while the second runs (`RouteHolds`), and that every seed of a participant is reached,
so that a surface without result means a participant without seeds. The validator derives
the same classification from the same routes; the proof is that each bound it checks is one the evaluation
computed. `DetailsAreServed` has two halves. An itinerary is
missing only if the predecessor edges form a circle: a walk back that is longer than there
are areas repeats one (pigeonhole), and that one stands on a circle. On timetables that let passengers
off at every stop (`Stopping`) there is none. Nobody leaves an area there before its edge
arrives, so along a circle all areas are reached at the same time; and among the areas
reached at one time some edge leads outside of them (`NoRound`), because an edge is written
only when it strictly improves an arrival and then comes from an area reached before.
`NoRound` has to be said of every set of areas to be inductive. That the
walk is well defined, though a function of numbers, follows from the least number at which it
would not be.

**The window's argument.** Three layers, each about all feeds.

The compiler. A trip's visits are runs of stops, numbered without gaps, so the rank at which
`Connections` puts a connection is taken by exactly one: `IsTimetable` says that the connections are
sorted, one per trip and visit, and that along a trip visits and places increase together.
`TripsKept` follows: a hop of the stop times is offered by the connections from its visit to the visit
it ends in, which depart no earlier and arrive no later than the hop needs. `maximumTime` bounds all
times, and the search bounds lie around the service dates of the feed (`CompiledBounds`), which is
what the loader checks.

The merge. `IsTable` says of a table, complete or not, what a finished one must satisfy for each
row; `IsCursor` how the cursor of a date stands to it: what the cursor has passed and fits
the window is a row, no row departs after its candidate, and the row it remembers for a trip is that of
the last connection of the trip it has passed, or there is none to continue. The last part is the delicate one. A
connection that is passed over (its service runs, but it arrives too late) must end the
continuation of its trip, and the proof needs that whatever of a service lies between two of its
connections in the window lies in the window too (`SpanFacts`). `Merges` adds that there is one cursor for
each date with service that has been opened. The least candidate of the heap then departs no
earlier than any row and no later than any other candidate (`MergeTakes`). When no candidate is left
every ride of an opened date is a row (`MergeEnds`); a ride of a date before the first one opened can
reach the window only if a service day shorter than `Day` lies between them (`EarlierIsHidden`), which
is the exception `HiddenByShortDay` states and no wider.

The caches. Tables have one entry per schedule and start, windows one per key; every kept window is
around a kept table; while a table is built no table of its key is kept, which makes the append of
`FinishTable` keep the keys apart. Touching an entry rearranges the sequence (`TouchedHolds`), eviction
keeps its end (`KeptHolds`) or the places of the windows that stay (`ThinnedHolds`), and rows are
counted as a set of pairs, so that the counter is exact because the entries differ. Services are kept
by artifact id and date; two objects with one id are compiled from equal feeds (`SameArtifact`).

**From the window to the scan.** `Router` and its proofs assume of a timetable that it is well typed
and `Chronological`. `WindowIsScannable` discharges that for what a search is really given: it
takes `Router`'s two operators by an instance and proves them of the columns of every window's table.
A row that continues does so in the connection of its trip's next visit, on its own service day,
which starts where the row ends and neither departs nor arrives earlier
(`ConnectionsJoin`, from `VisitsIncrease`); all times lie between 0 and the horizon, so that
`minuteOffset` never throws. `EarliestArrivalIsExact` holds for every such timetable, so it holds for
every window the program scans, whose rows are the rides of the feed (`WindowIsOfFeed`).

**The enumeration's argument.** The search is a stack of half-tried paths. `Stack`: each path on
it goes on from the one below along an edge that is already tried. From that follows that any
loopless path has one place: it is emitted (`Emitted`: once, and only what belongs to
`AllPaths`), or it is still pending - it starts at an origin not yet visited, goes on from the path of
the call, or leaves a frame by an edge not yet tried (`Covered`) - and never two of these. When the stack
is empty nothing is pending. The certificate's bound counts
`Below`: how many states can lie below a path of given length, by a recurrence over the hops left with at most
`Others(h) * ParallelEdgeFactor` edges to unvisited vertices. `Room` says that the visited states, with what the stack,
the call and the remaining origins can still add, stay within the bound; each step spends as
much as it gains. That a meeting which is not refused rests on all paths
(`CompleteCoversEveryPath`) needs only that the verifier compares with this enumeration, and
nothing of the provider.

**The meeting's argument.** A set of fragments that touches nothing outside of it is *alone*
(`Alone`); the groups of the model are the least such sets that are not empty. Intersections and
differences of sets that are alone are alone. So two groups are equal or disjoint, no cut through a
group can leave its sides apart, and each fragment has a group: the intersection of all sets
with it that are alone. Vertices fair by evidence become components only if no group reaches
them. `ComponentsHoldTogether` follows for each set of components that the evaluation can build,
and `EvaluationInv` says that a meeting has one of these, built from evidence that was accepted: the result
is decided in one step, and only for a request that has passed `Validate`.

**The contract's argument.** `CountsAgree` has the conjuncts of `Admits` that count and compare. When an
enumeration is verified, the counters of its certificate satisfy `CertificateAdmitted` by the enumeration's
invariant, and `Emits` keeps that it counts every path of the query once. At the end the journeys are the
keys of these paths. So the enumerations are admitted exactly when the texts of the graphs fit
(`FingerprintsFit`), and the journeys exactly when none has too many vertices (`JourneyFits`): both
are equivalences, the sizes are no premise. Two paths with the same edges, at least one, are the same
path (`OnePathOnEdges`), so the keys are as many as the certificates say; `Validate` has refused
journeys without edges. What a journey's vertices, read off its edges, are is
its path's vertices, none twice. What is left of `PublishedAsEvaluated` is the arithmetic - the corridors'
fractions, and the intervals of the regions and components - and the other sizes.

**The page's argument.** `ResultIsForInputs` is inductive only with the render: inputs are
changed through controls of the last render, so the invariant says for which renders the controls
are live while a calculation runs, and which closures a pending location holds. The two
ways in which the inputs still change are recorded by the history variable `diverged`.

**What the proofs found.** In the job store's model a new job was dated only at the end of the call
that adds it, so that what the same call does next with the job took the date 0; an eighth of the states were
missing and no property had noticed. The record of the store now carries `created`. In the route-first modules a product of sets with `SUBSET` had to be
parenthesised: the provers and TLC do not group it the same way.

**Only model-checked.**

- Liveness (`Answered`, `EveryCallerSettles`, `JobsEnd`) and everything that needs ENABLED.
- `ClientHearsWhatServerWrote`: the reader's text is cut, selected from and flattened
  (`SelectSeq`, `FlattenSeq`), about which one would have to argue by induction over data.
- `AnswersAreReadWhole` and the rest of `RoutesAreWhole`: the reading and the legs are folds.
  `RoutesStayInside` is geometry over products of fractions.
- The rest of `MeetingPlacesAreExact` and of `PublishedAsEvaluated`, and `DrawnWhole`: exact fractions, and folds over
  cuts and pieces; they are compared with a definition of what they should give, on the runs' inputs.
- `LegsRunChronologically` and `ChangedInputsStopCalculation` do not hold (section 5).

The types of the basis cache, the meeting API, the rotation and the router are proved and not
checked by a run. The limiter, the planner, the job store, the route-first engine and the
window have theirs as a conjunct of an invariant of their run, proved with it.

**Proved and not checked by a run.** `SequenceOrdersEntries` and `NoDepartureMissed` are
steps on the way to `EvictsOnlyForRoom` and `EarliestArrivalIsExact`; `ScannableWindow` joins two
modules that no run composes; `CountsAgree` has conjuncts of
`Admits`, whose whole `PublishedAsEvaluated` checks.

## 5. Findings

- *An itinerary can leave an area before it arrives there.* `buildItinerary` follows
  the edge of each area's earliest arrival. When the journey passed the area on a row
  that cannot be left there, that edge is another, later one (`itinerary.ts:42`); only
  the end of the last leg is checked.
  The same cause lets an itinerary change trips faster than the change time, when
  the passenger stays seated on one trip while the area's edge is that of another.
- *A starting point can change under a running calculation.* The suggestions of a
  field stay clickable while the field is disabled. Choosing one changes the starting
  point but does not stop the calculation (`MeetPlanner.tsx:102`, 334), and the result
  for the old one is shown beside the new one.

What follows was met while modelling and needs no run of its own.

*Details of a marker can be refused with 500.* An area's predecessor edges can form a
cycle: a trip goes from a to b, where it cannot be left, and on to c; b is reached on foot
from c. `buildItinerary` then ends without an itinerary, and the details of a marker that
the surface calls reachable are answered `DETAIL_FAILED` (`meeting-api.ts:570`), though
`itinerary.ts:17` says that callers fall back to omitting the itinerary.
`DetailsAreServed` states exactly this exemption. The reason `no-reachable-stations` of
the response contract is never given, since a participant's seeds are reached.

*A torn line end.* The reader normalises line ends chunk by chunk, so a pair CR LF split over two
chunks becomes two line ends and can cut a frame
(`calculation-stream.ts:149`). `test/client-calculation-stream.test.ts:91` "accepts CRLF line
endings" holds when no chunk ends between the two. The server writes LF only.

*Contracts of different size.* The sizes of the route-first client contract are not those of the
service, and a finished result that exceeds them ends as `failed`:

- a certificate repeats the whole text of its graph (`enumeration.ts:126`), for which the contract
  has 512 characters (`client-contract.ts:432`), while the service takes graphs of 512 vertices and
  2048 edges (`meeting-service.ts:45`); graphs of more than a few edges are refused in every outcome that
  has a certificate;
- vertices, edges, occurrences and segments of a journey are at most 256
  (`client-contract.ts:466`), while the service takes 512 occurrences (`meeting-service.ts:47`);
- the lines of all alternates of a corridor share an array of 256 points, and must have two
  (`client-contract.ts:635`), so a family of long journeys, or of one that stays in place, is refused;
- the intervals and the points of a region and the components are at most 256 each, and the id
  of a component, which names its parts, at most 128 characters.

`PublishedAsEvaluated` is exact about them: what fits is published as it is, what does not is
`failed` (`Fits`).

*Meetings that cannot be drawn.* A corridor that is one point has no line, and the evidence of the whole
family throws (`route-first-map-evidence.ts:272`). That is so for tolerance zero, for a corridor
within a wait or a dwell (stationary segments are admitted, `client-contract.ts:504`), and for a
journey that stays in place (`route-first-map-evidence.ts:265`), though the result is
published. A stretch of a target edge between two vertices at one place is left out without an
error (`route-first-map-evidence.ts:287`). `DrawnWhole` says that these are all the cases: every
other corridor, and every other part of a component, is drawn.

*A near station behind a farther one of the same id.* `createSeeds` keeps the first entry within
the radius of each station (`mvg-scheduled-access.ts:92`). If an answer names a station twice, the
farther coordinate first, the nearer one does not count, and the station can lose its seed to the limit.
One incomplete station refuses the whole answer (`mvg-nearby.ts:116`).

*Searches without callers.* A location search waits for a limiter slot and uses it even when its
answer is cached or its caller has gone (`mvg-locations.ts:43`).

Two things the code accepts knowingly are worth a reader's attention. The rotation
publishes a changed feed without looking at its validity (`artifact.ts:327`), so a feed
that is not valid yet replaces one that is, and the loader refuses it until its first
day; the rotation run allows it. The compose file says that the rotation "always exits 0" (`compose.production.yml:7`),
which `application-deployment.md:203` corrects: without any usable artifact it exits
1. The model follows the code.

On the night before the clocks go forward a window can lack rides. A search looks back as
many service days as the feed's latest time has whole days of 24 hours (`time.ts:119`). The service
day before the spring change has 23 hours, so a ride at 23:30 of it
runs after the next service day's anchor, and in a feed without times of 24:00 or more it is
not looked for. `test/scheduled-routing.test.ts:571` expects rides of the preceding service
date to be found, on a day of 24 hours with such times. `WindowIsOfFeed` exempts these rides
(`HiddenByShortDay`).

The certified arrivals themselves are right when an itinerary is not: the router
run and its proof are about the same scan.

## 6. What the abstractions leave out

- The calculation's numbers: `MeetingApi` treats a surface as a value that belongs to
  a meeting request and an artifact; `MeetingSurface` has what is in one.
- JSON, the shapes of fields and wording. That a validation can refuse is modelled.
- Floating point: the envelope's tolerances are zero, a tolerance in percent is
  compared in integers.
- Schedules: times are minutes, since `gtfsTime` drops the seconds and search starts are
  rounded up to a minute. CSV tables, routes, names, coordinates and hashes are left out, as
  are the instrumentation hooks of the window and the reset of its caches for tests. Bytes
  are rows of a table.
- Orphaned bases: a deadline between storing and replying leaves a basis nobody knows
  the reference of (`meeting-api.ts:238`). The model allows it, no property forbids it.
- An unhandled rejection when a signal is aborted before `raceWithAbort`
  (`http.ts:195`) is a matter of the Node runtime.
- Corrupt payload files and Node major versions (`artifact.ts:357`): the model's
  payloads are whole or absent.
- Metric distances: `walk` is any table of minutes; it need not be symmetric or
  satisfy the triangle inequality, and the proofs do not use either.
- React: batching is reduced to when a render happens; concurrent rendering and
  unmounting are left out. The planner's texts, phase label and focus are too.
- Route-first requests: what `validateRequest` checks of one part alone (identifiers,
  canonical order, sizes) is the one fact `wellFormed`. A journey and a path key are
  a participant with the edges of a path, because the rest of them repeats the graph.
  Distances add up as durations do and are left out.
- Stops on an edge (stationary occurrences) are passed on by the code and decide nothing.
  Coordinates of the route-first contract lie on one axis; the Munich bounds of the map, and two
  places that become one when they are projected to floating point, are left out.
- The text of a graph is its length (`fingerprints`), the id of a component the number of its parts.
  Every other text and number the contract bounds - names, times, policy and request fingerprints, the
  envelope of 2 MiB - is the one fact `terse`: a result of a request that is not terse may be refused.
- In `JobStore` the checks of a job's result (`job-cache.ts:269`) are the choice of a good or a bad
  result (`RouteFirstContract` has them); the hook that corrupts a cached payload for tests is not modelled.

## 7. Plan

Done: the modules of section 2, with proofs for the basis cache, the meeting API, the
rotation, the compiler, loader and window, the whole scheduled calculation, the planner, the job
store, the provider layer and the route-first engine.

Next, in this order:

1. That fair regions are intervals in order within the unit interval, for every profile (a part of
   `PublishedAsEvaluated`).
2. The reading of GTFS tables into stops, parents and areas (`gtfs.ts:343`), and the
   transfer neighbours of an area.

## 8. Not modelled, and why

Rendering (`MapLibreCanvas.tsx`, `station-territories.ts`, texts) and the health route have no
state that steps can get wrong. The GTFS compiler's parsing of tables and the extraction of the archive
transform data one entry at a time. The grid-era types of `lib/domain` are data. The assembly of route-first requests
and its fingerprints copy identities. Deployment, profiling, asset and benchmark scripts run outside of the program.
