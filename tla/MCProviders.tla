----------------------------- MODULE MCProviders -----------------------------
(* Limiter: two nearby lookups of one request and two location searches of  *)
(* others on two places, over two slots.  Answers: every answer of up to three   *)
(* entries.  Configuration: the settings, alone and in combination, two     *)
(* envelopes and two manifests.  Routing: every segment of a grid of 16     *)
(* points in three envelopes, every way two legs may be timed and joined,   *)
(* every sequence of up to three instructions, listings around the limits.  *)
EXTENDS Providers, TLC

CONSTANTS a1, a2, f1, g1, sa, sf, sg, p, s

MCSignalOf == (a1 :> sa) @@ (a2 :> sa) @@ (f1 :> sf) @@ (g1 :> sg)

MCPlaceOf == (a1 :> p) @@ (a2 :> p) @@ (f1 :> s) @@ (g1 :> s)

-------------------------------------------------------------------------------
SeqUpTo(set, n) == UNION {[1 .. k -> set] : k \in 0 .. n}

MCStations ==
  [id : 1 .. 4, distance : 1 .. 3, complete : {TRUE}]
    \cup {[id |-> 1, distance |-> 1, complete |-> FALSE]}

MCPlaces ==
  [id : 1 .. 3, type : {"address", "poi"}, inMunich : BOOLEAN, complete : {TRUE}]
    \cup {[id |-> 1, type |-> "address", inMunich |-> TRUE, complete |-> FALSE]}

NearStations == {station \in MCStations : station.id < 4 /\ station.distance \in {1, 2}}

MCAnswers ==
  {[kind |-> "stations", entries |-> e] :
     e \in SeqUpTo(MCStations, 3) \cup [1 .. 4 -> NearStations]
                              \cup [1 .. 5 -> {CHOOSE n \in NearStations : TRUE}]}
    \cup {[kind |-> "places", entries |-> e] : e \in SeqUpTo(MCPlaces, 3)}

-------------------------------------------------------------------------------
Url(scheme, loopback) == [scheme |-> scheme, loopback |-> loopback, plain |-> TRUE]

NoUrl == Url("none", FALSE)

Urls == {NoUrl, Url("https", FALSE), Url("http", TRUE), Url("http", FALSE),
         [scheme |-> "https", loopback |-> FALSE, plain |-> FALSE]}

PlainEnvironments ==
  [mode : {"unset", "fixture", "configured", "self-hosted-routing", "invalid"},
   deployment : {"unknown", "fixture", "self-hosted", "invalid"},
   selfHosted : {"none", "some", "complete"},
   gateway : {NoUrl, Url("https", FALSE)}, search : {NoUrl, Url("https", FALSE)},
   gatewayToken : {FALSE}, feedClaims : {"none", "complete"}, sourceNamed : {TRUE},
   numbersInRange : {TRUE}, artifactPath : {"none", "absolute", "relative"},
   allowHttp : {FALSE}, development : {FALSE}]

MCEnvironments ==
  LET configured == {e \in PlainEnvironments : /\ e.mode \in {"configured", "self-hosted-routing"}
                                               /\ e.deployment = "self-hosted"
                                               /\ e.artifactPath = "absolute"
                                               /\ e.selfHosted # "some"}
  IN  PlainEnvironments
        \cup {[e EXCEPT !.gatewayToken = TRUE] : e \in configured}
        \cup {[e EXCEPT !.numbersInRange = FALSE] : e \in configured}
        \cup {[e EXCEPT !.sourceNamed = FALSE] : e \in configured}
        \cup {[e EXCEPT !.gateway = url, !.allowHttp = allow, !.development = dev] :
                e \in {e \in configured : e.mode = "configured"},
                url \in Urls, allow \in BOOLEAN, dev \in BOOLEAN}

-------------------------------------------------------------------------------
Grid == (0 .. 3) \X (0 .. 3)

\* A bay between two arms, a square with a hole, and three squares of which the
\* first two share a side and the last two a corner.
MCEnvelopeOf ==
  [bay |-> <<<<<< <<0, 0>>, <<3, 0>>, <<3, 2>>, <<2, 2>>, <<2, 1>>, <<1, 1>>, <<1, 2>>,
                 <<0, 2>>, <<0, 0>> >>>>>>,
   hole |-> <<<<<< <<0, 0>>, <<3, 0>>, <<3, 3>>, <<0, 3>>, <<0, 0>> >>,
               << <<1, 1>>, <<2, 1>>, <<2, 2>>, <<1, 2>>, <<1, 1>> >>>>>>,
   parts |-> <<<<<< <<0, 0>>, <<1, 0>>, <<1, 2>>, <<0, 2>>, <<0, 0>> >>>>,
               <<<< <<1, 1>>, <<2, 1>>, <<2, 2>>, <<1, 2>>, <<1, 1>> >>>>,
               <<<< <<2, 2>>, <<3, 2>>, <<3, 3>>, <<2, 3>>, <<2, 2>> >>>>>>]

MCCellsOf ==
  [bay |-> {<<0, 0>>, <<1, 0>>, <<2, 0>>, <<0, 1>>, <<2, 1>>},
   hole |-> ((0 .. 2) \X (0 .. 2)) \ {<<1, 1>>},
   parts |-> {<<0, 0>>, <<0, 1>>, <<1, 1>>, <<2, 2>>}]

Asked(mode, origin, destination, listing, name) ==
  [request |-> [mode |-> mode, origin |-> origin, destination |-> destination,
                departureAt |-> 0],
   listing |-> listing, envelope |-> name]

Segments ==
  {Asked("bike", a, b, <<[time |-> 2, points |-> <<a, b>>, instructed |-> FALSE, instructions |-> <<>>]>>, name) :
     a \in Grid, b \in Grid, name \in DOMAIN MCEnvelopeOf}

Ahead3 == << <<0, 0>>, <<1, 0>>, <<2, 0>> >>

Instructions(last, times) ==
  {i \in [first : 0 .. last, last : 0 .. last, time : times] : i.first <= i.last + 1}

Instructed ==
  {Asked("car", <<0, 0>>, <<2, 0>>,
         <<[time |-> t, points |-> Ahead3, instructed |-> TRUE, instructions |-> i]>>, "bay") :
     t \in 1 .. 2,
     i \in SeqUpTo(Instructions(3, 0 .. 1), 2) \cup [1 .. 3 -> {i \in Instructions(2, 0 .. 1) : i.first <= i.last}]}

Leg(mode, start, end, seconds, line) ==
  [mode |-> mode, start |-> [scheduled |-> start, estimated |-> NoEstimate],
   end |-> [scheduled |-> end, estimated |-> NoEstimate], duration |-> seconds,
   from |-> line[1], to |-> Last(line), points |-> line]

Itinerary(start, end, seconds, legs) ==
  [start |-> start, end |-> end, duration |-> seconds, legs |-> legs]

Transit(listing) == Asked("transit", <<0, 0>>, <<3, 0>>, listing, "bay")

TwoLegs ==
  {Transit(<<Itinerary(start, end, seconds,
       <<Leg("walk", s1, e1, d1, << <<0, 0>>, <<1, 0>> >>),
         Leg("transit", s2, e2, d2, << <<x, 0>>, <<3, 0>> >>)>>)>>) :
     start \in 0 .. 1, end \in 5 .. 6, seconds \in 2 .. 3,
     s1 \in 0 .. 1, e1 \in 1 .. 3, d1 \in 0 .. 1,
     s2 \in 1 .. 4, e2 \in 5 .. 6, d2 \in 0 .. 1, x \in 1 .. 3}

\* One leg in time or delayed, of each mode, reaching its ends or not.
OneLeg ==
  {Transit(<<Itinerary(start, start + 2, 1,
       <<[mode |-> mode, start |-> [scheduled |-> 0, estimated |-> es],
          end |-> [scheduled |-> 2, estimated |-> ee], duration |-> 1,
          from |-> << x, 0>>, to |-> <<3, 0>>, points |-> line]>>)>>) :
     start \in 0 .. 1, mode \in {"transit", "walk", "bike"},
     es \in {NoEstimate, 1, Malformed}, ee \in {NoEstimate, 3, Malformed}, x \in 0 .. 2,
     line \in {<< <<0, 0>>, <<3, 0>> >>, << <<2, 0>>, <<3, 0>> >>,
               << <<0, 0>>, <<0, 2>>, <<2, 2>>, <<3, 0>> >>, << <<0, 0>> >>}}

Early == Itinerary(0, 2, 1, <<Leg("walk", 0, 2, 1, << <<0, 0>>, <<3, 0>> >>)>>)

Late == Itinerary(2, 6, 2, <<Leg("transit", 2, 6, 2, << <<0, 0>>, <<3, 0>> >>)>>)

Broken == Itinerary(0, 2, 2, <<Leg("walk", 0, 2, 1, << <<0, 0>>, <<3, 0>> >>)>>)

Still == Itinerary(0, 0, 0, <<Leg("walk", 0, 0, 0, << <<0, 0>>, <<0, 0>> >>)>>)

Stops == Itinerary(0, 0, 0, <<>>)

Listings ==
  {Transit(listing) : listing \in SeqUpTo({Early, Late}, 5) \cup SeqUpTo({Early, Broken, Still, Stops}, 2)}

PathLists ==
  {Asked("bike", <<0, 0>>, <<2, 0>>, listing, "bay") :
     listing \in SeqUpTo({[time |-> 2, points |-> Ahead3, instructed |-> FALSE, instructions |-> <<>>],
                          [time |-> -1, points |-> Ahead3, instructed |-> FALSE, instructions |-> <<>>]}, 3)}

MCScenarios ==
  Segments \cup Instructed \cup TwoLegs \cup OneLeg \cup Listings \cup PathLists
    \cup {Asked(mode, <<9, 9>>, <<0, 0>>, <<>>, "bay") : mode \in {"transit", "car"}}

===============================================================================
