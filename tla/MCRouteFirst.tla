---- MODULE MCRouteFirst ----
(* Small requests for RouteFirstContract: calls of the enumeration on every   *)
(* graph of four edges and stars of five, every way to cover a few fixed      *)
(* graphs, and for one graph a range of places to meet.                       *)
EXTENDS RouteFirstContract

CONSTANTS walk, ride, f1, f2

MCVertices == 1 .. 5
MCEdges == 1 .. 5
MCModes == {walk, ride}

\* The third edge is ridden, the second takes twice as long.
Wired(from, to) ==
    [from |-> from, to |-> to,
     mode |-> [e \in MCEdges |-> IF e = 3 THEN ride ELSE walk],
     duration |-> [e \in MCEdges |-> IF e = 2 THEN 2 ELSE 1]]

\* A fifth edge leads back from the fifth vertex.
Graph(from, to) == Wired(from \o <<5>>, to \o <<1>>)

Policy(hops, duration, modes, budget) ==
    [maxHops |-> hops, maxDuration |-> duration, allowedModes |-> modes,
     workBudget |-> budget]

Query(g, origin, target, policy) ==
    [graph |-> g, origins |-> {origin}, targets |-> {target}, policy |-> policy]

\* 1 -> 2 -> 3 and 1 -> 3; the fourth edge is of no use.
TwoPaths == Graph(<<1, 2, 1, 3>>, <<2, 3, 3, 1>>)
\* 1 -> 3 only.
OnePath == Graph(<<1, 2, 3, 2>>, <<3, 1, 1, 1>>)

All == Policy(3, None, MCModes, 30)

TwoAndOne == <<Query(TwoPaths, 1, 3, All), Query(OnePath, 1, 3, All)>>
TwoAndTwo == <<Query(TwoPaths, 1, 3, All), Query(TwoPaths, 1, 3, All)>>

KeysOf(queries) ==
    UNION {{[who |-> p, edges |-> path.edges] :
               path \in AllPaths([queries[p] EXCEPT !.policy.maxHops = 4, !.policy.workBudget = None])} :
              p \in 1 .. Len(queries)}

Evidence(journeys, family, kind) ==
    [j \in journeys |->
        {k \in journeys \ {j} :
            /\ kind # "none" /\ k.who = j.who
            /\ kind = "siblings" => family[j] # None /\ family[k] = family[j]}]

-----------------------------------------------------------------------------
(* Where to meet: an edge from 1 to 2 and one from 2 to 3. *)

Part(from, to) == Interval(Rat(from, 4), Rat(to, 4))
Whole == <<Part(0, 4)>>
Ends == <<Part(0, 1), Part(3, 4)>>

Topology(meeting, first, second) ==
    [vertices |-> 1 .. 3, meetingVertices |-> meeting, place |-> [v \in 1 .. 3 |-> v],
     edges |-> <<[from |-> 1, to |-> 2, eligible |-> TRUE, legal |-> first],
                 [from |-> 2, to |-> 3, eligible |-> second # <<>>, legal |-> second]>>]

\* A profile with knots at the given quarters.
Knots(times) ==
    [i \in DOMAIN times |-> [at |-> Rat(i - 1, Len(times) - 1), time |-> Rat(times[i], 1)]]

\* Access of two to the whole of both edges, or to parts.
Everywhere == [e \in 1 .. 2 |-> {Part(0, 4)}]
Nearby == [e \in 1 .. 2 |-> IF e = 1 THEN {Part(0, 1), Part(1, 2)} ELSE {}]

Basis ==
    [tolerance |-> Rat(20, 1), topology |-> Topology(1 .. 3, Whole, Whole),
     profiles |-> [e \in 1 .. 2 |-> <<Knots(<<10, 10>>), Knots(<<10, 20, 10>>)>>],
     access |-> <<Everywhere, Everywhere>>, reach |-> [v \in 1 .. 3 |-> {}],
     evidence |-> <<>>, landmarks |-> <<>>, diversityMinimum |-> 2,
     fingerprints |-> <<2, 2, 2>>, terse |-> TRUE, place |-> [v \in MCVertices |-> v]]

Request(queries, journeys, family, kind, places) ==
    [queries |-> queries, wellFormed |-> TRUE, journeys |-> journeys,
     family |-> family, alternates |-> Evidence(journeys, family, kind)] @@ places

\* Every graph of four edges on four vertices whose first edge leaves the first
\* vertex, and stars of five edges that leave the first vertex, by their ends, under
\* policies that cut by hops, duration, mode or budget, from one origin to one
\* target or from two to two.
MCCalls ==
    {[graph |-> graph, origins |-> ends[1], targets |-> ends[2], policy |-> policy] :
        graph \in {Graph(from, to) : from \in {f \in [1 .. 4 -> 1 .. 4] : f[1] = 1}, to \in [1 .. 4 -> 1 .. 4]}
                 \cup {Wired(<<1, 1, 1, 1, 1>>, to) :
                          to \in {t \in [MCEdges -> 2 .. 5] : \A e \in 1 .. 4 : t[e] <= t[e + 1]}},
        ends \in {<<{1}, {4}>>, <<{1, 2}, {2, 3}>>},
        policy \in {Policy(3, None, MCModes, None), Policy(3, 2, MCModes, 9),
                    Policy(3, None, {walk}, 30), Policy(2, None, MCModes, 5),
                    Policy(1, None, MCModes, None)}}
      \cap Queries

\* The journeys, families and alternates of a request with the queries, right
\* or wrong: any journeys of the graphs, any families.
Covers(queries) ==
    LET keys == KeysOf(queries)
    IN  {Request(queries, journeys, family, evidence, Basis) :
            journeys \in SUBSET keys, family \in [keys -> {f1, f2, None}],
            evidence \in {"siblings", "none", "all"}}

\* The requests with these queries and places, with all in one family, or those
\* of more than one leg in another.
Sorted(queries, places, long) ==
    LET keys == KeysOf(queries)
    IN  {Request(queries, keys, [k \in keys |-> IF Len(k.edges) = 1 THEN f1 ELSE long], "siblings", p) :
            p \in places}

Meets(queries, places) == Sorted(queries, places, f1)

Profiles == {<<Knots(<<10, 10>>), Knots(<<10, 20, 10>>)>>, <<Knots(<<0, 12>>), Knots(<<12, 0>>)>>,
             <<Knots(<<10, 10>>), Knots(<<20, 15, 20>>)>>, <<Knots(<<10, 10>>), Knots(<<11, 11>>)>>}

\* Edges that are fair, legal and accessible in parts.
Edgewise ==
    {[Basis EXCEPT !.tolerance = Rat(t, 1), !.topology = Topology(meeting, first, second),
                   !.profiles = <<one, two>>, !.access = <<Everywhere, access>>] :
        t \in {0, 20}, meeting \in {1 .. 3, {1, 3}},
        first \in {Whole, Ends}, second \in {Whole, Ends, <<>>},
        one \in Profiles, two \in Profiles, access \in {Everywhere, Nearby}}

\* Vertices that are fair by evidence or as landmarks.
Vertexwise ==
    {[Basis EXCEPT !.topology = Topology({1, 3}, Whole, Whole), !.access = <<Everywhere, access>>,
                   !.reach = [v \in 1 .. 3 |-> IF v \in reached THEN {1, 2} ELSE {1}],
                   !.evidence = evidence, !.landmarks = landmarks, !.diversityMinimum = least] :
        access \in {Nearby, [e \in 1 .. 2 |-> {}]}, reached \in {{}, {1}, {1, 3}},
        evidence \in {<<>>, <<3>>, <<2>>, <<3, 3>>}, least \in {1, 2},
        landmarks \in {<<>>, <<[vertex |-> 1, bound |-> TRUE], [vertex |-> 3, bound |-> TRUE]>>,
                       <<[vertex |-> 2, bound |-> TRUE]>>, <<[vertex |-> 3, bound |-> FALSE]>>}}

\* Three participants whose order, and so the median, changes along an edge.
Crowd == <<Query(OnePath, 1, 3, All), Query(OnePath, 1, 3, All), Query(OnePath, 1, 3, All)>>

Lines == {Knots(<<6, 12>>), Knots(<<13, 8>>), Knots(<<9, 12, 9>>), Knots(<<14, 9>>)}

Crowded ==
    {[Basis EXCEPT !.tolerance = Rat(t, 1), !.profiles = <<<<Knots(<<10, 10>>), one, two>>, <<one, two, one>>>>,
                   !.access = <<Everywhere, Everywhere, Everywhere>>] :
        t \in {10, 20}, one \in Lines, two \in Lines}

\* As many fair parts or points of an edge as the profile has low knots.
Jagged(n) == Knots([i \in 1 .. 2 * n - 1 |-> IF i % 2 = 1 THEN 10 ELSE 20])

Scattered ==
    {[Basis EXCEPT !.tolerance = Rat(t, 1), !.profiles = [e \in 1 .. 2 |-> <<Knots(<<10, 10>>), Jagged(lows[e])>>]] :
        t \in {0, 20}, lows \in {<<5, 2>>, <<4, 4>>, <<3, 2>>}}

\* Parts that are not valid.
Invalid ==
    {[Basis EXCEPT !.profiles = <<<<Knots(<<10, -10>>), Knots(<<10, 10>>)>>, Basis.profiles[2]>>],
     [Basis EXCEPT !.profiles = <<<<Knots(<<10, 10>>)>>, Basis.profiles[2]>>],
     [Basis EXCEPT !.topology = Topology(1 .. 3, <<Part(2, 3), Part(0, 1)>>, Whole)],
     [Basis EXCEPT !.topology = Topology(1 .. 3, <<Part(0, 1), Part(1, 2)>>, Whole)],
     [Basis EXCEPT !.topology = Topology(1 .. 3, <<>>, <<>>)],
     [Basis EXCEPT !.access = <<Everywhere, [e \in {1} |-> {Part(0, 4)}]>>]}

\* 1 -> 2 -> 3 in two legs of the same time, and 1 -> 3.
Even == Graph(<<1, 3, 2, 1>>, <<2, 1, 3, 3>>)
\* The third edge takes no time.
Instant == [Graph(<<1, 2, 1, 3>>, <<2, 3, 3, 1>>) EXCEPT !.duration[3] = 0]

\* Texts of graphs that fit, and that do not.
Written ==
    {[Basis EXCEPT !.fingerprints = texts, !.terse = terse] :
        texts \in {<<2, 2>>, <<2, 3>>, <<3, 2>>}, terse \in BOOLEAN}

\* Two vertices at one place: the first two, the last two, or the ends.
Places == {[v \in MCVertices |-> IF v = a THEN b ELSE v] : <<a, b>> \in {<<1, 2>>, <<3, 2>>, <<3, 1>>}}

Placed ==
    {[Basis EXCEPT !.tolerance = Rat(t, 1), !.place = place, !.topology.place = [v \in 1 .. 3 |-> place[v]]] :
        t \in {0, 20, 100}, place \in Places}

\* Three paths, one of two legs; a path of four; three and two.
Brief == Policy(4, None, MCModes, 12)
ThreeAndOne == <<Query(Graph(<<1, 2, 1, 1>>, <<2, 3, 3, 3>>), 1, 3, Brief), Query(OnePath, 1, 3, Brief)>>
LongAndOne == <<Query(Graph(<<1, 2, 3, 4>>, <<2, 3, 4, 5>>), 1, 5, Brief), Query(OnePath, 1, 3, Brief)>>
ThreeAndTwo == <<ThreeAndOne[1], Query(TwoPaths, 1, 3, Brief)>>
EvenAndOne == <<Query(Even, 1, 3, All), TwoAndOne[2]>>
InstantAndOne == <<Query(Instant, 1, 3, All), TwoAndOne[2]>>
\* The first search ends at its budget.
CutAndOne == <<Query(TwoPaths, 1, 3, Policy(3, None, MCModes, 6)), TwoAndOne[2]>>

MCRequests ==
    UNION {Covers(queries) : queries \in
              {TwoAndOne,
               <<Query(OnePath, 1, 3, All), Query(TwoPaths, 1, 3, Policy(1, None, MCModes, 30))>>,
               CutAndOne,
               <<Query(OnePath, 2, 3, All), Query(OnePath, 1, 3, All)>>}}
      \cup Meets(TwoAndOne, Edgewise \cup Scattered \cup Vertexwise \cup Invalid) \cup Meets(Crowd, Crowded)
      \cup UNION {Meets(queries, {Basis}) : queries \in {TwoAndTwo, ThreeAndTwo, LongAndOne, InstantAndOne}}
      \cup UNION {Meets(queries, Written) : queries \in {TwoAndOne, CutAndOne}}
      \cup UNION {Sorted(queries, Placed \cup {Basis}, long) :
                    queries \in {TwoAndOne, ThreeAndOne, EvenAndOne}, long \in {f1, f2}}
      \cup
    {[Request(TwoAndOne, {}, [k \in {} |-> f1], "none", Basis) EXCEPT !.wellFormed = FALSE]}
====
