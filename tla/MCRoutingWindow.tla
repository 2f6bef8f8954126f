---- MODULE MCRoutingWindow ----
(* Small feeds for RoutingWindow: every timetable of a trip of three stops   *)
(* under a few calendars with one call, two trips that compete for order,    *)
(* and a few feeds with many calls.                                          *)
EXTENDS RoutingWindow

CONSTANTS A, B, C

MCTrips == 1 .. 2
MCServices == 1 .. 2
MCDates == 0 .. 5
MCWeek == 2
\* The day that begins at 4 is short, the one that begins at 11 is long.
MCAnchor == [d \in MCDates |-> <<0, 4, 7, 11, 16, 20>>[d + 1]]

Stop(area, arrival, departure, pickup, dropOff) ==
    [area |-> area, arrival |-> arrival, departure |-> departure,
     pickup |-> pickup, dropOff |-> dropOff]

\* A trip of three stops; pickup and drop-off vary at the first two.
ThreeStops(areas, t, p, d) ==
    <<Stop(areas[1], t[1], t[1], p[1], TRUE),
      Stop(areas[2], t[2], t[3], p[2], d),
      Stop(areas[3], t[4], t[4], TRUE, TRUE)>>

TwoStops(from, to, departure, arrival) ==
    <<Stop(from, departure, departure, TRUE, TRUE), Stop(to, arrival, arrival, TRUE, TRUE)>>

Times == {t \in [1 .. 4 -> 0 .. 5] : \A i \in 1 .. 3 : t[i] <= t[i + 1]}

Daily == [from |-> 1, until |-> 3, weekdays |-> {0, 1}]
Odd == [from |-> 1, until |-> 4, weekdays |-> {1}]

NoExceptions == [x \in {} |-> "added"]
Exceptions(pairs, kinds) == [x \in {pairs[i] : i \in DOMAIN pairs} |->
                               kinds[CHOOSE i \in DOMAIN pairs : pairs[i] = x]]

Calendars ==
    {<<(1 :> Daily @@ 2 :> Odd), NoExceptions>>,
     <<(1 :> Daily @@ 2 :> Odd), Exceptions(<<<<1, 2>>, <<2, 2>>>>, <<"removed", "added">>)>>,
     <<(1 :> Odd), Exceptions(<<<<2, 2>>, <<1, 1>>>>, <<"added", "removed">>)>>,
     <<(1 :> Odd), Exceptions(<<<<2, 2>>>>, <<"removed">>)>>}

Feed(first, second, calendar) ==
    [stopTimes |-> <<first, second>>, service |-> <<1, 2>>, calendars |-> calendar[1],
     exceptions |-> calendar[2], validFrom |-> 1, validUntil |-> 4,
     info |-> [publisher |-> "MVV", name |-> "none", url |-> "none"],
     attributions |-> [present |-> FALSE, rows |-> <<>>]]

Plain(t) == ThreeStops(<<A, B, C>>, t, <<TRUE, TRUE>>, TRUE)

OneTrip ==
    {[feeds |-> <<Feed(ThreeStops(areas, t, p, d), TwoStops(A, C, 1, 2), calendar)>>, calls |-> 1, starts |-> 4 .. 12] :
        areas \in {<<A, B, C>>, <<A, A, B>>, <<A, B, B>>, <<A, B, A>>}, t \in Times,
        p \in {<<TRUE, TRUE>>, <<FALSE, TRUE>>, <<TRUE, FALSE>>}, d \in BOOLEAN,
        calendar \in {CHOOSE x \in Calendars : x[2] = NoExceptions}}

TwoTrips ==
    {[feeds |-> <<Feed(Plain(t), TwoStops(A, C, departure, arrival), calendar)>>, calls |-> 1, starts |-> 4 .. 12] :
        t \in {x \in Times : x[1] \in {1, 3} /\ x[2] = x[3]}, departure \in {1, 3}, arrival \in {3, 5},
        calendar \in Calendars}

ManyCalls ==
    LET everyDay == <<(1 :> Daily @@ 2 :> Daily), NoExceptions>>
        calendar == CHOOSE x \in Calendars : x[2] = NoExceptions
        one == Feed(Append(Plain(<<0, 1, 1, 2>>), Stop(A, 4, 4, TRUE, TRUE)), TwoStops(A, C, 1, 2), everyDay)
        two == Feed(Plain(<<1, 1, 2, 2>>), TwoStops(A, C, 1, 5), calendar)
    IN  {[feeds |-> f, calls |-> 4, starts |-> {5, 7, 10}] : f \in {<<one, two>>, <<one, one>>}}

\* Every license metadata of a feed; no calls.
Licenses ==
    LET feed == Feed(Plain(<<0, 1, 1, 2>>), TwoStops(A, C, 1, 2),
                     <<(1 :> Daily @@ 2 :> Daily), NoExceptions>>)
    IN  {[feeds |-> <<[feed EXCEPT !.info = info, !.attributions = file]>>, calls |-> 0, starts |-> {5}] :
            info \in FeedInfos, file \in Attributions}

\* A calendar that ends before it begins; its service runs on an added date.
Inverted ==
    LET backwards == <<(1 :> [Daily EXCEPT !.from = 3, !.until = 1] @@ 2 :> Daily),
                       Exceptions(<<<<1, 2>>>>, <<"added">>)>>
    IN  {[feeds |-> <<Feed(Plain(<<0, 1, 1, 2>>), TwoStops(A, C, 1, 2), backwards)>>,
          calls |-> 0, starts |-> {5}]}

MCScenarios == {OneTrip, TwoTrips, ManyCalls, Licenses, Inverted}
====
