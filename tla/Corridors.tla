------------------------------ MODULE Corridors ------------------------------
(***************************************************************************)
(* The middle of a journey and the corridor around it                      *)
(* (lib/domain/route-first/journey.ts, corridor.ts).  A journey is the     *)
(* durations of its legs, from time zero on; its times are those of its    *)
(* occurrences.  Where it is at a time is a leg and the fraction of the    *)
(* leg that is behind.                                                     *)
(***************************************************************************)
EXTENDS Rationals, SequencesExt

Elapsed(legs) ==
    [i \in 1 .. Len(legs) + 1 |-> <<FoldSeq(LAMBDA leg, sum : leg + sum, 0, SubSeq(legs, 1, i - 1)), 1>>]

\* normalizeRouteJourney: some leg, and time passes on each of them.
ValidJourney(legs) == legs # <<>> /\ \A i \in DOMAIN legs : legs[i] > 0

journeyPositionAt(times, tau) ==
    LET leg == CHOOSE i \in 1 .. Len(times) - 1 :
                   /\ AtMost(tau, times[i + 1])
                   /\ \A k \in 1 .. i - 1 : Less(times[k + 1], tau)
    IN  [leg |-> leg,
         fraction |-> Over(Minus(tau, times[leg]), Minus(times[leg + 1], times[leg]))]

canonicalJourneyMidpoint(times) == Between(times[1], times[Len(times)], <<1, 2>>)

\* The corridor takes the given percentage of the journey's time, half of it
\* on each side of the middle, and never leaves the journey.
ExactCorridor(times, tolerance) ==
    LET start == times[1]
        end == times[Len(times)]
        middle == canonicalJourneyMidpoint(times)
        margin == Over(Times(Minus(end, start), tolerance), <<200, 1>>)
    IN  [start |-> Higher(start, Minus(middle, margin)), end |-> Lower(end, Plus(middle, margin))]

\* exactTemporalCorridor: `timesOf` are the times of the journey and of its
\* alternates; the envelope spans the corridors of all of them.
exactTemporalCorridor(journey, alternates, timesOf, tolerance) ==
    LET middle == canonicalJourneyMidpoint(timesOf[journey])
        constituents == [j \in {journey} \cup alternates |-> ExactCorridor(timesOf[j], tolerance)]
        least(i) == \A j \in DOMAIN constituents : AtMost(constituents[i].start, constituents[j].start)
        last(i) == \A j \in DOMAIN constituents : AtMost(constituents[j].end, constituents[i].end)
    IN  [middle |-> middle,
         position |-> journeyPositionAt(timesOf[journey], middle),
         exact |-> constituents[journey],
         envelope |-> IF alternates = {} THEN <<>>
                      ELSE <<[start |-> constituents[CHOOSE i \in DOMAIN constituents : least(i)].start,
                              end |-> constituents[CHOOSE i \in DOMAIN constituents : last(i)].end]>>,
         constituents |-> constituents]
=============================================================================
