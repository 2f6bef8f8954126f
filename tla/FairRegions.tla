----------------------------- MODULE FairRegions -----------------------------
(***************************************************************************)
(* Where on an edge everybody arrives at about the same time               *)
(* (lib/domain/route-first/fairness.ts).  A point of an edge is a          *)
(* parameter from zero to one.  A participant's profile is the sequence of *)
(* its knots, the ends of the segments of the code; between two knots the  *)
(* time of arrival is linear.  A region is fair if every arrival is within *)
(* the tolerance of the median arrival.  The code looks for the region     *)
(* between cuts where the median cannot jump from one participant to       *)
(* another.  Stationary occurrences (a stop on the edge) are left out:     *)
(* they are passed on and never decide anything.                           *)
(***************************************************************************)
EXTENDS Rationals, Sequences, FiniteSets, TLC

Interval(start, end) == [start |-> start, end |-> end]
Within(t, interval) == AtMost(interval.start, t) /\ AtMost(t, interval.end)

\* mergeIntervals and topology.ts's canonicalizeIntervals: intervals that
\* overlap or touch become one.
Merged(intervals) ==
    LET starts == {i.start : i \in {j \in intervals :
                      ~\E other \in intervals : Less(other.start, j.start) /\ AtMost(j.start, other.end)}}
        ends == {i.end : i \in {j \in intervals :
                      ~\E other \in intervals : AtMost(other.start, j.end) /\ Less(j.end, other.end)}}
    IN  {i \in {Interval(s, e) : s \in starts, e \in ends} :
            AtMost(i.start, i.end) /\ ~\E e \in ends : AtMost(i.start, e) /\ Less(e, i.end)}

\* The stretches between neighbouring points of a set.
Cells(points) ==
    {cell \in [start : points, end : points] :
        /\ Less(cell.start, cell.end)
        /\ ~\E p \in points : Less(cell.start, p) /\ Less(p, cell.end)}

-----------------------------------------------------------------------------
ValidProfile(profile) ==
    /\ Len(profile) >= 2
    /\ profile[1].at = Zero /\ profile[Len(profile)].at = One
    /\ \A i \in DOMAIN profile : AtMost(Zero, profile[i].time)
    /\ \A i \in 2 .. Len(profile) : Less(profile[i - 1].at, profile[i].at)

TimeAt(profile, t) ==
    LET i == CHOOSE k \in 1 .. Len(profile) - 1 :
                 /\ AtMost(t, profile[k + 1].at)
                 /\ \A l \in 1 .. k - 1 : Less(profile[l + 1].at, t)
    IN  Between(profile[i].time, profile[i + 1].time,
                Over(Minus(t, profile[i].at), Minus(profile[i + 1].at, profile[i].at)))

TimesAt(profiles, t) == [p \in DOMAIN profiles |-> TimeAt(profiles[p], t)]

rationalMedian(values) ==
    LET sorted == SortSeq(values, Less)
        middle == Len(values) \div 2
    IN  IF Len(values) % 2 = 1 THEN sorted[middle + 1]
        ELSE Over(Plus(sorted[middle], sorted[middle + 1]), <<2, 1>>)

Share(percent) == Over(percent, <<100, 1>>)

toleranceSatisfied(profiles, t, tolerance) ==
    LET times == TimesAt(profiles, t)
        median == rationalMedian(times)
    IN  \A p \in DOMAIN times :
           /\ AtMost(Times(median, Minus(One, Share(tolerance))), times[p])
           /\ AtMost(times[p], Times(median, Plus(One, Share(tolerance))))

-----------------------------------------------------------------------------
breakpoints(profiles) ==
    {Zero, One} \cup UNION {{profiles[p][i].at : i \in DOMAIN profiles[p]} : p \in DOMAIN profiles}

\* The zero of a linear difference inside a cell, if its sign changes there.
RootIn(cell, difference(_)) ==
    LET first == difference(cell.start)
        last == difference(cell.end)
    IN  IF OppositeSigns(first, last)
        THEN {Minus(cell.start, Over(Times(first, Minus(cell.end, cell.start)), Minus(last, first)))}
        ELSE {}

\* A mutant of the next: no cuts where participants change places.
NoCuts(profiles) == {}

\* Where two participants change places.  (Those at a breakpoint are cuts already.)
pairwiseCrossingCuts(profiles) ==
    UNION {RootIn(cell, LAMBDA t : Minus(TimeAt(profiles[pair[1]], t), TimeAt(profiles[pair[2]], t))) :
             cell \in Cells(breakpoints(profiles)),
             pair \in {x \in (DOMAIN profiles) \X (DOMAIN profiles) : x[1] < x[2]}}

\* Where a participant's arrival enters or leaves what is fair.
ToleranceCuts(profiles, tolerance, cell) ==
    UNION {RootIn(cell, LAMBDA t : Minus(TimeAt(profiles[p], t),
                                         Times(rationalMedian(TimesAt(profiles, t)), factor))) :
             p \in DOMAIN profiles,
             factor \in {Minus(One, Share(tolerance)), Plus(One, Share(tolerance))}}

allParticipantToleranceRegion(profiles, tolerance) ==
    LET cells == UNION {Cells({cell.start, cell.end} \cup ToleranceCuts(profiles, tolerance, cell)) :
                          cell \in Cells(breakpoints(profiles) \cup pairwiseCrossingCuts(profiles))}
        ends == {cell.start : cell \in cells} \cup {cell.end : cell \in cells}
        fair == {t \in ends : toleranceSatisfied(profiles, t, tolerance)}
        intervals == Merged({cell \in cells : cell.start \in fair /\ cell.end \in fair})
    IN  [intervals |-> intervals,
         points |-> {t \in fair : ~\E i \in intervals : Within(t, i)}]

\* constructFairEligibleComponents makes a point an interval of its own.
InRegion(region, t) == t \in region.points \/ \E i \in region.intervals : Within(t, i)
=============================================================================
