--------------------------- MODULE RoutingEnvelope ---------------------------
(***************************************************************************)
(* Whether a line stays inside the Munich access envelope                  *)
(* (lib/providers/self-hosted-routing.ts).  A point is a pair of integers, *)
(* a ring a closed sequence of points, a polygon a sequence of rings (the  *)
(* outer one and its holes), an envelope a sequence of polygons.  Positions*)
(* along a segment are exact fractions: the point k / d of the way from p  *)
(* to q is tested at d times its coordinates, in the envelope enlarged by  *)
(* d; the code's rounding tolerances (1e-10, 1e-12) are zero here.         *)
(***************************************************************************)
EXTENDS Integers, Sequences, FiniteSets

LOCAL R == INSTANCE Rationals

Offset(p, q) == <<q[1] - p[1], q[2] - p[2]>>

CrossProduct(u, v) == u[1] * v[2] - u[2] * v[1]

DotProduct(u, v) == u[1] * v[1] + u[2] * v[2]

IsBetween(x, a, b) == (a <= x /\ x <= b) \/ (b <= x /\ x <= a)

IsPointOnSegment(p, a, b) ==
  /\ CrossProduct(Offset(a, b), Offset(a, p)) = 0
  /\ \A i \in 1 .. 2 : IsBetween(p[i], a[i], b[i])

\* The point in front of point i of a ring, the last one in front of the first.
Prior(ring, i) == ring[IF i = 1 THEN Len(ring) ELSE i - 1]

OnRing(p, ring) ==
  \E i \in DOMAIN ring : IsPointOnSegment(p, Prior(ring, i), ring[i])

\* The ray from p to greater first coordinates crosses an odd number of edges.
IsPointInRingWithoutBoundary(p, ring) ==
  LET Crosses(c, b) ==
        LET rise == b[2] - c[2]
            reach == (p[1] - c[1]) * rise - (b[1] - c[1]) * (p[2] - c[2])
        IN  /\ (c[2] > p[2]) # (b[2] > p[2])
            /\ IF rise > 0 THEN reach < 0 ELSE reach > 0
  IN  Cardinality({i \in DOMAIN ring : Crosses(ring[i], Prior(ring, i))}) % 2 = 1

IsPointInRing(p, ring) ==
  /\ Len(ring) >= 4
  /\ (OnRing(p, ring) \/ IsPointInRingWithoutBoundary(p, ring))

IsPointStrictlyInsideRing(p, ring) ==
  ~OnRing(p, ring) /\ IsPointInRingWithoutBoundary(p, ring)

\* The border of a hole still belongs to the polygon.
IsPointInPolygon(p, rings) ==
  /\ rings # <<>>
  /\ IsPointInRing(p, rings[1])
  /\ \A h \in 2 .. Len(rings) : ~IsPointStrictlyInsideRing(p, rings[h])

IsPointInEnvelope(p, envelope) ==
  \E g \in DOMAIN envelope : IsPointInPolygon(p, envelope[g])

-------------------------------------------------------------------------------
\* The point k / d of the way from p to q lies in the envelope.
IsFractionInEnvelope(p, q, k, d, envelope) ==
  IsPointInEnvelope(
    [i \in 1 .. 2 |-> d * p[i] + k * (q[i] - p[i])],
    [g \in DOMAIN envelope |-> [r \in DOMAIN envelope[g] |->
      [n \in DOMAIN envelope[g][r] |-> [i \in 1 .. 2 |-> d * envelope[g][r][n][i]]]]])

ClampUnit(x) == R!Higher(R!Zero, R!Lower(R!One, x))

\* Where the segment from p to q meets the edge from a to b; the two ends of an
\* edge on the same line.
IntersectionParameters(p, q, a, b) ==
  LET segment == Offset(p, q)
      edge == Offset(a, b)
      denominator == CrossProduct(segment, edge)
      At(u) == R!Rat(CrossProduct(Offset(p, a), u), denominator)
      Onto(c) == ClampUnit(R!Rat(DotProduct(Offset(p, c), segment),
                                 DotProduct(segment, segment)))
  IN  IF denominator # 0
      THEN {s \in {At(edge)} : \A t \in {s, At(segment)} :
                                 R!AtMost(R!Zero, t) /\ R!AtMost(t, R!One)}
      ELSE IF CrossProduct(Offset(p, a), segment) = 0 /\ p # q
           THEN {Onto(a), Onto(b)}
           ELSE {}

SegmentParameters(p, q, envelope) ==
  {R!Zero, R!One} \cup
  UNION {UNION {UNION {IntersectionParameters(p, q, ring[i], ring[i + 1]) :
                         i \in 1 .. Len(ring) - 1} :
                  ring \in {envelope[g][r] : r \in DOMAIN envelope[g]}} :
           g \in DOMAIN envelope}

\* Mutant of IsSegmentInside: only the ends of the segment are looked at.
AreEndsInside(p, q, envelope) ==
  IsPointInEnvelope(p, envelope) /\ IsPointInEnvelope(q, envelope)

\* Between two borders the middle decides.
IsSegmentInside(p, q, envelope) ==
  LET parameters == SegmentParameters(p, q, envelope)
      Adjacent(s, e) == /\ R!Less(s, e)
                        /\ \A t \in parameters : ~(R!Less(s, t) /\ R!Less(t, e))
  IN  /\ IsPointInEnvelope(p, envelope)
      /\ IsPointInEnvelope(q, envelope)
      /\ \A s, e \in parameters :
           Adjacent(s, e) =>
             LET middle == R!Between(s, e, <<1, 2>>)
             IN  IsFractionInEnvelope(p, q, middle[1], middle[2], envelope)

\* isLineStringWithinRoutingAccessEnvelope
IsLineInside(line, envelope) ==
  /\ Len(line) >= 2
  /\ \A i \in 1 .. Len(line) - 1 : IsSegmentInside(line[i], line[i + 1], envelope)
===============================================================================
