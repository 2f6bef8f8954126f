------------------------------- MODULE MCRouter --------------------------------
(* Two trips over three areas: one from a over b to c, with a continuation,   *)
(* and one of a single row between any two areas, at any times; two areas can *)
(* be reached from the origin; b and c are close, perhaps at the same place.  *)
(* The red participant scans first; the blue one may have no access seeds.    *)
EXTENDS MeetingSurface

CONSTANTS a, b, c

MCAreas == {a, b, c}

Spans == {s \in Times \X Times : s[1] <= s[2]}

Trips == {t \in Spans \X Spans : t[1][1] <= t[2][1] /\ t[1][2] <= t[2][2]}

Tables ==
  {[from |-> <<a, b, hop[1]>>, to |-> <<b, c, hop[2]>>,
    departure |-> <<trip[1][1], trip[2][1], span[1]>>,
    arrival |-> <<trip[1][2], trip[2][2], span[2]>>,
    pickup |-> <<TRUE, pickup, TRUE>>, dropOff |-> <<dropOff, TRUE, TRUE>>,
    next |-> <<2, NoRow, NoRow>>] :
     trip \in Trips, span \in Spans,
     hop \in {h \in MCAreas \X MCAreas : h[1] # h[2]},
     pickup \in BOOLEAN, dropOff \in BOOLEAN}

MCAreaOrder == <<a, b, c>>

OriginA == {[area |-> a, time |-> 0], [area |-> b, time |-> 1]}
OriginC == {[area |-> a, time |-> 1], [area |-> c, time |-> 0]}
Center == {[area |-> a, time |-> 0]}

\* A participant without access seeds, on either side, and two who start at
\* different places.
MCParties ==
  {<<OriginA, OriginC>>, <<OriginC, {}>>, <<{}, OriginC>>, <<Center, Center>>}

MCWalk(time) ==
  [x \in MCAreas |-> [y \in MCAreas |->
     IF {x, y} = {b, c} THEN time ELSE IF x = y THEN 0 ELSE Never]]

\* Everyday timetables: every ride takes time, the trip leaves b after it
\* arrived there, only a can be reached from the origin and no two areas are
\* close.
Everyday(t) ==
  {[table |-> t, seeds |-> Center, walk |-> MCWalk(Never)]}

IsEveryday(t) ==
  /\ \A r \in Rows : t.departure[r] < t.arrival[r]
  /\ t.arrival[1] <= t.departure[2]

\* The first trip passes b without letting anyone off.
MCPassingNetworks ==
  UNION {Everyday(t) : t \in {t \in Tables : IsEveryday(t) /\ ~t.dropOff[1]}}

\* Every table with the first seeds; the everyday ones with the others too.
MCNetworks ==
  {[table |-> n[1], seeds |-> n[2], walk |-> MCWalk(n[3])] :
     n \in {n \in Tables \X {OriginA, OriginC, {}} \X {0, 1} :
              n[2] = OriginA \/ (IsEveryday(n[1]) /\ n[3] = 1)}}

===============================================================================
