------------------------------ MODULE MvgAnswers ------------------------------
(***************************************************************************)
(* What becomes of a well-formed MVG answer: createSeeds of                *)
(* lib/providers/mvg-scheduled-access.ts turns the stations near an origin *)
(* into access seeds, parseMvgLocationSearchResults of                     *)
(* lib/providers/mvg-locations.ts turns the found places into suggestions. *)
(* An entry has the identity the code tells entries apart by (a station id,*)
(* a label with its coordinate), as a number in the order of the ids; a    *)
(* station its distance from the origin, a place its type and side of the  *)
(* Munich boundary.  One incomplete station makes the whole answer fail,   *)
(* an incomplete place is passed over.  A station may come again with      *)
(* another coordinate: of its entries within reach the code takes the      *)
(* first, be it the nearest or not.                                        *)
(***************************************************************************)
EXTENDS Integers, SequencesExt

CONSTANTS
  Answers,        (* the answers, sequences of entries, each of one kind    *)
  AreaIds,        (* the station areas of the schedule                      *)
  Radius,         (* MVG_NEARBY_MAX_RADIUS_METERS                           *)
  MaxSeeds,       (* MVG_SCHEDULED_ACCESS_MAX_SEEDS                         *)
  MaxResults,     (* MVG_LOCATION_SEARCH_MAX_RESULTS                        *)
  MaxStations     (* MVG_NEARBY_MAX_STATION_RESULTS                         *)

VARIABLES
  answer,   (* the answer                                                    *)
  status,   (* "unread", "refused" or "read"                                 *)
  read      (* the seeds or suggestions                                      *)

answerVars == <<answer, status, read>>

AnswersStart == status = "unread" /\ read = <<>>

-------------------------------------------------------------------------------
\* The station is an area of the schedule within reach.
IsCandidate(station) == station.id \in AreaIds /\ station.distance <= Radius

\* The accepted entries in their order, of each identity the first.
FirstOfEach(entries, Accepted(_)) ==
  FoldLeft(LAMBDA kept, e :
             IF ~Accepted(e) \/ e.id \in {k.id : k \in ToSet(kept)} THEN kept
             ELSE Append(kept, e),
           <<>>, entries)

Nearer(a, b) == a.distance < b.distance \/ (a.distance = b.distance /\ a.id < b.id)

FirstOf(entries, count) ==
  SubSeq(entries, 1, IF Len(entries) < count THEN Len(entries) ELSE count)

\* Mutant of Seeds: a station is looked at once, before its distance is.
SeedsOfFirstSeen(stations) ==
  LET IsFirst(i) == \A k \in 1 .. i - 1 : stations[k].id # stations[i].id
      candidates == {stations[i] : i \in {i \in DOMAIN stations :
                                            IsFirst(i) /\ IsCandidate(stations[i])}}
  IN  FirstOf(SetToSortSeq(candidates, Nearer), MaxSeeds)

\* createSeeds
Seeds(stations) ==
  LET candidates == FirstOfEach(stations, IsCandidate)
  IN  FirstOf(SetToSortSeq(ToSet(candidates), Nearer), MaxSeeds)

\* Addresses and stations may lie outside Munich, other places may not.
IsSuggested(place) ==
  place.complete /\ (place.type \in {"address", "station"} \/ place.inMunich)

\* parseMvgLocationSearchResults
Suggestions(places) == FirstOf(FirstOfEach(places, IsSuggested), MaxResults)

ReadStations ==
  /\ status = "unread"
  /\ answer.kind = "stations"
  /\ IF /\ Len(answer.entries) <= MaxStations
        /\ \A station \in ToSet(answer.entries) : station.complete
     THEN status' = "read" /\ read' = Seeds(answer.entries)
     ELSE status' = "refused" /\ UNCHANGED read
  /\ UNCHANGED answer

ReadPlaces ==
  /\ status = "unread"
  /\ answer.kind = "places"
  /\ status' = "read"
  /\ read' = Suggestions(answer.entries)
  /\ UNCHANGED answer

AnswersNext == ReadStations \/ ReadPlaces

-------------------------------------------------------------------------------
(* Properties.                                                              *)

\* An answer of stations fails if one is incomplete or there are too many, and
\* only then.  Otherwise the first entry within reach of each area counts.  The
\* seeds are entries that count, in order, one for an area, and one that counts
\* is left out for the limit only, in favour of none that is farther: what is
\* out of reach, unknown to the schedule or repeated behind it costs no station
\* its place.  (An entry before it does, if it is of the same station, within
\* reach and farther; mvg-scheduled-access.ts:92, mvg-nearby.ts:104.)
Counts(stations, i) ==
  /\ IsCandidate(stations[i])
  /\ \A k \in 1 .. i - 1 : IsCandidate(stations[k]) => stations[k].id # stations[i].id

SeedsAreNearest ==
  answer.kind = "stations" =>
    LET stations == answer.entries
        counted == {stations[i] : i \in {i \in DOMAIN stations : Counts(stations, i)}}
        broken == Len(stations) > MaxStations \/ \E station \in ToSet(stations) : ~station.complete
    IN  /\ status = "refused" => broken
        /\ status = "read" =>
             /\ ~broken
             /\ Len(read) <= MaxSeeds
             /\ \A i, k \in DOMAIN read : i < k => Nearer(read[i], read[k]) /\ read[i].id # read[k].id
             /\ ToSet(read) \subseteq counted
             /\ \A station \in counted \ ToSet(read) : Len(read) = MaxSeeds /\ Nearer(Last(read), station)

\* The suggestions are distinct, in the order of the answer, and none is left out
\* while there is room.
SuggestionsAreWhole ==
  status = "read" /\ answer.kind = "places" =>
    LET places == answer.entries
        Acceptable(n) == {places[i].id : i \in {i \in 1 .. n : IsSuggested(places[i])}}
    IN  /\ \A i, k \in DOMAIN read : i # k => read[i].id # read[k].id
        /\ Len(read) <= MaxResults
        /\ \A n \in 0 .. Len(places) :
             Cardinality(Acceptable(n)) <= MaxResults =>
               Acceptable(n) = {read[i].id : i \in 1 .. Cardinality(Acceptable(n))}

\* Both readings keep what matters of an answer.
AnswersAreReadWhole == SeedsAreNearest /\ SuggestionsAreWhole
===============================================================================
