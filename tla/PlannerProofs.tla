---------------------------- MODULE PlannerProofs ----------------------------
(***************************************************************************)
(* Proofs about Planner, for any participants, places, settings and areas, *)
(* and any number of calculations and selections.                          *)
(***************************************************************************)
EXTENDS Planner, TLAPS

-------------------------------------------------------------------------------
(* The inductive invariant.                                                *)

\* The page still listens to a call of calculate(), or waits for a fetch of
\* selectStationArea(): its controller has not been aborted.
Listened(c) == /\ calculations[c].stage \in {"fetch", "read"}
               /\ ~calculations[c].aborted

Awaited(d) == details[d].stage = "fetch" /\ ~details[d].aborted

\* A fetch is for an area of a calculation that has a reference.
FetchesAreWhole ==
  \A d \in Selections : details[d].stage = "fetch" =>
    details[d].area \in Areas /\ details[d].ref \in Requests

\* Of the calculations only the last is listened to, and its controller is the
\* one at hand, so that the next submit or cancel aborts it.
LatestCalculation ==
  /\ \A c \in Requests : Listened(c) => c = requestRef /\ c = streamAbort
  /\ \A c \in Requests : c > requestRef => calculations[c].stage = "unused"
  /\ ui.status = "loading" => requestRef \in Requests /\ Listened(requestRef)
  /\ \A v \in ui.verdicts : v[1] = requestRef
  /\ ui.result # None =>
       \A c \in Requests : c > ui.result.of => calculations[c].stage = "unused"

\* While a calculation is listened to there is no result and no detail, and no
\* fetch under way: what calculate() cleared at its start stays clear.  The user
\* still sees the old result until the render.
NoResultYet ==
  \A c \in Requests : Listened(c) =>
    /\ ui.result = None
    /\ ui.detail = None
    /\ ~ui.detailExpired
    /\ detailAbort = 0
    /\ ~flushing => shown.result = None

\* A result that the user sees is the page's result, unless that was cleared: a
\* selection, which reads the render, is made in the page's calculation.
SameResult ==
  shown.result # None /\ ui.result # None =>
    /\ shown.result = ui.result
    /\ shown.calculationRef = ui.calculationRef

\* Beside a result stand the details of its own calculation, the fetch under way
\* asks for that calculation too, and details that have expired are those of a
\* calculation the server forgot.
OfResult(screen) ==
  screen.result # None =>
    /\ screen.calculationRef \in {0, screen.result.of}
    /\ screen.detail # None => /\ screen.detail.area = screen.selectedId
                               /\ screen.detail.ref = screen.calculationRef
                               /\ screen.calculationRef # 0
    /\ \A d \in Selections : Awaited(d) =>
         details[d].ref = screen.calculationRef
    /\ ui.detailExpired /\ screen.calculationRef # 0
         => screen.calculationRef \in forgotten

DetailsOfResult == OfResult(ui) /\ OfResult(shown)

\* Of the fetches only that of the last selection is awaited, its controller is
\* the one at hand, the spinner turns for it and for nothing else, and no detail
\* is shown meanwhile.
LatestSelection ==
  /\ \A d \in Selections : Awaited(d) =>
       /\ d = detailRequestId /\ d = detailAbort
       /\ ui.detailLoading
       /\ ui.detail = None
       /\ details[d].area = ui.selectedId
       /\ details[d].ref # 0
       /\ ui.detailExpired => details[d].ref \in forgotten
  /\ ui.detailLoading => /\ detailRequestId \in Selections
                         /\ Awaited(detailRequestId)
  /\ \A d \in Selections : d > detailRequestId => details[d].stage = "unused"
  /\ detailAbort \in {0, detailRequestId}
  /\ ui.detailExpired => ui.detail = None /\ detailCache = {}

Held(p) == lookup[p].op = "locate"

\* Nothing can change the inputs unnoticed.  While a calculation is listened to,
\* no location is pending and the controls are disabled, or will be by the
\* render that is due: until then a second submit would be as complete as the first.
\* Once there is a result, the controls stay disabled until it is shown, and the
\* closure of a pending location saw it.
InputsKept ==
  /\ \A c \in Requests : Listened(c) /\ ~diverged =>
       /\ Inputs(calculations[c]) = Inputs(ui)
       /\ ui.status = "loading"
       /\ \A p \in Participants : ~Held(p)
       /\ \/ Disabled(shown)
          \/ flushing /\ \A p \in Participants : shown.place[p] # None
  /\ ui.result # None /\ ~diverged =>
       /\ Inputs(ui.result) = Inputs(ui)
       /\ shown.result = None => Disabled(shown)
       /\ shown.result = None => \A p \in Participants : ~Held(p)
       /\ \A p \in Participants : Held(p) => lookup[p].seen

IInv ==
  /\ TypeOK
  /\ FetchesAreWhole
  /\ LatestCalculation
  /\ NoResultYet
  /\ SameResult
  /\ DetailsOfResult
  /\ LatestSelection
  /\ InputsKept

-------------------------------------------------------------------------------
(* Types.                                                                  *)

\* What the handlers set on a screen gives a screen.
LEMMA Updates ==
  ASSUME NEW s \in Screens
  PROVE  /\ \A p \in Participants, b \in BOOLEAN :
              [s EXCEPT !.suggestions[p] = b] \in Screens
         /\ \A p \in Participants, l \in Places : Placed(s, p, l) \in Screens
         /\ \A o \in Options : [s EXCEPT !.options = o] \in Screens
         /\ \A st \in Statuses : [s EXCEPT !.status = st] \in Screens
         /\ WithoutDetails(s) \in Screens
         /\ \A b \in BOOLEAN : Changed(s, b) \in Screens
<1>1. ASSUME NEW p \in Participants, NEW b \in BOOLEAN
      PROVE  [s EXCEPT !.suggestions[p] = b] \in Screens
  BY DEF Screens
<1>2. ASSUME NEW p \in Participants, NEW l \in Places
      PROVE  Placed(s, p, l) \in Screens
  BY DEF Screens, Placed, PlaceOf
<1>3. ASSUME NEW o \in Options PROVE [s EXCEPT !.options = o] \in Screens
  BY DEF Screens
<1>4. ASSUME NEW st \in Statuses PROVE [s EXCEPT !.status = st] \in Screens
  BY DEF Screens
<1>5. WithoutDetails(s) \in Screens
  BY DEF Screens, WithoutDetails
<1>6. [WithoutDetails(s) EXCEPT !.verdicts = {}, !.result = None,
                                !.status = "idle"] \in Screens
  BY <1>5 DEF Screens, Statuses
<1>7. ASSUME NEW b \in BOOLEAN PROVE Changed(s, b) \in Screens
  BY <1>6 DEF Changed
<1> QED BY <1>1, <1>2, <1>3, <1>4, <1>5, <1>7

\* What is heard of a calculation, or its abort, leaves a call.
LEMMA CallUpdates ==
  ASSUME NEW k \in Calls
  PROVE  /\ [k EXCEPT !.aborted = TRUE] \in Calls
         /\ [k EXCEPT !.stage = "read"] \in Calls
         /\ [k EXCEPT !.ref = TRUE] \in Calls
         /\ \A answer \in {"ok", "no-result", "error"} :
              [k EXCEPT !.answer = answer] \in Calls
BY DEF Calls

\* An aborted fetch is a fetch.
LEMMA FetchUpdates ==
  ASSUME NEW f \in Fetches
  PROVE  [f EXCEPT !.aborted = TRUE] \in Fetches
BY DEF Fetches

\* A call that was never made, has returned, or starts with the inputs of a
\* render. Return keeps nothing of a call but that it is over.
LEMMA NewCalls ==
  ASSUME NEW o \in Options
  PROVE  /\ NoCalculation \in Calls
         /\ [NoCalculation EXCEPT !.stage = "over"] \in Calls
         /\ \A place \in PlaceOf, options \in Options :
              [NoCalculation EXCEPT !.stage = "fetch", !.place = place,
                                    !.options = options] \in Calls
<1>1. (CHOOSE x \in Options : TRUE) \in Options
  OBVIOUS
<1> QED BY <1>1 DEF Calls, NoCalculation, PlaceOf

\* The same for the fetches.
LEMMA NewFetches ==
  /\ NoFetch \in Fetches
  /\ [NoFetch EXCEPT !.stage = "over"] \in Fetches
  /\ \A a \in Areas, ref \in Requests \cup {0}, m \in BOOLEAN :
       [stage |-> "fetch", area |-> a, ref |-> ref, matches |-> m,
        aborted |-> FALSE] \in Fetches
BY DEF Fetches, NoFetch

\* Aborting the controller at hand keeps the types.
LEMMA Aborts ==
  ASSUME TypeOK
  PROVE  /\ AbortFetch \in [Selections -> Fetches]
         /\ AbortStream \in [Requests -> Calls]
<1>1. AbortFetch \in [Selections -> Fetches]
  BY FetchUpdates DEF TypeOK, AbortFetch
<1>2. AbortStream \in [Requests -> Calls]
  BY CallUpdates DEF TypeOK, AbortStream
<1> QED BY <1>1, <1>2

DetailTypes ==
  /\ detailRequestId \in 0 .. MaxDetails
  /\ detailAbort \in 0 .. detailRequestId
  /\ details \in [Selections -> Fetches]
  /\ detailCache \subseteq Requests \X Areas

\* clearDetails() keeps the types of the refs, whether it is called or not.
LEMMA Forgets ==
  ASSUME TypeOK, NEW seen \in BOOLEAN, ForgetDetails \/ ForgetIf(seen)
  PROVE  DetailTypes'
<1>1. CASE ForgetDetails
  BY <1>1, Aborts, PlannerAssumption DEF ForgetDetails, TypeOK, DetailTypes
<1>2. CASE ForgetIf(seen)
  BY <1>1, <1>2 DEF ForgetIf, TypeOK, DetailTypes, detailVars
<1> QED BY <1>1, <1>2

\* A field that waits for something else waits for one of the four kinds.
LEMMA LookupsTyped ==
  ASSUME TypeOK, NEW p \in Participants
  PROVE  /\ lookup[p].seen \in BOOLEAN
         /\ \A op \in {"none", "effect", "search", "locate"} :
            Waits(p, op) => lookup' \in [Participants -> Lookups]
         /\ \A seen \in BOOLEAN :
            [lookup EXCEPT ![p] = [op |-> "locate", seen |-> seen]]
              \in [Participants -> Lookups]
<1>1. lookup \in [Participants -> Lookups] /\ lookup[p] \in Lookups
  BY DEF TypeOK
<1>2. lookup[p].seen \in BOOLEAN
  BY <1>1 DEF Lookups
<1>3. \A op \in {"none", "effect", "search", "locate"}, seen \in BOOLEAN :
        [op |-> op, seen |-> seen] \in Lookups
  BY DEF Lookups
<1>4. ASSUME NEW op \in {"none", "effect", "search", "locate"}, Waits(p, op)
      PROVE  lookup' \in [Participants -> Lookups]
  BY <1>1, <1>3, <1>4 DEF Waits
<1>5. ASSUME NEW seen \in BOOLEAN
      PROVE  [lookup EXCEPT ![p] = [op |-> "locate", seen |-> seen]]
               \in [Participants -> Lookups]
  BY <1>1, <1>3
<1> QED BY <1>2, <1>4, <1>5

\* The finally of calculate() keeps the types.
LEMMA Returns ==
  ASSUME TypeOK, NEW c \in Requests, Return(c)
  PROVE  /\ calculations' \in [Requests -> Calls]
         /\ requestRef' \in 0 .. MaxRequests
         /\ streamAbort' \in 0 .. requestRef'
         /\ diverged' \in BOOLEAN
<1>1. \E o \in Options : TRUE
  BY DEF TypeOK, Screens
<1>2. calculations' \in [Requests -> Calls]
  BY <1>1, NewCalls DEF TypeOK, Return
<1> QED BY <1>2 DEF TypeOK, Return

\* The page is typed when it is loaded.
LEMMA TypeInit == Init => TypeOK
<1> SUFFICES ASSUME Init PROVE TypeOK OBVIOUS
<1>1. PICK o \in Options :
        ui = [place |-> [p \in Participants |-> None], options |-> o,
              suggestions |-> [p \in Participants |-> FALSE],
              status |-> "idle", verdicts |-> {}, result |-> None,
              calculationRef |-> 0, selectedId |-> None, detail |-> None,
              detailLoading |-> FALSE, detailError |-> FALSE,
              detailExpired |-> FALSE]
  BY DEF Init
<1>2. ui \in Screens /\ shown \in Screens
  BY <1>1 DEF Init, Screens, Statuses, PlaceOf
<1>3. calculations \in [Requests -> Calls]
  BY NewCalls DEF Init
<1>4. details \in [Selections -> Fetches]
  BY NewFetches DEF Init
<1>5. lookup \in [Participants -> Lookups]
  BY DEF Init, Lookups
<1>6. typed \in [Participants -> BOOLEAN]
  BY DEF Init
<1>7. /\ requestRef \in 0 .. MaxRequests /\ streamAbort \in 0 .. requestRef
      /\ detailRequestId \in 0 .. MaxDetails
      /\ detailAbort \in 0 .. detailRequestId
  BY PlannerAssumption DEF Init
<1>8. /\ detailCache \subseteq Requests \X Areas
      /\ forgotten \subseteq Requests
      /\ flushing \in BOOLEAN /\ diverged \in BOOLEAN
  BY DEF Init
<1> QED BY <1>2, <1>3, <1>4, <1>5, <1>6, <1>7, <1>8 DEF TypeOK

\* The fields and the settings keep the types.
LEMMA TypeEntering ==
  ASSUME TypeOK, NEW p \in Participants,
         \/ Type(p) \/ Escape(p) \/ SearchAnswers(p) \/ Locate(p)
         \/ LocateFails(p)
         \/ \E place \in Places : Choose(p, place) \/ LocateSucceeds(p, place)
  PROVE  TypeOK'
<1>0. ui \in Screens /\ ShownSeen \in BOOLEAN
  BY DEF TypeOK, ShownSeen
<1> USE DEF UserEvent, Callback, Query, calculationVars, detailVars, fieldVars
<1>1. CASE Type(p) \/ Escape(p)
  <2>1. ui' \in Screens
    BY <1>0, <1>1, Updates DEF Type, Escape
  <2>2. lookup' \in [Participants -> Lookups]
    BY <1>1, LookupsTyped DEF Type, Escape
  <2> QED BY <1>1, <2>1, <2>2 DEF TypeOK, Type, Escape
<1>2. CASE Locate(p)
  <2>1. ui' \in Screens
    BY <1>0, <1>2, Updates DEF Locate
  <2>2. lookup' \in [Participants -> Lookups]
    BY <1>0, <1>2, LookupsTyped DEF Locate
  <2> QED BY <1>2, <2>1, <2>2 DEF TypeOK, Locate
<1>3. CASE SearchAnswers(p)
  <2>1. ui' \in Screens
    BY <1>0, <1>3, Updates DEF SearchAnswers
  <2>2. lookup' \in [Participants -> Lookups]
    BY <1>3, LookupsTyped DEF SearchAnswers
  <2> QED BY <1>3, <2>1, <2>2 DEF TypeOK, SearchAnswers
<1>4. CASE LocateFails(p)
  <2>1. lookup' \in [Participants -> Lookups]
    BY <1>4, LookupsTyped DEF LocateFails
  <2> QED BY <1>4, <2>1 DEF TypeOK, LocateFails
<1>5. ASSUME NEW place \in Places, Choose(p, place)
      PROVE  TypeOK'
  <2>1. ui' \in Screens
    BY <1>0, <1>5, Updates DEF Choose
  <2>2. lookup' \in [Participants -> Lookups] /\ DetailTypes'
    BY <1>0, <1>5, LookupsTyped, Forgets DEF Choose
  <2> QED BY <1>5, <2>1, <2>2 DEF Choose, TypeOK, DetailTypes, Disabled
<1>6. ASSUME NEW place \in Places, LocateSucceeds(p, place)
      PROVE  TypeOK'
  <2>1. ui' \in Screens
    BY <1>0, <1>6, LookupsTyped, Updates DEF LocateSucceeds
  <2>2. lookup' \in [Participants -> Lookups] /\ DetailTypes'
    BY <1>6, LookupsTyped, Forgets DEF LocateSucceeds
  <2> QED BY <1>6, <2>1, <2>2 DEF LocateSucceeds, TypeOK, DetailTypes
<1> QED BY <1>1, <1>2, <1>3, <1>4, <1>5, <1>6

\* submit() and cancelCalculation() keep the types.
LEMMA TypeCalculating ==
  ASSUME TypeOK,
         \/ SubmitIgnored \/ SubmitIncomplete \/ Submit \/ Cancel
         \/ \E o \in Options : SetOptions(o)
  PROVE  TypeOK'
<1> USE PlannerAssumption
        DEF UserEvent, CanSubmit, calculationVars, detailVars, fieldVars
<1>0. /\ ui \in Screens
      /\ shown.place \in PlaceOf /\ shown.options \in Options
  BY DEF TypeOK, Screens
<1>1. CASE SubmitIgnored
  BY <1>1 DEF SubmitIgnored, vars, TypeOK
<1>2. CASE SubmitIncomplete
  BY <1>0, <1>2, Updates DEF SubmitIncomplete, TypeOK, Statuses
<1>3. CASE Submit
  <2>0. WithoutDetails(ui) \in Screens
    BY <1>0, Updates
  <2>1. ui' \in Screens
    BY <2>0, <1>3 DEF Submit, Statuses, Screens
  <2>2. calculations' \in [Requests -> Calls]
    BY <1>0, <1>3, NewCalls, Aborts DEF Submit
  <2>3. DetailTypes'
    BY <1>3, Forgets DEF Submit
  <2> QED BY <1>3, <2>1, <2>2, <2>3 DEF Submit, TypeOK, DetailTypes, Inputs
<1>4. CASE Cancel
  <2>1. ui' \in Screens
    BY <1>0, <1>4 DEF Cancel, Statuses, Screens
  <2> QED BY <1>4, <2>1, Aborts DEF Cancel, TypeOK
<1>5. ASSUME NEW o \in Options, SetOptions(o)
      PROVE  TypeOK'
  <2>1. ShownSeen \in BOOLEAN
    BY DEF ShownSeen
  <2>2. ui' \in Screens
    BY <1>0, <1>5, <2>1, Updates DEF SetOptions
  <2>3. DetailTypes'
    BY <1>5, <2>1, Forgets DEF SetOptions
  <2> QED BY <1>5, <2>2, <2>3 DEF SetOptions, TypeOK, DetailTypes
<1> QED BY <1>1, <1>2, <1>3, <1>4, <1>5

\* What calculate() hears keeps the types.
LEMMA TypeHearing ==
  ASSUME TypeOK, NEW c \in Requests,
         \/ Responds(c) \/ HearRef(c) \/ Completes(c) \/ Fails(c)
         \/ \E a \in Areas : HearVerdict(c, a)
         \/ \E answer \in {"ok", "no-result", "error"} : HearAnswer(c, answer)
  PROVE  TypeOK'
<1> USE DEF Hearing, Callback, calculationVars, detailVars, fieldVars
<1>0. /\ ui \in Screens
      /\ calculations[c] \in Calls /\ calculations \in [Requests -> Calls]
  BY DEF TypeOK
<1>1. CASE Responds(c)
  <2>1. CASE c # requestRef
    BY <1>1, <2>1, Returns DEF Responds, TypeOK
  <2>2. CASE c = requestRef
    <3>1. calculations' \in [Requests -> Calls]
      BY <1>0, <1>1, <2>2, CallUpdates DEF Responds
    <3> QED BY <1>1, <2>2, <3>1 DEF Responds, TypeOK
  <2> QED BY <2>1, <2>2
<1>2. CASE HearRef(c)
  <2>1. calculations' \in [Requests -> Calls]
    BY <1>0, <1>2, CallUpdates DEF HearRef
  <2> QED BY <1>2, <2>1 DEF HearRef, TypeOK
<1>3. ASSUME NEW answer \in {"ok", "no-result", "error"}, HearAnswer(c, answer)
      PROVE  TypeOK'
  <2>1. calculations' \in [Requests -> Calls]
    BY <1>0, <1>3, CallUpdates DEF HearAnswer
  <2> QED BY <1>3, <2>1 DEF HearAnswer, TypeOK
<1>4. ASSUME NEW a \in Areas, HearVerdict(c, a)
      PROVE  TypeOK'
  <2>1. ui' \in Screens
    BY <1>0, <1>4 DEF HearVerdict, Screens
  <2> QED BY <1>4, <2>1 DEF HearVerdict, TypeOK
<1>5. CASE Completes(c)
  <2>1. [of |-> c, place |-> calculations[c].place,
         options |-> calculations[c].options,
         status |-> calculations[c].answer] \in Results
    BY <1>0, <1>5 DEF Completes, Results, Calls
  <2>2. (IF calculations[c].ref THEN c ELSE 0) \in Requests \cup {0}
    OBVIOUS
  <2>3. ui' \in Screens
    BY <1>0, <1>5, <2>1, <2>2 DEF Completes, Screens, Statuses
  <2> QED BY <1>5, <2>3, Returns DEF Completes, TypeOK
<1>6. CASE Fails(c)
  <2>1. WithoutDetails(ui) \in Screens
    BY <1>0, Updates
  <2>2. ui' \in Screens
    <3>1. [WithoutDetails(ui) EXCEPT !.verdicts = {}, !.status = "error"]
            \in Screens
      BY <2>1 DEF Screens, Statuses
    <3> QED BY <1>0, <1>6, <3>1 DEF Fails, Caught
  <2>3. DetailTypes'
    BY <1>6, Forgets DEF Fails, Caught, TypeOK, DetailTypes
  <2>4. Return(c)
    BY <1>6 DEF Fails
  <2>5. /\ calculations' \in [Requests -> Calls]
        /\ requestRef' \in 0 .. MaxRequests
        /\ streamAbort' \in 0 .. requestRef'
        /\ diverged' \in BOOLEAN
    BY <2>4, Returns
  <2>6. UNCHANGED <<shown, typed, lookup, forgotten>> /\ flushing' = FALSE
    BY <1>6 DEF Fails
  <2> QED BY <2>2, <2>3, <2>5, <2>6 DEF TypeOK, DetailTypes
<1> QED BY <1>1, <1>2, <1>3, <1>4, <1>5, <1>6

\* selectStationArea() keeps the types.
LEMMA TypeSelecting ==
  ASSUME TypeOK, NEW a \in Areas, SelectShown(a) \/ SelectFetch(a)
  PROVE  TypeOK'
<1> USE PlannerAssumption
        DEF UserEvent, Callback, calculationVars, detailVars, fieldVars
<1>0. /\ ui \in Screens /\ shown \in Screens
      /\ detailRequestId \in Nat
  BY DEF TypeOK
<1>1. Selected(a) \in Screens
  BY <1>0 DEF Selected, Screens
<1>2. CASE SelectShown(a)
  <2>1. CASE shown.result.status = "no-result" \/ shown.detailExpired
    BY <1>1, <1>2, <2>1, Aborts DEF SelectShown, TypeOK
  <2>2. CASE ~(shown.result.status = "no-result" \/ shown.detailExpired)
    <3>1. CASE shown.calculationRef = 0
      <4>1. ui' \in Screens
        BY <1>1, <1>2, <2>2, <3>1 DEF SelectShown, Screens
      <4> QED BY <1>2, <4>1, Aborts DEF SelectShown, TypeOK
    <3>2. CASE shown.calculationRef # 0
      <4>1. shown.calculationRef \in Requests
        BY <1>0, <3>2 DEF Screens
      <4>2. ui' \in Screens
        BY <1>1, <1>2, <2>2, <3>2, <4>1 DEF SelectShown, Screens
      <4> QED BY <1>2, <4>2, Aborts DEF SelectShown, TypeOK
    <3> QED BY <3>1, <3>2
  <2> QED BY <2>1, <2>2
<1>3. CASE SelectFetch(a)
  <2>1. ui' \in Screens
    BY <1>1, <1>3 DEF SelectFetch, Screens
  <2>2. shown.calculationRef \in Requests \cup {0} /\ BodyMatches \in BOOLEAN
    BY <1>0 DEF Screens, BodyMatches
  <2>3. details' \in [Selections -> Fetches]
    BY <1>3, <2>2, Aborts, NewFetches DEF SelectFetch
  <2> QED BY <1>0, <1>3, <2>1, <2>3 DEF SelectFetch, TypeOK
<1> QED BY <1>2, <1>3

\* The answers to selectStationArea() keep the types; a detail is of an area and
\* a calculation because its fetch was.
LEMMA TypeDetails ==
  ASSUME TypeOK, FetchesAreWhole, NEW d \in Selections,
         DetailArrives(d) \/ DetailExpires(d) \/ DetailFails(d)
  PROVE  TypeOK'
<1> USE PlannerAssumption DEF Callback, calculationVars, detailVars, fieldVars
<1>0. /\ ui \in Screens
      /\ details[d] \in Fetches /\ details \in [Selections -> Fetches]
  BY DEF TypeOK
<1>1. ASSUME NEW s \in Screens PROVE Settled(s, d) \in Screens
  BY DEF Settled, Screens
<1>2. CASE DetailArrives(d)
  <2>1. details' \in [Selections -> Fetches]
    BY <1>0, <1>2, NewFetches DEF DetailArrives, Answered
  <2>2. CASE d # detailRequestId
    <3>1. UNCHANGED <<ui, detailCache>>
      BY <1>2, <2>2 DEF DetailArrives
    <3> QED BY <1>2, <2>1, <3>1 DEF DetailArrives, Answered, TypeOK
  <2>3. CASE d = detailRequestId
    <3>1. details[d].area \in Areas /\ details[d].ref \in Requests
      BY <1>2 DEF DetailArrives, Answered, FetchesAreWhole
    <3>2. [ui EXCEPT !.detail = [area |-> details[d].area,
                                 ref |-> details[d].ref]] \in Screens
      BY <1>0, <3>1 DEF Screens
    <3>3. ui' \in Screens
      BY <1>1, <1>2, <2>3, <3>2 DEF DetailArrives
    <3>4. detailCache' \subseteq Requests \X Areas
      BY <1>2, <2>3, <3>1 DEF DetailArrives, TypeOK
    <3> QED BY <1>2, <2>1, <3>3, <3>4 DEF DetailArrives, Answered, TypeOK
  <2> QED BY <2>2, <2>3
<1>3. CASE DetailExpires(d)
  <2>1. details' \in [Selections -> Fetches]
    BY <1>0, <1>3, NewFetches DEF DetailExpires, Answered
  <2>2. [ui EXCEPT !.detailExpired = TRUE] \in Screens
    BY <1>0 DEF Screens
  <2> QED BY <1>1, <1>3, <2>1, <2>2 DEF DetailExpires, Answered, TypeOK
<1>4. CASE DetailFails(d)
  <2>1. details' \in [Selections -> Fetches]
    BY <1>0, <1>4, NewFetches DEF DetailFails
  <2>2. [ui EXCEPT !.detailError = TRUE] \in Screens
    BY <1>0 DEF Screens
  <2> QED BY <1>1, <1>4, <2>1, <2>2 DEF DetailFails, TypeOK
<1> QED BY <1>2, <1>3, <1>4

\* The render and the server keep the types.
LEMMA TypeReact ==
  ASSUME TypeOK, Render \/ \E ref \in Requests : ServerForgets(ref)
  PROVE  TypeOK'
<1>1. CASE Render
  <2>1. \A p \in Participants :
          [lookup[p] EXCEPT !.op = EffectOf(p)] \in Lookups
    BY DEF TypeOK, Lookups, EffectOf
  <2> QED BY <1>1, <2>1 DEF Render, TypeOK, calculationVars, detailVars
<1>2. ASSUME NEW ref \in Requests, ServerForgets(ref)
      PROVE  TypeOK'
  BY <1>2 DEF ServerForgets, TypeOK, calculationVars, detailVars, fieldVars
<1> QED BY <1>1, <1>2

\* Every step keeps the types.
LEMMA TypeStep == TypeOK /\ FetchesAreWhole /\ [Next]_vars => TypeOK'
<1> SUFFICES ASSUME TypeOK, FetchesAreWhole, [Next]_vars
             PROVE  TypeOK'
  OBVIOUS
<1>1. CASE UNCHANGED vars
  BY <1>1 DEF TypeOK, vars, calculationVars, detailVars, fieldVars
<1>2. CASE Next
  BY <1>2, TypeEntering, TypeCalculating, TypeHearing, TypeSelecting,
     TypeDetails, TypeReact
     DEF Next
<1> QED BY <1>1, <1>2

-------------------------------------------------------------------------------
(* The steps preserve it.                                                  *)

\* Aborting the controller at hand leaves no fetch awaited, and changes nothing
\* else of a fetch.
LEMMA FetchesAborted ==
  ASSUME IInv, NEW d \in Selections
  PROVE  /\ AbortFetch[d].stage = details[d].stage
         /\ AbortFetch[d].area = details[d].area
         /\ AbortFetch[d].ref = details[d].ref
         /\ AbortFetch[d].stage = "fetch" => AbortFetch[d].aborted
<1>1. details[d] \in Fetches
  BY DEF IInv, TypeOK
<1> QED BY <1>1 DEF IInv, LatestSelection, Awaited, AbortFetch, Fetches

\* After clearDetails() no fetch is awaited and nothing is cached.
LEMMA DetailsForgotten ==
  ASSUME IInv, ForgetDetails
  PROVE  /\ \A d \in Selections : /\ ~Awaited(d)'
                                  /\ details'[d].stage = details[d].stage
                                  /\ details'[d].area = details[d].area
                                  /\ details'[d].ref = details[d].ref
         /\ detailRequestId' = detailRequestId
         /\ detailAbort' = 0
         /\ detailCache' = {}
BY FetchesAborted DEF ForgetDetails, Awaited

\* A screen that differs from the latest in starting points, settings and
\* suggestions only.
SameButInputs(screen) ==
  /\ screen \in Screens
  /\ screen.status = ui.status
  /\ screen.verdicts = ui.verdicts
  /\ screen.result = ui.result
  /\ screen.calculationRef = ui.calculationRef
  /\ screen.selectedId = ui.selectedId
  /\ screen.detail = ui.detail
  /\ screen.detailLoading = ui.detailLoading
  /\ screen.detailExpired = ui.detailExpired

\* changed() after a change of an input, from a closure that saw a result or did
\* not: everything but the inputs is as before, or is cleared with what was
\* under way.
LEMMA ChangeKeeps ==
  ASSUME IInv, NEW screen, SameButInputs(screen), NEW seen \in BOOLEAN,
         ui' = Changed(screen, seen), ui' \in Screens, ForgetIf(seen),
         ~flushing,
         UNCHANGED <<shown, requestRef, streamAbort, calculations, forgotten>>
  PROVE  /\ FetchesAreWhole' /\ LatestCalculation' /\ NoResultYet'
         /\ SameResult' /\ DetailsOfResult' /\ LatestSelection'
<1> USE DEF Listened
<1>1. CASE ~seen
  <2>1. UNCHANGED detailVars /\ ui' = screen
    BY <1>1 DEF ForgetIf, Changed
  <2> QED BY <2>1
             DEF IInv, SameButInputs, detailVars, FetchesAreWhole,
                 LatestCalculation, NoResultYet, SameResult, DetailsOfResult,
                 OfResult, LatestSelection, Awaited
<1>2. CASE seen
  <2>1. ForgetDetails
    BY <1>2 DEF ForgetIf
  <2>2. /\ ui'.status = "idle" /\ ui'.verdicts = {} /\ ui'.result = None
        /\ ui'.detail = None /\ ui'.detailLoading = FALSE
        /\ ui'.detailExpired = FALSE
    BY <1>2 DEF Changed, WithoutDetails, SameButInputs, Screens
  <2>3. FetchesAreWhole' /\ LatestCalculation' /\ NoResultYet' /\ SameResult'
    BY <2>1, <2>2, DetailsForgotten
       DEF IInv, FetchesAreWhole, LatestCalculation, NoResultYet, SameResult
  <2>4. DetailsOfResult'
    BY <2>1, <2>2, DetailsForgotten DEF IInv, DetailsOfResult, OfResult
  <2>5. LatestSelection'
    BY <2>1, <2>2, DetailsForgotten DEF IInv, TypeOK, LatestSelection
  <2> QED BY <2>3, <2>4, <2>5
<1> QED BY <1>1, <1>2

\* Typing, escaping, a search answer and a failed location touch neither an
\* input nor a result.
LEMMA FieldKeeps ==
  ASSUME IInv, TypeOK', NEW p \in Participants,
         Type(p) \/ Escape(p) \/ SearchAnswers(p) \/ LocateFails(p)
  PROVE  IInv'
<1> USE DEF calculationVars, detailVars, Listened, Awaited
<1>1. /\ UNCHANGED <<shown, calculationVars, detailVars, forgotten>>
      /\ ~flushing
  BY DEF Type, Escape, SearchAnswers, LocateFails, UserEvent, Callback
<1>2. /\ ui'.place = ui.place /\ ui'.options = ui.options
      /\ ui'.status = ui.status /\ ui'.verdicts = ui.verdicts
      /\ ui'.result = ui.result /\ ui'.calculationRef = ui.calculationRef
      /\ ui'.selectedId = ui.selectedId /\ ui'.detail = ui.detail
      /\ ui'.detailLoading = ui.detailLoading
      /\ ui'.detailExpired = ui.detailExpired
  BY DEF Type, Escape, SearchAnswers, LocateFails, IInv, TypeOK, Screens
<1>3. \A q \in Participants : Held(q)' => Held(q) /\ lookup'[q] = lookup[q]
  <2>1. \E op \in {"none", "effect"} : Waits(p, op)
    BY DEF Type, Escape, SearchAnswers, LocateFails
  <2> QED BY <2>1 DEF Waits, Held, IInv, TypeOK
<1>4. FetchesAreWhole' /\ LatestCalculation' /\ NoResultYet'
  BY <1>1, <1>2 DEF IInv, FetchesAreWhole, LatestCalculation, NoResultYet
<1>5. SameResult' /\ DetailsOfResult' /\ LatestSelection'
  BY <1>1, <1>2
     DEF IInv, SameResult, DetailsOfResult, OfResult, LatestSelection
<1>6. InputsKept'
  BY <1>1, <1>2, <1>3 DEF IInv, InputsKept, Inputs, Disabled
<1> QED BY <1>4, <1>5, <1>6 DEF IInv

\* A location that is asked for beside a result remembers that it was.
LEMMA LocateKeeps ==
  ASSUME IInv, TypeOK', NEW p \in Participants, Locate(p)
  PROVE  IInv'
<1> USE DEF UserEvent, calculationVars, detailVars, fieldVars, Listened,
            Awaited
<1>1. /\ ui \in Screens
      /\ ui' = [ui EXCEPT !.suggestions[p] = FALSE]
  BY DEF IInv, TypeOK, Locate
<1>2. /\ FetchesAreWhole' /\ LatestCalculation' /\ NoResultYet'
      /\ SameResult' /\ DetailsOfResult' /\ LatestSelection'
  BY <1>1
     DEF Locate, IInv, Screens, FetchesAreWhole, LatestCalculation,
         NoResultYet, SameResult, DetailsOfResult, OfResult, LatestSelection
<1>3. /\ \A q \in Participants : Held(q)' <=> q = p \/ Held(q)
      /\ lookup'[p].seen = ShownSeen
      /\ \A q \in Participants : q # p => lookup'[q] = lookup[q]
  BY DEF Locate, Held, IInv, TypeOK
<1>4. /\ ~Disabled(shown) /\ ~flushing
      /\ UNCHANGED <<shown, diverged, calculations>>
      /\ ui'.result = ui.result /\ Inputs(ui)' = Inputs(ui)
  BY <1>1 DEF Locate, Screens, Inputs
<1>5. ASSUME ui'.result # None, ~diverged'
      PROVE  /\ Inputs(ui.result)' = Inputs(ui)'
             /\ shown'.result # None
             /\ \A q \in Participants : Held(q)' => lookup'[q].seen
  <2>1. /\ shown.result # None /\ Inputs(ui.result) = Inputs(ui)
        /\ \A q \in Participants : Held(q) => lookup[q].seen
    BY <1>4, <1>5 DEF IInv, InputsKept
  <2>2. ShownSeen
    BY <2>1 DEF ShownSeen
  <2> QED BY <1>3, <1>4, <2>1, <2>2 DEF Inputs
<1>6. InputsKept'
  BY <1>4, <1>5 DEF IInv, InputsKept
<1> QED BY <1>2, <1>6 DEF IInv

\* A chosen suggestion clears the result its closure saw; chosen while
\* calculating it parts the inputs from the calculation, and that is recorded.
LEMMA ChooseKeeps ==
  ASSUME IInv, TypeOK', NEW p \in Participants, NEW place \in Places,
         Choose(p, place)
  PROVE  IInv'
<1> DEFINE base == [Placed(ui, p, place) EXCEPT !.suggestions[p] = FALSE]
<1>1. SameButInputs(base)
  <2>1. ui \in Screens
    BY DEF IInv, TypeOK
  <2>2. Placed(ui, p, place) \in Screens
    BY <2>1, Updates
  <2>3. base \in Screens
    BY <2>2, Updates
  <2> QED BY <2>1, <2>2, <2>3 DEF SameButInputs, Placed, Screens
<1>2. /\ FetchesAreWhole' /\ LatestCalculation' /\ NoResultYet'
      /\ SameResult' /\ DetailsOfResult' /\ LatestSelection'
  BY <1>1, ChangeKeeps DEF Choose, UserEvent, TypeOK, ShownSeen
<1>3. ui \in Screens
  BY DEF IInv, TypeOK
<1>4. CASE ~ShownSeen
  <2>1. ui'.result = ui.result
    BY <1>3, <1>4, <1>1 DEF Choose, Changed, SameButInputs
  <2> QED BY <1>2, <1>4, <2>1
             DEF Choose, UserEvent, ShownSeen, Disabled, IInv, InputsKept,
                 Listened
<1>5. CASE ShownSeen
  <2>1. ui'.result = None
    BY <1>5, <1>1 DEF Choose, Changed, WithoutDetails, SameButInputs, Screens
  <2> QED BY <1>2, <1>5, <2>1
             DEF Choose, UserEvent, Disabled, IInv, InputsKept, Listened
<1> QED BY <1>4, <1>5

\* A location that arrives clears the result: it was pending when nothing was
\* calculated, and the closure saw the result if there is one.
LEMMA LocateSucceedsKeeps ==
  ASSUME IInv, TypeOK', NEW p \in Participants, NEW place \in Places,
         LocateSucceeds(p, place)
  PROVE  IInv'
<1> DEFINE base == Placed(ui, p, place)
<1>1. SameButInputs(base)
  <2>1. ui \in Screens
    BY DEF IInv, TypeOK
  <2>2. base \in Screens
    BY <2>1, Updates
  <2> QED BY <2>1, <2>2 DEF SameButInputs, Placed, Screens
<1>2. /\ FetchesAreWhole' /\ LatestCalculation' /\ NoResultYet'
      /\ SameResult' /\ DetailsOfResult' /\ LatestSelection'
  BY <1>1, ChangeKeeps, LookupsTyped
     DEF IInv, LocateSucceeds, Callback, TypeOK, calculationVars
<1>3. Held(p)
  BY DEF LocateSucceeds, Held
<1>4. ui'.result # None /\ ~diverged' => FALSE
  <2>1. CASE lookup[p].seen
    BY <1>1, <2>1
       DEF LocateSucceeds, Changed, WithoutDetails, SameButInputs, Screens
  <2>2. CASE ~lookup[p].seen
    BY <1>1, <1>3, <2>2
       DEF LocateSucceeds, Changed, SameButInputs, IInv, InputsKept,
           calculationVars
  <2> QED BY <2>1, <2>2
<1> QED BY <1>2, <1>3, <1>4
           DEF LocateSucceeds, IInv, InputsKept, Listened, calculationVars

\* A change of a setting clears the result, which is shown because the control
\* was enabled.
LEMMA SetOptionsKeeps ==
  ASSUME IInv, TypeOK', NEW o \in Options, SetOptions(o)
  PROVE  IInv'
<1> DEFINE base == [ui EXCEPT !.options = o]
<1>1. SameButInputs(base)
  <2>1. ui \in Screens
    BY DEF IInv, TypeOK
  <2>2. base \in Screens
    BY <2>1, Updates
  <2> QED BY <2>1, <2>2 DEF SameButInputs, Screens
<1>2. /\ FetchesAreWhole' /\ LatestCalculation' /\ NoResultYet'
      /\ SameResult' /\ DetailsOfResult' /\ LatestSelection'
  BY <1>1, ChangeKeeps
     DEF SetOptions, UserEvent, TypeOK, ShownSeen, calculationVars
<1>3. ui \in Screens
  BY DEF IInv, TypeOK
<1>4. CASE ~ShownSeen
  <2>1. ui'.result = ui.result
    BY <1>3, <1>4, <1>1 DEF SetOptions, Changed, SameButInputs
  <2> QED BY <1>2, <1>4, <2>1
             DEF SetOptions, UserEvent, ShownSeen, Disabled, IInv, InputsKept,
                 Listened, calculationVars
<1>5. CASE ShownSeen
  <2>1. ui'.result = None
    BY <1>5, <1>1
       DEF SetOptions, Changed, WithoutDetails, SameButInputs, Screens
  <2> QED BY <1>2, <1>5, <2>1
             DEF SetOptions, UserEvent, Disabled, IInv, InputsKept, Listened,
                 calculationVars
<1> QED BY <1>4, <1>5

\* A submit aborts what is under way and starts from what the user sees.
LEMMA SubmitKeeps ==
  ASSUME IInv, TypeOK', Submit
  PROVE  IInv'
<1> USE PlannerAssumption DEF Requests
<1>1. /\ requestRef' \in Requests /\ requestRef' = requestRef + 1
      /\ streamAbort' = requestRef'
      /\ requestRef \in Nat
  BY DEF Submit, IInv, TypeOK
<1>2. /\ Listened(requestRef)'
      /\ calculations'[requestRef'].place = shown.place
      /\ calculations'[requestRef'].options = shown.options
      /\ calculations'[requestRef'].stage = "fetch"
  BY <1>1, Aborts DEF Submit, Listened, NoCalculation, IInv
<1>3. ASSUME NEW c \in Requests, c # requestRef'
      PROVE  /\ calculations'[c].stage = calculations[c].stage
             /\ ~Listened(c)'
  <2>1. calculations'[c] = AbortStream[c]
    BY <1>1, <1>3, Aborts DEF Submit, IInv
  <2>2. calculations[c] \in Calls
    BY DEF IInv, TypeOK
  <2> QED BY <2>1, <2>2
             DEF AbortStream, Calls, IInv, LatestCalculation, Listened
<1>4. /\ ui'.status = "loading" /\ ui'.verdicts = {} /\ ui'.result = None
      /\ ui'.detail = None /\ ui'.detailLoading = FALSE
      /\ ui'.detailExpired = FALSE /\ Inputs(ui)' = Inputs(ui)
  BY DEF Submit, WithoutDetails, IInv, TypeOK, Screens, Inputs
<1>5. ForgetDetails /\ shown' = shown /\ flushing'
  BY DEF Submit, CanSubmit
<1>6. FetchesAreWhole' /\ SameResult' /\ DetailsOfResult'
  BY <1>4, <1>5, DetailsForgotten
     DEF IInv, FetchesAreWhole, SameResult, DetailsOfResult, OfResult
<1>7. LatestCalculation'
  BY <1>1, <1>2, <1>3, <1>4 DEF IInv, LatestCalculation
<1>8. NoResultYet'
  BY <1>4, <1>5, DetailsForgotten DEF NoResultYet
<1>9. LatestSelection'
  BY <1>4, <1>5, DetailsForgotten DEF IInv, TypeOK, LatestSelection
<1>10. InputsKept'
  BY <1>2, <1>3, <1>4, <1>5
     DEF Submit, CanSubmit, fieldVars, Inputs, InputsKept, Held, Listened
<1> QED BY <1>6, <1>7, <1>8, <1>9, <1>10 DEF IInv

\* A calculation that fails clears the page only if it is the current one and
\* was not aborted.
LEMMA FailsKeeps ==
  ASSUME IInv, TypeOK', NEW c \in Requests, Fails(c)
  PROVE  IInv'
<1> USE DEF Listened, Callback
<1>1. /\ ui \in Screens /\ calculations \in [Requests -> Calls]
      /\ requestRef' = requestRef /\ shown' = shown /\ flushing' = FALSE
      /\ ~flushing /\ UNCHANGED <<lookup, forgotten, diverged>>
      /\ calculations[c].stage # "unused" /\ calculations'[c].stage = "over"
      /\ \A k \in Requests : k # c => calculations'[k] = calculations[k]
      /\ streamAbort' = IF streamAbort = c THEN 0 ELSE streamAbort
  BY DEF Fails, Return, IInv, TypeOK, fieldVars, NoCalculation, Calls
<1>2. CASE c = requestRef /\ ~calculations[c].aborted
  <2>1. ForgetDetails
    BY <1>2 DEF Fails, Caught
  <2>2. /\ ui'.status = "error" /\ ui'.verdicts = {} /\ ui'.result = None
        /\ ui'.detail = None /\ ui'.detailLoading = FALSE
        /\ ui'.detailExpired = FALSE
    BY <1>1, <1>2 DEF Fails, Caught, WithoutDetails, Screens, IInv, NoResultYet
  <2>3. FetchesAreWhole' /\ SameResult' /\ DetailsOfResult' /\ NoResultYet'
    BY <1>1, <2>1, <2>2, DetailsForgotten
       DEF IInv, FetchesAreWhole, SameResult, DetailsOfResult, OfResult,
           NoResultYet
  <2>4. LatestCalculation'
    BY <1>1, <1>2, <2>2 DEF IInv, TypeOK, LatestCalculation
  <2>5. LatestSelection'
    BY <2>1, <2>2, DetailsForgotten DEF IInv, TypeOK, LatestSelection
  <2>6. InputsKept'
    BY <1>1, <1>2, <2>2 DEF IInv, InputsKept, LatestCalculation
  <2> QED BY <2>3, <2>4, <2>5, <2>6 DEF IInv
<1>3. CASE ~(c = requestRef /\ ~calculations[c].aborted)
  <2>1. UNCHANGED <<ui, detailVars>>
    BY <1>3 DEF Fails, Caught
  <2>2. FetchesAreWhole' /\ SameResult' /\ DetailsOfResult' /\ LatestSelection'
    BY <1>1, <2>1
       DEF IInv, FetchesAreWhole, SameResult, DetailsOfResult, OfResult,
           LatestSelection, Awaited, detailVars
  <2>3. LatestCalculation' /\ NoResultYet'
    BY <1>1, <1>3, <2>1
       DEF IInv, TypeOK, LatestCalculation, NoResultYet, detailVars
  <2>4. InputsKept'
    BY <1>1, <1>3, <2>1 DEF IInv, InputsKept, Held
  <2> QED BY <2>2, <2>3, <2>4 DEF IInv
<1> QED BY <1>2, <1>3

\* A selection that needs no request shows the detail of the page's calculation.
LEMMA SelectShownKeeps ==
  ASSUME IInv, TypeOK', NEW a \in Areas, SelectShown(a)
  PROVE  IInv'
<1> USE PlannerAssumption DEF UserEvent, calculationVars, detailVars, fieldVars
<1>1. /\ \A d \in Selections : /\ ~Awaited(d)'
                               /\ details'[d].stage = details[d].stage
                               /\ details'[d].area = details[d].area
                               /\ details'[d].ref = details[d].ref
      /\ detailRequestId' = detailRequestId + 1 /\ detailRequestId \in Nat
      /\ detailAbort' = 0
      /\ detailCache' = detailCache
      /\ shown' = shown /\ forgotten' = forgotten
  BY FetchesAborted DEF SelectShown, Awaited, IInv, TypeOK
<1>2. /\ ui'.status = ui.status /\ ui'.verdicts = ui.verdicts
      /\ ui'.result = ui.result /\ ui'.calculationRef = ui.calculationRef
      /\ ui'.place = ui.place /\ ui'.options = ui.options
      /\ ui'.detailLoading = FALSE /\ ui'.detailExpired = ui.detailExpired
      /\ ui'.detail # None => /\ ui'.detail.area = ui'.selectedId
                              /\ ui'.detail.ref = shown.calculationRef
                              /\ shown.calculationRef # 0
                              /\ <<shown.calculationRef, a>> \in detailCache
  <2>1. ui \in Screens
    BY DEF IInv, TypeOK
  <2>2. CASE shown.result.status = "no-result" \/ shown.detailExpired
    BY <2>1, <2>2 DEF SelectShown, Selected, Screens
  <2>3. CASE ~(shown.result.status = "no-result" \/ shown.detailExpired)
    <3>1. CASE shown.calculationRef = 0
      BY <2>1, <2>3, <3>1 DEF SelectShown, Selected, Screens
    <3>2. CASE shown.calculationRef # 0
      <4>1. /\ shown \in Screens
            /\ shown.result # None => shown.result \in Results
        BY DEF IInv, TypeOK, Screens
      <4>2. shown.result.status = "ok"
        BY <2>3, <4>1 DEF SelectShown, Results
      <4>3. Cached(a)
        BY <2>3, <3>2, <4>2 DEF SelectShown, NeedsFetch
      <4> QED BY <2>1, <2>3, <3>2, <4>3
                 DEF SelectShown, Selected, Screens, Cached
    <3> QED BY <3>1, <3>2
  <2> QED BY <2>2, <2>3
<1>3. \A c \in Requests : ~Listened(c)
  BY DEF SelectShown, IInv, NoResultYet
<1>4. FetchesAreWhole' /\ LatestCalculation' /\ NoResultYet' /\ SameResult'
  BY <1>1, <1>2, <1>3
     DEF SelectShown, IInv, FetchesAreWhole, LatestCalculation, NoResultYet,
         SameResult, Listened
<1>5. DetailsOfResult'
  BY <1>1, <1>2 DEF SelectShown, IInv, SameResult, DetailsOfResult, OfResult
<1>6. LatestSelection'
  BY <1>1, <1>2 DEF IInv, LatestSelection, Selections
<1>7. InputsKept'
  BY <1>2, <1>3
     DEF SelectShown, IInv, InputsKept, Listened, Held, Inputs, Disabled
<1> QED BY <1>4, <1>5, <1>6, <1>7 DEF IInv

\* A selection that needs a request aborts the fetch before it.
LEMMA SelectFetchKeeps ==
  ASSUME IInv, TypeOK', NEW a \in Areas, SelectFetch(a)
  PROVE  IInv'
<1> USE PlannerAssumption
        DEF UserEvent, calculationVars, detailVars, fieldVars, Selections
<1>1. /\ detailRequestId' = detailRequestId + 1 /\ detailRequestId \in Nat
      /\ detailRequestId' \in Selections
      /\ detailAbort' = detailRequestId' /\ detailCache' = detailCache
      /\ shown' = shown /\ forgotten' = forgotten
  BY DEF SelectFetch, IInv, TypeOK
<1>2. /\ details'[detailRequestId'].stage = "fetch"
      /\ details'[detailRequestId'].area = a
      /\ details'[detailRequestId'].ref = shown.calculationRef
      /\ ~details'[detailRequestId'].aborted
  BY <1>1, Aborts DEF SelectFetch, IInv
<1>3. ASSUME NEW d \in Selections, d # detailRequestId'
      PROVE  /\ ~Awaited(d)'
             /\ details'[d].stage = details[d].stage
             /\ details'[d].area = details[d].area
             /\ details'[d].ref = details[d].ref
  <2>1. details'[d] = AbortFetch[d]
    BY <1>1, <1>3, Aborts DEF SelectFetch, IInv
  <2> QED BY <2>1, FetchesAborted DEF Awaited
<1>4. /\ ui'.status = ui.status /\ ui'.verdicts = ui.verdicts
      /\ ui'.result = ui.result /\ ui'.calculationRef = ui.calculationRef
      /\ ui'.place = ui.place /\ ui'.options = ui.options
      /\ ui'.detailLoading = TRUE /\ ui'.detailExpired = ui.detailExpired
      /\ ui'.detail = None /\ ui'.selectedId = a
  BY DEF SelectFetch, Selected, IInv, TypeOK, Screens
<1>5. \A c \in Requests : ~Listened(c)
  BY DEF SelectFetch, IInv, NoResultYet
<1>6. shown.result # None /\ shown.calculationRef \in Requests
  BY DEF SelectFetch, NeedsFetch, IInv, TypeOK, Screens
<1>7. FetchesAreWhole'
  BY <1>1, <1>2, <1>3, <1>6 DEF IInv, FetchesAreWhole
<1>8. LatestCalculation' /\ NoResultYet' /\ SameResult'
  BY <1>1, <1>4, <1>5
     DEF SelectFetch, IInv, LatestCalculation, NoResultYet, SameResult,
         Listened
<1>9. DetailsOfResult'
  BY <1>1, <1>2, <1>3, <1>4, <1>6
     DEF IInv, SameResult, DetailsOfResult, OfResult
<1>10. LatestSelection'
  BY <1>1, <1>2, <1>3, <1>4, <1>6
     DEF IInv, LatestSelection, DetailsOfResult, OfResult, Awaited, Requests
<1>11. InputsKept'
  BY <1>4, <1>5
     DEF SelectFetch, IInv, InputsKept, Listened, Held, Inputs, Disabled
<1> QED BY <1>7, <1>8, <1>9, <1>10, <1>11 DEF IInv

\* Details that arrive are those of the last selection and of the page's
\* calculation.
LEMMA DetailArrivesKeeps ==
  ASSUME IInv, TypeOK', NEW d \in Selections, DetailArrives(d)
  PROVE  IInv'
<1> USE DEF Callback, calculationVars, detailVars, fieldVars
<1>1. /\ d = detailRequestId /\ d = detailAbort
      /\ ui.detail = None /\ details[d].area = ui.selectedId
      /\ details[d].ref \in Requests /\ details[d].ref \notin forgotten
      /\ ~ui.detailExpired
      /\ Awaited(d)
  BY DEF DetailArrives, Answered, Awaited, IInv, LatestSelection,
         FetchesAreWhole
<1>2. /\ details'[d].stage = "over"
      /\ \A k \in Selections : k # d => details'[k] = details[k]
      /\ shown' = shown /\ forgotten' = forgotten /\ flushing' = FALSE
      /\ ~flushing
  BY DEF DetailArrives, Answered, NoFetch, IInv, TypeOK
<1>3. /\ ui'.status = ui.status /\ ui'.verdicts = ui.verdicts
      /\ ui'.result = ui.result /\ ui'.calculationRef = ui.calculationRef
      /\ ui'.place = ui.place /\ ui'.options = ui.options
      /\ ui'.detailLoading = FALSE /\ ui'.detailExpired = ui.detailExpired
      /\ ui'.selectedId = ui.selectedId
      /\ ui'.detail = [area |-> details[d].area, ref |-> details[d].ref]
  <2>1. ui \in Screens
    BY DEF IInv, TypeOK
  <2>2. ui' = [[ui EXCEPT !.detail = [area |-> details[d].area,
                                      ref |-> details[d].ref]]
                EXCEPT !.detailLoading = FALSE]
    BY <1>1 DEF DetailArrives, Settled
  <2> QED BY <2>1, <2>2 DEF Screens
<1>4. \A c \in Requests : ~Listened(c)
  BY <1>1 DEF IInv, NoResultYet, Selections
<1>5. /\ \A k \in Selections : ~Awaited(k)'
      /\ detailRequestId' = detailRequestId /\ detailAbort' = detailAbort
  BY <1>1, <1>2 DEF DetailArrives, IInv, LatestSelection, Awaited
<1>6. FetchesAreWhole' /\ LatestCalculation' /\ NoResultYet' /\ SameResult'
  BY <1>2, <1>3, <1>4
     DEF DetailArrives, IInv, FetchesAreWhole, LatestCalculation, NoResultYet,
         SameResult, Listened
<1>7. DetailsOfResult'
  BY <1>1, <1>2, <1>3, <1>5 DEF IInv, DetailsOfResult, OfResult, Requests
<1>8. LatestSelection'
  <2>1. ASSUME NEW k \in Selections, k > detailRequestId'
        PROVE  details'[k].stage = "unused"
    <3>1. k > detailRequestId
      BY <1>5, <2>1
    <3>2. k # d
      BY <1>1, <3>1, PlannerAssumption DEF Selections
    <3>3. details[k].stage = "unused"
      BY <3>1 DEF IInv, LatestSelection
    <3> QED BY <1>2, <3>2, <3>3
  <2>2. ~ui'.detailLoading /\ ~ui'.detailExpired
    BY <1>1, <1>3
  <2> QED BY <1>5, <2>1, <2>2 DEF IInv, LatestSelection
<1>9. InputsKept'
  BY <1>2, <1>3, <1>4
     DEF DetailArrives, IInv, InputsKept, Listened, Held, Inputs, Disabled
<1> QED BY <1>6, <1>7, <1>8, <1>9 DEF IInv

\* A submit that is not complete changes the status only; while a calculation is
\* listened to, a submit of the same task is as complete as the one before it.
LEMMA SubmitIncompleteKeeps ==
  ASSUME IInv, TypeOK', SubmitIncomplete
  PROVE  IInv'
<1> USE DEF calculationVars, detailVars, fieldVars, Listened, Awaited
<1>1. /\ UNCHANGED <<shown, fieldVars, calculationVars, detailVars, forgotten>>
      /\ ~Disabled(shown) /\ flushing'
      /\ ~\A p \in Participants : shown.place[p] # None
  BY DEF SubmitIncomplete, CanSubmit
<1>2. /\ ui'.place = ui.place /\ ui'.options = ui.options
      /\ ui'.status = "error" /\ ui'.verdicts = ui.verdicts
      /\ ui'.result = ui.result /\ ui'.calculationRef = ui.calculationRef
      /\ ui'.selectedId = ui.selectedId /\ ui'.detail = ui.detail
      /\ ui'.detailLoading = ui.detailLoading
      /\ ui'.detailExpired = ui.detailExpired
  BY DEF SubmitIncomplete, IInv, TypeOK, Screens
<1>3. FetchesAreWhole' /\ LatestCalculation' /\ NoResultYet'
  BY <1>1, <1>2 DEF IInv, FetchesAreWhole, LatestCalculation, NoResultYet
<1>4. SameResult' /\ DetailsOfResult' /\ LatestSelection'
  BY <1>1, <1>2
     DEF IInv, SameResult, DetailsOfResult, OfResult, LatestSelection
<1>5. InputsKept'
  BY <1>1, <1>2 DEF IInv, InputsKept, Inputs, Disabled, Held
<1> QED BY <1>3, <1>4, <1>5 DEF IInv

\* A cancellation aborts the calculation listened to and moves requestRef on.
LEMMA CancelKeeps ==
  ASSUME IInv, TypeOK', Cancel
  PROVE  IInv'
<1> USE DEF detailVars, fieldVars
<1>1. /\ UNCHANGED <<shown, fieldVars, detailVars, forgotten, diverged>>
      /\ requestRef' = requestRef + 1 /\ requestRef \in Nat
  BY DEF Cancel, IInv, TypeOK
<1>2. /\ ui'.place = ui.place /\ ui'.options = ui.options
      /\ ui'.status = "idle" /\ ui'.verdicts = {}
      /\ ui'.result = ui.result /\ ui'.calculationRef = ui.calculationRef
      /\ ui'.selectedId = ui.selectedId /\ ui'.detail = ui.detail
      /\ ui'.detailLoading = ui.detailLoading
      /\ ui'.detailExpired = ui.detailExpired
  BY DEF Cancel, IInv, TypeOK, Screens
<1>3. ASSUME NEW c \in Requests
      PROVE  /\ calculations'[c].stage = calculations[c].stage
             /\ ~Listened(c)'
  <2>1. calculations'[c] = AbortStream[c] /\ calculations[c] \in Calls
    BY DEF Cancel, AbortStream, IInv, TypeOK
  <2> QED BY <2>1 DEF AbortStream, Calls, IInv, LatestCalculation, Listened
<1>4. LatestCalculation' /\ NoResultYet'
  BY <1>1, <1>2, <1>3
     DEF IInv, LatestCalculation, NoResultYet, Requests
<1>5. FetchesAreWhole' /\ SameResult' /\ DetailsOfResult' /\ LatestSelection'
  BY <1>1, <1>2
     DEF IInv, FetchesAreWhole, SameResult, DetailsOfResult, OfResult,
         LatestSelection, Awaited
<1>6. InputsKept'
  BY <1>1, <1>2, <1>3 DEF IInv, InputsKept, Inputs, Disabled, Held
<1> QED BY <1>4, <1>5, <1>6 DEF IInv

\* What calculate() hears before the end of the stream it keeps to itself, and
\* only the current calculation is heard.
LEMMA HearKeeps ==
  ASSUME IInv, TypeOK', NEW c \in Requests,
         \/ Responds(c) \/ HearRef(c)
         \/ \E answer \in {"ok", "no-result", "error"} : HearAnswer(c, answer)
  PROVE  IInv'
<1> USE DEF detailVars, fieldVars, Callback
<1>1. /\ UNCHANGED <<ui, shown, fieldVars, detailVars, forgotten>>
      /\ UNCHANGED <<requestRef, streamAbort, diverged>>
      /\ ~flushing
      /\ Listened(c)
      /\ \A k \in Requests : k # c => calculations'[k] = calculations[k]
      /\ calculations'[c].stage = "read"
      /\ calculations'[c].aborted = calculations[c].aborted
      /\ calculations'[c].place = calculations[c].place
      /\ calculations'[c].options = calculations[c].options
  <2>1. calculations \in [Requests -> Calls] /\ calculations[c] \in Calls
    BY DEF IInv, TypeOK
  <2>2. /\ calculations[c].stage \in {"fetch", "read"}
        /\ ~calculations[c].aborted /\ ~flushing
        /\ UNCHANGED <<ui, shown, fieldVars, detailVars, forgotten>>
    BY DEF Responds, HearRef, HearAnswer, Hearing
  <2>3. c = requestRef
    BY <2>2 DEF IInv, LatestCalculation, Listened
  <2>4. CASE Responds(c)
    BY <2>1, <2>2, <2>3, <2>4 DEF Responds, Listened, Calls
  <2>5. CASE HearRef(c)
    BY <2>1, <2>2, <2>5 DEF HearRef, Hearing, Listened, Calls
  <2>6. CASE \E answer \in {"ok", "no-result", "error"} : HearAnswer(c, answer)
    BY <2>1, <2>2, <2>6 DEF HearAnswer, Hearing, Listened, Calls
  <2> QED BY <2>4, <2>5, <2>6
<1>2. \A k \in Requests : Listened(k)' <=> Listened(k)
  BY <1>1 DEF Listened
<1>3. LatestCalculation' /\ NoResultYet'
  BY <1>1, <1>2 DEF IInv, LatestCalculation, NoResultYet, Listened
<1>4. FetchesAreWhole' /\ SameResult' /\ DetailsOfResult' /\ LatestSelection'
  BY <1>1
     DEF IInv, FetchesAreWhole, SameResult, DetailsOfResult, OfResult,
         LatestSelection, Awaited
<1>5. InputsKept'
  BY <1>1, <1>2 DEF IInv, InputsKept, Inputs, Disabled, Held
<1> QED BY <1>3, <1>4, <1>5 DEF IInv

\* A verdict is that of the current calculation.
LEMMA HearVerdictKeeps ==
  ASSUME IInv, TypeOK', NEW c \in Requests, NEW a \in Areas, HearVerdict(c, a)
  PROVE  IInv'
<1> USE DEF calculationVars, detailVars, fieldVars, Listened, Awaited
<1>1. /\ UNCHANGED <<shown, fieldVars, calculationVars, detailVars, forgotten>>
      /\ ~flushing
      /\ c = requestRef
  BY DEF HearVerdict, Hearing, Callback
<1>2. /\ ui'.place = ui.place /\ ui'.options = ui.options
      /\ ui'.status = ui.status /\ ui'.verdicts = ui.verdicts \cup {<<c, a>>}
      /\ ui'.result = ui.result /\ ui'.calculationRef = ui.calculationRef
      /\ ui'.selectedId = ui.selectedId /\ ui'.detail = ui.detail
      /\ ui'.detailLoading = ui.detailLoading
      /\ ui'.detailExpired = ui.detailExpired
  BY DEF HearVerdict, IInv, TypeOK, Screens
<1>3. FetchesAreWhole' /\ LatestCalculation' /\ NoResultYet'
  BY <1>1, <1>2 DEF IInv, FetchesAreWhole, LatestCalculation, NoResultYet
<1>4. SameResult' /\ DetailsOfResult' /\ LatestSelection'
  BY <1>1, <1>2
     DEF IInv, SameResult, DetailsOfResult, OfResult, LatestSelection
<1>5. InputsKept'
  BY <1>1, <1>2 DEF IInv, InputsKept, Inputs, Disabled, Held
<1> QED BY <1>3, <1>4, <1>5 DEF IInv

\* The result that appears is that of the calculation listened to, whose inputs
\* are those of the page.
LEMMA CompletesKeeps ==
  ASSUME IInv, TypeOK', NEW c \in Requests, Completes(c)
  PROVE  IInv'
<1> USE DEF detailVars, fieldVars, Callback
<1>1. /\ Listened(c) /\ c = requestRef
      /\ UNCHANGED <<shown, fieldVars, detailVars, forgotten>>
      /\ UNCHANGED <<requestRef, diverged>>
      /\ ~flushing
  BY DEF Completes, Hearing, Return, Listened, IInv, LatestCalculation
<1>2. /\ calculations'[c].stage = "over"
      /\ \A k \in Requests : k # c => calculations'[k] = calculations[k]
  BY DEF Completes, Return, NoCalculation, IInv, TypeOK
<1>3. /\ ui'.place = ui.place /\ ui'.options = ui.options
      /\ ui'.status = "success" /\ ui'.verdicts = {}
      /\ ui'.result.of = c /\ Inputs(ui'.result) = Inputs(calculations[c])
      /\ ui'.calculationRef \in {0, c}
      /\ ui'.selectedId = ui.selectedId /\ ui'.detail = ui.detail
      /\ ui'.detailLoading = ui.detailLoading
      /\ ui'.detailExpired = ui.detailExpired
  BY <1>1 DEF Completes, Inputs, IInv, TypeOK, Screens
<1>4. /\ \A k \in Requests : ~Listened(k)'
      /\ \A k \in Requests : k > c => calculations'[k].stage = "unused"
  BY <1>1, <1>2 DEF IInv, LatestCalculation, Listened, Requests
<1>5. shown.result = None /\ ui.detail = None /\ ~ui.detailExpired
      /\ \A d \in Selections : ~Awaited(d)
  BY <1>1, PlannerAssumption
     DEF IInv, NoResultYet, LatestSelection, Selections
<1>6. LatestCalculation' /\ NoResultYet'
  BY <1>1, <1>3, <1>4 DEF LatestCalculation, NoResultYet
<1>7. FetchesAreWhole' /\ SameResult'
  BY <1>1, <1>5 DEF IInv, FetchesAreWhole, SameResult
<1>8. DetailsOfResult'
  BY <1>1, <1>3, <1>5 DEF DetailsOfResult, OfResult, Awaited
<1>9. LatestSelection'
  BY <1>1, <1>3 DEF IInv, LatestSelection, Awaited
<1>10. InputsKept'
  BY <1>1, <1>3, <1>4 DEF IInv, InputsKept, Inputs, Disabled, Held
<1> QED BY <1>6, <1>7, <1>8, <1>9, <1>10 DEF IInv

\* An expired answer is that of the last selection, so it is the calculation on
\* the page that the server forgot.
LEMMA DetailExpiresKeeps ==
  ASSUME IInv, TypeOK', NEW d \in Selections, DetailExpires(d)
  PROVE  IInv'
<1> USE DEF calculationVars, fieldVars, Callback
<1>1. /\ d = detailRequestId /\ ui.detail = None /\ Awaited(d)
      /\ details[d].ref \in forgotten
      /\ UNCHANGED <<shown, fieldVars, calculationVars, forgotten>>
      /\ UNCHANGED <<detailRequestId, detailAbort>>
      /\ ~flushing
      /\ detailCache' = {}
  BY DEF DetailExpires, Answered, Awaited, IInv, LatestSelection
<1>2. /\ details'[d].stage = "over"
      /\ \A k \in Selections : k # d => details'[k] = details[k]
  BY DEF DetailExpires, Answered, NoFetch, IInv, TypeOK
<1>3. /\ ui'.place = ui.place /\ ui'.options = ui.options
      /\ ui'.status = ui.status /\ ui'.verdicts = ui.verdicts
      /\ ui'.result = ui.result /\ ui'.calculationRef = ui.calculationRef
      /\ ui'.selectedId = ui.selectedId /\ ui'.detail = ui.detail
      /\ ui'.detailLoading = FALSE /\ ui'.detailExpired = TRUE
  BY <1>1 DEF DetailExpires, Settled, IInv, TypeOK, Screens
<1>4. \A k \in Selections : ~Awaited(k)'
  BY <1>1, <1>2 DEF IInv, LatestSelection, Awaited
<1>5. \A c \in Requests : ~Listened(c)
  BY <1>1, PlannerAssumption DEF IInv, NoResultYet, LatestSelection, Selections
<1>6. FetchesAreWhole' /\ LatestCalculation' /\ NoResultYet' /\ SameResult'
  BY <1>1, <1>2, <1>3, <1>5
     DEF IInv, FetchesAreWhole, LatestCalculation, NoResultYet, SameResult,
         Listened
<1>7. DetailsOfResult'
  BY <1>1, <1>3, <1>4 DEF IInv, DetailsOfResult, OfResult
<1>8. LatestSelection'
  <2>1. \A k \in Selections :
          k > detailRequestId => details'[k].stage = "unused"
    BY <1>1, <1>2, PlannerAssumption DEF IInv, LatestSelection, Selections
  <2> QED BY <1>1, <1>3, <1>4, <2>1 DEF IInv, LatestSelection
<1>9. InputsKept'
  BY <1>1, <1>3, <1>5 DEF IInv, InputsKept, Inputs, Disabled, Held, Listened
<1> QED BY <1>6, <1>7, <1>8, <1>9 DEF IInv

\* A fetch that fails changes the page only if it is awaited.
LEMMA DetailFailsKeeps ==
  ASSUME IInv, TypeOK', NEW d \in Selections, DetailFails(d)
  PROVE  IInv'
<1> USE DEF calculationVars, fieldVars, Callback
<1>1. /\ UNCHANGED <<shown, fieldVars, calculationVars, forgotten>>
      /\ UNCHANGED <<detailRequestId, detailAbort, detailCache>>
      /\ ~flushing
      /\ details[d].stage = "fetch"
      /\ Awaited(d) => d = detailRequestId
  BY DEF DetailFails, IInv, LatestSelection
<1>2. /\ details'[d].stage = "over"
      /\ \A k \in Selections : k # d => details'[k] = details[k]
  BY DEF DetailFails, NoFetch, IInv, TypeOK
<1>3. /\ ui'.place = ui.place /\ ui'.options = ui.options
      /\ ui'.status = ui.status /\ ui'.verdicts = ui.verdicts
      /\ ui'.result = ui.result /\ ui'.calculationRef = ui.calculationRef
      /\ ui'.selectedId = ui.selectedId /\ ui'.detail = ui.detail
      /\ ui'.detailExpired = ui.detailExpired
      /\ ui'.detailLoading = IF Awaited(d) THEN FALSE ELSE ui.detailLoading
  BY <1>1
     DEF DetailFails, Awaited, Settled, IInv, TypeOK, LatestSelection, Screens
<1>4. \A k \in Selections : Awaited(k)' <=> Awaited(k) /\ k # d
  BY <1>2 DEF Awaited
<1>5. \A k \in Selections :
        details'[k].stage = "fetch" => details'[k] = details[k]
  BY <1>2
<1>6. FetchesAreWhole' /\ LatestCalculation' /\ NoResultYet' /\ SameResult'
  BY <1>1, <1>3, <1>5
     DEF IInv, FetchesAreWhole, LatestCalculation, NoResultYet, SameResult,
         Listened
<1>7. DetailsOfResult'
  BY <1>1, <1>3, <1>4, <1>5 DEF IInv, DetailsOfResult, OfResult, Awaited
<1>8. LatestSelection'
  BY <1>1, <1>2, <1>3, <1>4, PlannerAssumption
     DEF IInv, LatestSelection, Selections
<1>9. InputsKept'
  BY <1>1, <1>3 DEF IInv, InputsKept, Inputs, Disabled, Held, Listened
<1> QED BY <1>6, <1>7, <1>8, <1>9 DEF IInv

\* A render shows the page as it is, and its effects start no location.
LEMMA RenderKeeps ==
  ASSUME IInv, TypeOK', Render
  PROVE  IInv'
<1> USE DEF calculationVars, detailVars
<1>1. /\ UNCHANGED <<ui, calculationVars, detailVars, forgotten>>
      /\ shown' = ui
  BY DEF Render
<1>2. \A p \in Participants :
        Held(p)' => Held(p) /\ lookup'[p].seen = lookup[p].seen
  <2>1. ASSUME NEW p \in Participants
        PROVE  /\ lookup'[p].op = EffectOf(p)
               /\ lookup'[p].seen = lookup[p].seen
    BY DEF Render, IInv, TypeOK, Lookups
  <2> QED BY <2>1 DEF Held, EffectOf
<1>3. FetchesAreWhole' /\ LatestCalculation' /\ NoResultYet' /\ SameResult'
  BY <1>1
     DEF IInv, FetchesAreWhole, LatestCalculation, NoResultYet, SameResult,
         Listened
<1>4. DetailsOfResult' /\ LatestSelection'
  BY <1>1 DEF IInv, DetailsOfResult, OfResult, LatestSelection, Awaited
<1>5. InputsKept'
  BY <1>1, <1>2 DEF IInv, InputsKept, Inputs, Disabled, Listened
<1> QED BY <1>3, <1>4, <1>5 DEF IInv

\* The server may forget: what is expired on the page stays forgotten.
LEMMA ServerForgetsKeeps ==
  ASSUME IInv, TypeOK', NEW ref \in Requests, ServerForgets(ref)
  PROVE  IInv'
<1> USE DEF calculationVars, detailVars, fieldVars
<1>1. /\ UNCHANGED <<ui, shown, flushing, fieldVars, calculationVars,
                      detailVars>>
      /\ forgotten \subseteq forgotten'
  BY DEF ServerForgets
<1>2. FetchesAreWhole' /\ LatestCalculation' /\ NoResultYet' /\ SameResult'
  BY <1>1
     DEF IInv, FetchesAreWhole, LatestCalculation, NoResultYet, SameResult,
         Listened
<1>3. DetailsOfResult' /\ LatestSelection'
  BY <1>1 DEF IInv, DetailsOfResult, OfResult, LatestSelection, Awaited
<1>4. InputsKept'
  BY <1>1 DEF IInv, InputsKept, Inputs, Disabled, Listened, Held
<1> QED BY <1>2, <1>3, <1>4 DEF IInv

\* The invariant holds when the page is loaded.
LEMMA InitIInv == Init => IInv
<1> SUFFICES ASSUME Init PROVE IInv
  OBVIOUS
<1>1. TypeOK
  BY TypeInit
<1>2. /\ ui.status = "idle" /\ ui.verdicts = {} /\ ui.result = None
      /\ ui.detail = None /\ ui.detailLoading = FALSE
      /\ ui.detailExpired = FALSE /\ shown = ui
  BY DEF Init
<1>3. /\ \A c \in Requests : calculations[c].stage = "unused"
      /\ \A d \in Selections : details[d].stage = "unused"
      /\ detailRequestId = 0 /\ detailAbort = 0
  BY DEF Init, NoCalculation, NoFetch
<1>4. FetchesAreWhole /\ LatestCalculation /\ NoResultYet /\ SameResult
  BY <1>2, <1>3
     DEF FetchesAreWhole, LatestCalculation, NoResultYet, SameResult, Listened
<1>5. DetailsOfResult /\ LatestSelection /\ InputsKept
  BY <1>2, <1>3
     DEF DetailsOfResult, OfResult, LatestSelection, InputsKept, Awaited,
         Listened
<1> QED BY <1>1, <1>4, <1>5 DEF IInv

\* Every step keeps it.
LEMMA NextIInv == IInv /\ [Next]_vars => IInv'
<1> SUFFICES ASSUME IInv, [Next]_vars PROVE IInv'
  OBVIOUS
<1>1. TypeOK'
  BY TypeStep DEF IInv
<1>2. CASE UNCHANGED vars
  <2>1. FetchesAreWhole' /\ LatestCalculation' /\ NoResultYet' /\ SameResult'
    BY <1>2
       DEF vars, calculationVars, detailVars, IInv, FetchesAreWhole,
           LatestCalculation, NoResultYet, SameResult, Listened
  <2>2. DetailsOfResult' /\ LatestSelection' /\ InputsKept'
    BY <1>2
       DEF vars, calculationVars, detailVars, fieldVars, IInv, DetailsOfResult,
           OfResult, LatestSelection, InputsKept, Inputs, Disabled, Held,
           Awaited, Listened
  <2> QED BY <1>1, <2>1, <2>2 DEF IInv
<1>3. ASSUME NEW p \in Participants,
             Type(p) \/ Escape(p) \/ SearchAnswers(p) \/ LocateFails(p)
      PROVE  IInv'
  BY <1>1, <1>3, FieldKeeps
<1>4. ASSUME NEW p \in Participants, Locate(p) PROVE IInv'
  BY <1>1, <1>4, LocateKeeps
<1>5. ASSUME NEW p \in Participants, NEW place \in Places, Choose(p, place)
      PROVE  IInv'
  BY <1>1, <1>5, ChooseKeeps
<1>6. ASSUME NEW p \in Participants, NEW place \in Places,
             LocateSucceeds(p, place)
      PROVE  IInv'
  BY <1>1, <1>6, LocateSucceedsKeeps
<1>7. ASSUME NEW o \in Options, SetOptions(o) PROVE IInv'
  BY <1>1, <1>7, SetOptionsKeeps
<1>8. CASE SubmitIgnored
  BY <1>2, <1>8 DEF SubmitIgnored
<1>9. CASE SubmitIncomplete
  BY <1>1, <1>9, SubmitIncompleteKeeps
<1>10. CASE Submit
  BY <1>1, <1>10, SubmitKeeps
<1>11. CASE Cancel
  BY <1>1, <1>11, CancelKeeps
<1>12. ASSUME NEW c \in Requests,
              \/ Responds(c) \/ HearRef(c)
              \/ \E answer \in {"ok", "no-result", "error"} :
                   HearAnswer(c, answer)
       PROVE  IInv'
  BY <1>1, <1>12, HearKeeps
<1>13. ASSUME NEW c \in Requests, NEW a \in Areas, HearVerdict(c, a) PROVE IInv'
  BY <1>1, <1>13, HearVerdictKeeps
<1>14. ASSUME NEW c \in Requests, Completes(c) PROVE IInv'
  BY <1>1, <1>14, CompletesKeeps
<1>15. ASSUME NEW c \in Requests, Fails(c) PROVE IInv'
  BY <1>1, <1>15, FailsKeeps
<1>16. ASSUME NEW a \in Areas, SelectShown(a) PROVE IInv'
  BY <1>1, <1>16, SelectShownKeeps
<1>17. ASSUME NEW a \in Areas, SelectFetch(a) PROVE IInv'
  BY <1>1, <1>17, SelectFetchKeeps
<1>18. ASSUME NEW d \in Selections, DetailArrives(d) PROVE IInv'
  BY <1>1, <1>18, DetailArrivesKeeps
<1>19. ASSUME NEW d \in Selections, DetailExpires(d) PROVE IInv'
  BY <1>1, <1>19, DetailExpiresKeeps
<1>20. ASSUME NEW d \in Selections, DetailFails(d) PROVE IInv'
  BY <1>1, <1>20, DetailFailsKeeps
<1>21. CASE Render
  BY <1>1, <1>21, RenderKeeps
<1>22. ASSUME NEW ref \in Requests, ServerForgets(ref) PROVE IInv'
  BY <1>1, <1>22, ServerForgetsKeeps
<1> QED BY <1>2, <1>3, <1>4, <1>5, <1>6, <1>7, <1>8, <1>9, <1>10, <1>11, <1>12,
           <1>13, <1>14, <1>15, <1>16, <1>17, <1>18, <1>19, <1>20, <1>21, <1>22
           DEF Next

-------------------------------------------------------------------------------
(* The theorems.                                                           *)

\* Of all calculations the page listens to the last only, of all selections it
\* waits for the last only, and inputs, result and details stay together, in
\* every order of edits, renders, answers and failures (MeetPlanner.tsx).
THEOREM Invariance == Spec => []IInv
<1>1. Init => IInv
  BY InitIInv
<1>2. IInv /\ [Next]_vars => IInv'
  BY NextIInv
<1> QED BY <1>1, <1>2, PTL DEF Spec

\* What the panel shows and what it waits for belong to the selected area and to
\* the calculation on the page; nothing of a forgotten calculation is shown or
\* kept (selectStationArea, clearDetails).
THEOREM PanelHolds == Spec => []PanelIsOfSelection
<1>1. IInv => DetailIsOfSelection
  BY DEF IInv, TypeOK, DetailsOfResult, OfResult, LatestSelection,
         DetailIsOfSelection
<1>2. IInv => SpinnerHasRequest
  BY DEF IInv, LatestSelection, SpinnerHasRequest, Awaited
<1>3. IInv => PanelIsOfSelection
  BY <1>1, <1>2 DEF IInv, PanelIsOfSelection
<1> QED BY <1>3, Invariance, PTL

\* Verdicts and the result come from the calculation started last, and the page
\* says that it calculates only while that one is listened to (calculate,
\* cancelCalculation).
THEOREM OnlyLatestHolds == Spec => []OnlyLatestCalculation
<1>1. IInv => OnlyLatestCalculation
  BY DEF IInv, LatestCalculation, OnlyLatestCalculation, Listened
<1> QED BY <1>1, Invariance, PTL

\* A result on the page is one for the inputs on the page, unless a suggestion
\* was chosen while calculating or the calculation was started before a change was
\* rendered (LocationInput, changed, calculate).
THEOREM ResultIsForInputsHolds == Spec => []ResultIsForInputs
<1>1. IInv => ResultIsForInputs
  BY DEF IInv, InputsKept, ResultIsForInputs
<1> QED BY <1>1, Invariance, PTL

===============================================================================
