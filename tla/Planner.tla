------------------------------- MODULE Planner -------------------------------
(***************************************************************************)
(* The planner page, components/MeetPlanner.tsx: two starting points with  *)
(* search and browser location, a cancellable streamed calculation, and    *)
(* the details of a selected station area.                                 *)
(*                                                                         *)
(* React separates what the program has set from what the user sees.  `ui` *)
(* is the latest state, with every setX of the code applied; `shown` is    *)
(* the last render, and it is the state that every handler closes over.    *)
(* Refs (useRef) are read and written at once.  The render after a user's  *)
(* event follows before the next event, except for events dispatched in    *)
(* the same task; the render after a promise or a browser callback comes   *)
(* later, and events may come first.                                       *)
(*                                                                         *)
(* Left out: texts, the phase label, the map, and error messages except    *)
(* for the fact that there is one.                                         *)
(***************************************************************************)
EXTENDS Naturals, FiniteSets

CONSTANTS
  Participants,  (* those whose starting points are entered                *)
  Places,        (* the locations that can be found                        *)
  Options,       (* the settings of tolerance and change time              *)
  Areas,         (* the station areas of a result                          *)
  None,          (* no place, no area, no detail                           *)
  MaxRequests,   (* bound on requestRef: calculations and cancellations    *)
  MaxDetails     (* bound on detailRequestId: selections                   *)

ASSUME PlannerAssumption ==
  /\ None \notin Places \cup Areas
  /\ MaxRequests \in Nat
  /\ MaxDetails \in Nat

Requests == 1 .. MaxRequests
Selections == 1 .. MaxDetails

VARIABLES
  ui,               (* the state of the components, all updates applied    *)
  shown,            (* the state of the last render                        *)
  flushing,         (* a user's event has just run: its render is due      *)
  typed,            (* query: a text that is not the location's label      *)
  lookup,           (* operation: what a live callback of a field waits for *)
  requestRef,       (* requestRef.current                                  *)
  streamAbort,      (* the calculation streamAbort.current aborts, or 0    *)
  calculations,     (* the calls of calculate(), by id                     *)
  detailRequestId,  (* detailRequestId.current                             *)
  detailAbort,      (* the selection detailAbort.current aborts, or 0      *)
  details,          (* the fetches of selectStationArea(), by requestId    *)
  detailCache,      (* detailCache.current                                 *)
  forgotten,        (* the references the server no longer knows           *)
  diverged          (* history: the inputs on the page and those of the    *)
                    (* last calculation may have gone apart unnoticed      *)

calculationVars == <<requestRef, streamAbort, calculations, diverged>>
detailVars == <<detailRequestId, detailAbort, details, detailCache>>
fieldVars == <<typed, lookup>>
vars == <<ui, shown, flushing, fieldVars, calculationVars, detailVars,
          forgotten>>

Statuses == {"idle", "loading", "success", "error"}

PlaceOf == [Participants -> Places \cup {None}]

\* A result, with the calculation and the inputs it came from.
Results == [of : Requests, place : PlaceOf, options : Options,
            status : {"ok", "no-result"}]

Screens ==
  [place : PlaceOf,
   options : Options,
   suggestions : [Participants -> BOOLEAN],  \* results.length > 0
   status : Statuses,
   verdicts : SUBSET (Requests \X Areas),    \* with the stream they came from
   result : Results \cup {None},
   calculationRef : Requests \cup {0},
   selectedId : Areas \cup {None},
   detail : [area : Areas, ref : Requests] \cup {None},
   detailLoading : BOOLEAN,
   detailError : BOOLEAN,
   detailExpired : BOOLEAN]

\* What a live callback of a field waits for, a call of calculate() and a fetch
\* of selectStationArea().
Lookups == [op : {"none", "effect", "search", "locate"}, seen : BOOLEAN]

Calls == [stage : {"unused", "fetch", "read", "over"}, place : PlaceOf,
          options : Options, aborted : BOOLEAN, ref : BOOLEAN,
          answer : {"none", "ok", "no-result", "error"}]

Fetches == [stage : {"unused", "fetch", "over"}, area : Areas \cup {None},
            ref : Requests \cup {0}, matches : BOOLEAN, aborted : BOOLEAN]

NoCalculation ==
  [stage |-> "unused", place |-> [p \in Participants |-> None],
   options |-> CHOOSE o \in Options : TRUE, aborted |-> FALSE,
   ref |-> FALSE, answer |-> "none"]

NoFetch == [stage |-> "unused", area |-> None, ref |-> 0, matches |-> FALSE,
            aborted |-> FALSE]

Init ==
  /\ ui \in {[place |-> [p \in Participants |-> None], options |-> o,
              suggestions |-> [p \in Participants |-> FALSE],
              status |-> "idle", verdicts |-> {}, result |-> None,
              calculationRef |-> 0, selectedId |-> None, detail |-> None,
              detailLoading |-> FALSE, detailError |-> FALSE,
              detailExpired |-> FALSE] : o \in Options}
  /\ shown = ui
  /\ flushing = FALSE
  /\ typed = [p \in Participants |-> FALSE]
  /\ lookup = [p \in Participants |-> [op |-> "none", seen |-> FALSE]]
  /\ requestRef = 0
  /\ streamAbort = 0
  /\ calculations = [c \in Requests |-> NoCalculation]
  /\ detailRequestId = 0
  /\ detailAbort = 0
  /\ details = [d \in Selections |-> NoFetch]
  /\ detailCache = {}
  /\ forgotten = {}
  /\ diverged = FALSE

-------------------------------------------------------------------------------
(* What the handlers share.                                                *)

\* A handler of a user's event runs alone, and its render follows.
UserEvent == ~flushing /\ flushing' = TRUE

\* A callback or a promise continuation: its render is scheduled.
Callback == ~flushing /\ flushing' = FALSE

Disabled(screen) == screen.status = "loading"

Inputs(screen) == <<screen.place, screen.options>>

\* LocationInput's operation counter: a callback of an older generation has
\* no effect, so only the live one is kept.
Waits(p, op) == lookup' = [lookup EXCEPT ![p] = [op |-> op, seen |-> FALSE]]

AbortFetch == [d \in Selections |->
                 IF d = detailAbort THEN [details[d] EXCEPT !.aborted = TRUE]
                                    ELSE details[d]]

AbortStream == [c \in Requests |->
                  IF c = streamAbort
                  THEN [calculations[c] EXCEPT !.aborted = TRUE]
                  ELSE calculations[c]]

\* clearDetails(): what it sets and what it does to the refs.
WithoutDetails(screen) ==
  [screen EXCEPT !.calculationRef = 0, !.selectedId = None, !.detail = None,
                 !.detailError = FALSE, !.detailLoading = FALSE,
                 !.detailExpired = FALSE]

\* Mutant of ForgetDetails: the running request is not aborted.
ForgetCacheOnly ==
  /\ detailAbort' = 0
  /\ detailCache' = {}
  /\ UNCHANGED <<details, detailRequestId>>

ForgetDetails ==
  /\ details' = AbortFetch
  /\ detailAbort' = 0
  /\ detailCache' = {}
  /\ UNCHANGED detailRequestId

\* changed(), in a closure that saw a result or verdicts, or did not.
Changed(screen, seen) ==
  IF seen
  THEN [WithoutDetails(screen) EXCEPT !.verdicts = {}, !.result = None,
                                      !.status = "idle"]
  ELSE screen

ForgetIf(seen) == IF seen THEN ForgetDetails ELSE UNCHANGED detailVars

ShownSeen == shown.result # None \/ shown.verdicts # {}

\* updateOrigin(), with the field showing the new location's label.
Placed(screen, p, place) == [screen EXCEPT !.place[p] = place]

Query(p, isTyped) == typed' = [typed EXCEPT ![p] = isTyped]

-------------------------------------------------------------------------------
(* Entering the starting points.                                           *)

\* The user edits the query: the search effect follows the render.
Type(p) ==
  /\ ~Disabled(shown)
  /\ UserEvent
  /\ ui' = [ui EXCEPT !.suggestions[p] = FALSE]
  /\ Query(p, TRUE)
  /\ Waits(p, "effect")
  /\ UNCHANGED <<shown, calculationVars, detailVars, forgotten>>

Escape(p) ==
  /\ ~Disabled(shown)
  /\ UserEvent
  /\ ui' = [ui EXCEPT !.suggestions[p] = FALSE]
  /\ Waits(p, "none")
  /\ UNCHANGED <<shown, typed, calculationVars, detailVars, forgotten>>

\* The debounced search answers, with locations, without, or with an error.
SearchAnswers(p) ==
  /\ lookup[p].op = "search"
  /\ Callback
  /\ \E found \in BOOLEAN : ui' = [ui EXCEPT !.suggestions[p] = found]
  /\ Waits(p, "none")
  /\ UNCHANGED <<shown, typed, calculationVars, detailVars, forgotten>>

\* choose(): the suggestions stay clickable while the field is disabled.
Choose(p, place) ==
  /\ shown.suggestions[p]
  /\ UserEvent
  /\ ui' = Changed([Placed(ui, p, place) EXCEPT !.suggestions[p] = FALSE],
                   ShownSeen)
  /\ Query(p, FALSE)
  /\ Waits(p, "none")
  /\ diverged' = (diverged \/ Disabled(shown))
  /\ ForgetIf(ShownSeen)
  /\ UNCHANGED <<shown, requestRef, streamAbort, calculations, forgotten>>

\* useCurrentLocation()
Locate(p) ==
  /\ ~Disabled(shown)
  /\ lookup[p].op # "locate"
  /\ UserEvent
  /\ ui' = [ui EXCEPT !.suggestions[p] = FALSE]
  /\ lookup' = [lookup EXCEPT ![p] = [op |-> "locate", seen |-> ShownSeen]]
  /\ UNCHANGED <<shown, typed, calculationVars, detailVars, forgotten>>

\* The browser's position arrives: the closure is the one of the click.
LocateSucceeds(p, place) ==
  /\ lookup[p].op = "locate"
  /\ Callback
  /\ ui' = Changed(Placed(ui, p, place), lookup[p].seen)
  /\ Query(p, FALSE)
  /\ Waits(p, "none")
  /\ ForgetIf(lookup[p].seen)
  /\ UNCHANGED <<shown, calculationVars, forgotten>>

LocateFails(p) ==
  /\ lookup[p].op = "locate"
  /\ Callback
  /\ Waits(p, "none")
  /\ UNCHANGED <<ui, shown, typed, calculationVars, detailVars, forgotten>>

\* Mutant of SetOptions: the radio buttons are not disabled.
SetOptionsAlways(o) ==
  /\ o # shown.options
  /\ UserEvent
  /\ ui' = Changed([ui EXCEPT !.options = o], ShownSeen)
  /\ ForgetIf(ShownSeen)
  /\ UNCHANGED <<shown, fieldVars, calculationVars, forgotten>>

\* The radio buttons of tolerance and change time.
SetOptions(o) ==
  /\ ~Disabled(shown)
  /\ o # shown.options
  /\ UserEvent
  /\ ui' = Changed([ui EXCEPT !.options = o], ShownSeen)
  /\ ForgetIf(ShownSeen)
  /\ UNCHANGED <<shown, fieldVars, calculationVars, forgotten>>

-------------------------------------------------------------------------------
(* calculate() and cancelCalculation().                                    *)

\* submit(), retry or recalculate.  A script may dispatch a second submit in
\* the task of the first, before the render.  The place of a located
\* participant is that of the last render, although the ref that holds a
\* submit back while a location is pending is cleared at once.
CanSubmit ==
  /\ \A p \in Participants : lookup[p].op # "locate"
  /\ ~Disabled(shown)
  /\ flushing' = TRUE

\* While a calculation is shown or a location is pending, a submit returns.
SubmitIgnored ==
  /\ Disabled(shown) \/ \E p \in Participants : lookup[p].op = "locate"
  /\ UNCHANGED vars

SubmitIncomplete ==
  /\ CanSubmit
  /\ \E p \in Participants : shown.place[p] = None
  /\ ui' = [ui EXCEPT !.status = "error"]
  /\ UNCHANGED <<shown, fieldVars, calculationVars, detailVars, forgotten>>

\* Mutant of Submit: the new controller is stored before the old one is
\* aborted.
SubmitAbortsItself ==
  /\ CanSubmit
  /\ \A p \in Participants : shown.place[p] # None
  /\ requestRef < MaxRequests
  /\ requestRef' = requestRef + 1
  /\ streamAbort' = requestRef + 1
  /\ calculations' =
       [calculations EXCEPT ![requestRef + 1] =
          [NoCalculation EXCEPT !.stage = "fetch", !.place = shown.place,
                                !.options = shown.options, !.aborted = TRUE]]
  /\ diverged' = (Inputs(shown) # Inputs(ui))
  /\ ForgetDetails
  /\ ui' = [WithoutDetails(ui) EXCEPT !.verdicts = {}, !.result = None,
                                      !.status = "loading"]
  /\ UNCHANGED <<shown, fieldVars, forgotten>>

Submit ==
  /\ CanSubmit
  /\ \A p \in Participants : shown.place[p] # None
  /\ requestRef < MaxRequests
  /\ requestRef' = requestRef + 1
  /\ streamAbort' = requestRef + 1
  /\ calculations' =
       [AbortStream EXCEPT ![requestRef + 1] =
          [NoCalculation EXCEPT !.stage = "fetch", !.place = shown.place,
                                !.options = shown.options]]
  /\ diverged' = (Inputs(shown) # Inputs(ui))
  /\ ForgetDetails
  /\ ui' = [WithoutDetails(ui) EXCEPT !.verdicts = {}, !.result = None,
                                      !.status = "loading"]
  /\ UNCHANGED <<shown, fieldVars, forgotten>>

\* Mutant of Cancel: the verdicts stay.
CancelKeepsVerdicts ==
  /\ Disabled(shown)
  /\ requestRef < MaxRequests
  /\ UserEvent
  /\ calculations' = AbortStream
  /\ requestRef' = requestRef + 1
  /\ ui' = [ui EXCEPT !.status = "idle"]
  /\ UNCHANGED <<shown, fieldVars, streamAbort, diverged, detailVars,
                 forgotten>>

\* cancelCalculation()
Cancel ==
  /\ Disabled(shown)
  /\ requestRef < MaxRequests
  /\ UserEvent
  /\ calculations' = AbortStream
  /\ requestRef' = requestRef + 1
  /\ ui' = [ui EXCEPT !.verdicts = {}, !.status = "idle"]
  /\ UNCHANGED <<shown, fieldVars, streamAbort, diverged, detailVars,
                 forgotten>>

\* calculate() returns: its finally clears its own controller.
Return(c) ==
  /\ calculations' = [calculations EXCEPT ![c] =
                        [NoCalculation EXCEPT !.stage = "over"]]
  /\ streamAbort' = IF streamAbort = c THEN 0 ELSE streamAbort
  /\ UNCHANGED <<requestRef, diverged>>

\* An abort rejects the fetch and the reads, so nothing more is heard.
Hearing(c, stage) ==
  /\ calculations[c].stage = stage
  /\ ~calculations[c].aborted
  /\ Callback

Responds(c) ==
  /\ Hearing(c, "fetch")
  /\ IF c # requestRef
     THEN Return(c)
     ELSE /\ calculations' = [calculations EXCEPT ![c].stage = "read"]
          /\ UNCHANGED <<requestRef, streamAbort, diverged>>
  /\ UNCHANGED <<ui, shown, fieldVars, detailVars, forgotten>>

\* A station-verdict event; the first verdict on an area stays.
HearVerdict(c, a) ==
  /\ Hearing(c, "read")
  /\ calculations[c].answer = "none" /\ ~calculations[c].ref
  /\ c = requestRef
  /\ \A v \in ui.verdicts : v[2] # a
  /\ ui' = [ui EXCEPT !.verdicts = @ \cup {<<c, a>>}]
  /\ UNCHANGED <<shown, fieldVars, calculationVars, detailVars, forgotten>>

\* A ref event, then a result event; or a result without a reference; or an
\* error event.  They are kept in variables of the call.
HearRef(c) ==
  /\ Hearing(c, "read")
  /\ calculations[c].answer = "none" /\ ~calculations[c].ref
  /\ c = requestRef
  /\ calculations' = [calculations EXCEPT ![c].ref = TRUE]
  /\ UNCHANGED <<ui, shown, fieldVars, requestRef, streamAbort, diverged,
                 detailVars, forgotten>>

HearAnswer(c, answer) ==
  /\ Hearing(c, "read")
  /\ calculations[c].answer = "none"
  /\ answer = "error" => ~calculations[c].ref
  /\ c = requestRef
  /\ calculations' = [calculations EXCEPT ![c].answer = answer]
  /\ UNCHANGED <<ui, shown, fieldVars, requestRef, streamAbort, diverged,
                 detailVars, forgotten>>

\* The catch of calculate(): a calculation that is not the current one, or
\* that was aborted, leaves the page alone.
Caught(c) ==
  IF c = requestRef /\ ~calculations[c].aborted
  THEN /\ ui' = [WithoutDetails(ui) EXCEPT !.verdicts = {}, !.status = "error"]
       /\ ForgetDetails
  ELSE UNCHANGED <<ui, detailVars>>

\* The stream ends after a result.
Completes(c) ==
  /\ Hearing(c, "read")
  /\ calculations[c].answer \in {"ok", "no-result"}
  /\ ui' = IF c # requestRef THEN ui
           ELSE [ui EXCEPT !.calculationRef =
                              IF calculations[c].ref THEN c ELSE 0,
                           !.verdicts = {}, !.status = "success",
                           !.result = [of |-> c,
                                       place |-> calculations[c].place,
                                       options |-> calculations[c].options,
                                       status |-> calculations[c].answer]]
  /\ Return(c)
  /\ UNCHANGED <<shown, fieldVars, detailVars, forgotten>>

\* The request fails, answers with an error, sends a malformed frame or an
\* invalid result, ends after an error event or without a result, or was
\* aborted.
Fails(c) ==
  /\ Callback
  /\ calculations[c].stage \in {"fetch", "read"}
  /\ Caught(c)
  /\ Return(c)
  /\ UNCHANGED <<shown, fieldVars, forgotten>>

-------------------------------------------------------------------------------
(* selectStationArea().                                                    *)

\* The server accepts a details request whose body is the request of the
\* reference's calculation.
BodyMatches == Inputs(shown) = Inputs(shown.result)

\* What a selection shows at once.
Selected(a) == [ui EXCEPT !.selectedId = a, !.detail = None,
                          !.detailError = FALSE, !.detailLoading = FALSE]

Cached(a) == <<shown.calculationRef, a>> \in detailCache

NeedsFetch(a) ==
  /\ shown.result.status = "ok"
  /\ ~shown.detailExpired
  /\ shown.calculationRef # 0
  /\ ~Cached(a)

\* A selection that needs no request.
SelectShown(a) ==
  /\ shown.result # None
  /\ detailRequestId < MaxDetails
  /\ UserEvent
  /\ ~NeedsFetch(a)
  /\ details' = AbortFetch
  /\ detailAbort' = 0
  /\ detailRequestId' = detailRequestId + 1
  /\ ui' = IF shown.result.status = "no-result" \/ shown.detailExpired
           THEN Selected(a)
           ELSE IF shown.calculationRef = 0
           THEN [Selected(a) EXCEPT !.detailError = TRUE]
           ELSE [Selected(a) EXCEPT !.detail = [area |-> a,
                                                ref |-> shown.calculationRef]]
  /\ UNCHANGED <<shown, fieldVars, calculationVars, detailCache, forgotten>>

\* Mutant of SelectFetch: the new controller is stored before the old one is
\* aborted.
SelectFetchAbortsItself(a) ==
  /\ shown.result # None
  /\ detailRequestId < MaxDetails
  /\ UserEvent
  /\ NeedsFetch(a)
  /\ detailRequestId' = detailRequestId + 1
  /\ detailAbort' = detailRequestId + 1
  /\ details' = [details EXCEPT ![detailRequestId + 1] =
                   [stage |-> "fetch", area |-> a, ref |-> shown.calculationRef,
                    matches |-> BodyMatches, aborted |-> TRUE]]
  /\ ui' = [Selected(a) EXCEPT !.detailLoading = TRUE]
  /\ UNCHANGED <<shown, fieldVars, calculationVars, detailCache, forgotten>>

SelectFetch(a) ==
  /\ shown.result # None
  /\ detailRequestId < MaxDetails
  /\ UserEvent
  /\ NeedsFetch(a)
  /\ detailRequestId' = detailRequestId + 1
  /\ detailAbort' = detailRequestId + 1
  /\ details' = [AbortFetch EXCEPT ![detailRequestId + 1] =
                   [stage |-> "fetch", area |-> a, ref |-> shown.calculationRef,
                    matches |-> BodyMatches, aborted |-> FALSE]]
  /\ ui' = [Selected(a) EXCEPT !.detailLoading = TRUE]
  /\ UNCHANGED <<shown, fieldVars, calculationVars, detailCache, forgotten>>

\* An answer is read.  An abort before rejects the fetch or its body.
Answered(d) ==
  /\ details[d].stage = "fetch"
  /\ ~details[d].aborted
  /\ Callback
  /\ details' = [details EXCEPT ![d] = [NoFetch EXCEPT !.stage = "over"]]

\* finally: the spinner of the current request stops.
Settled(screen, d) ==
  IF d = detailRequestId THEN [screen EXCEPT !.detailLoading = FALSE]
                         ELSE screen

DetailArrives(d) ==
  /\ Answered(d)
  /\ details[d].matches /\ details[d].ref \notin forgotten
  /\ LET got == [area |-> details[d].area, ref |-> details[d].ref] IN
     IF d = detailRequestId
     THEN /\ detailCache' = detailCache \cup {<<got.ref, got.area>>}
          /\ ui' = Settled([ui EXCEPT !.detail = got], d)
     ELSE UNCHANGED <<ui, detailCache>>
  /\ UNCHANGED <<shown, fieldVars, calculationVars, detailRequestId,
                 detailAbort, forgotten>>

\* Mutant of DetailExpires: what was cached stays.
DetailExpiresKeepsCache(d) ==
  /\ Answered(d)
  /\ details[d].ref \in forgotten
  /\ ui' = Settled([ui EXCEPT !.detailExpired = TRUE], d)
  /\ UNCHANGED <<shown, fieldVars, calculationVars, detailCache,
                 detailRequestId, detailAbort, forgotten>>

\* 410 CALCULATION_REF_EXPIRED; nothing here asks whether the selection is
\* still the current one.
DetailExpires(d) ==
  /\ Answered(d)
  /\ details[d].ref \in forgotten
  /\ detailCache' = {}
  /\ ui' = Settled([ui EXCEPT !.detailExpired = TRUE], d)
  /\ UNCHANGED <<shown, fieldVars, calculationVars, detailRequestId,
                 detailAbort, forgotten>>

\* Mutant of DetailFails: the finally of an aborted request stops the spinner.
DetailFailsUnguarded(d) ==
  /\ details[d].stage = "fetch"
  /\ Callback
  /\ details' = [details EXCEPT ![d] = [NoFetch EXCEPT !.stage = "over"]]
  /\ ui' = IF details[d].aborted \/ d # detailRequestId
           THEN [ui EXCEPT !.detailLoading = FALSE]
           ELSE Settled([ui EXCEPT !.detailError = TRUE], d)
  /\ UNCHANGED <<shown, fieldVars, calculationVars, detailRequestId,
                 detailAbort, detailCache, forgotten>>

\* Any other answer, a failed request or an aborted one.
DetailFails(d) ==
  /\ details[d].stage = "fetch"
  /\ Callback
  /\ details' = [details EXCEPT ![d] = [NoFetch EXCEPT !.stage = "over"]]
  /\ ui' = IF details[d].aborted \/ d # detailRequestId THEN ui
           ELSE Settled([ui EXCEPT !.detailError = TRUE], d)
  /\ UNCHANGED <<shown, fieldVars, calculationVars, detailRequestId,
                 detailAbort, detailCache, forgotten>>

-------------------------------------------------------------------------------
(* React and the server.                                                   *)

\* The effects that follow a render start and stop the searches: a field that
\* becomes disabled loses its callbacks, one that is enabled again searches
\* for what is typed.
EffectOf(p) ==
  IF Disabled(ui)
  THEN "none"
  ELSE IF lookup[p].op = "effect" \/ (Disabled(shown) /\ typed[p])
  THEN "search"
  ELSE IF Disabled(shown) THEN "none" ELSE lookup[p].op

Render ==
  /\ flushing \/ shown # ui
  /\ shown' = ui
  /\ flushing' = FALSE
  /\ lookup' = [p \in Participants |-> [lookup[p] EXCEPT !.op = EffectOf(p)]]
  /\ UNCHANGED <<ui, typed, calculationVars, detailVars, forgotten>>

\* The server's basis cache expires or evicts a basis; it matters while the
\* page can still ask for it.
ServerForgets(ref) ==
  /\ ref \notin forgotten
  /\ \/ ui.calculationRef = ref
     \/ \E d \in Selections : details[d].ref = ref /\ ~details[d].aborted
  /\ forgotten' = forgotten \cup {ref}
  /\ UNCHANGED <<ui, shown, flushing, fieldVars, calculationVars, detailVars>>

Next ==
  \/ \E p \in Participants :
       Type(p) \/ Escape(p) \/ SearchAnswers(p) \/ Locate(p) \/ LocateFails(p)
  \/ \E p \in Participants, place \in Places :
       Choose(p, place) \/ LocateSucceeds(p, place)
  \/ \E o \in Options : SetOptions(o)
  \/ SubmitIgnored \/ SubmitIncomplete \/ Submit \/ Cancel
  \/ \E c \in Requests :
       Responds(c) \/ HearRef(c) \/ Completes(c) \/ Fails(c)
  \/ \E c \in Requests, a \in Areas : HearVerdict(c, a)
  \/ \E c \in Requests, answer \in {"ok", "no-result", "error"} :
       HearAnswer(c, answer)
  \/ \E a \in Areas : SelectShown(a) \/ SelectFetch(a)
  \/ \E d \in Selections :
       DetailArrives(d) \/ DetailExpires(d) \/ DetailFails(d)
  \/ Render
  \/ \E ref \in Requests : ServerForgets(ref)

Spec == Init /\ [][Next]_vars

-------------------------------------------------------------------------------
(* Properties.                                                             *)

\* Types of all variables; the last render is a screen like the latest one.
TypeOK ==
  /\ ui \in Screens /\ shown \in Screens
  /\ flushing \in BOOLEAN
  /\ typed \in [Participants -> BOOLEAN]
  /\ lookup \in [Participants -> Lookups]
  /\ requestRef \in 0 .. MaxRequests
  /\ streamAbort \in 0 .. requestRef
  /\ calculations \in [Requests -> Calls]
  /\ detailRequestId \in 0 .. MaxDetails
  /\ detailAbort \in 0 .. detailRequestId
  /\ details \in [Selections -> Fetches]
  /\ detailCache \subseteq Requests \X Areas
  /\ forgotten \subseteq Requests
  /\ diverged \in BOOLEAN

\* The details on the page are those of the selected area, from the
\* calculation whose result is on the page, whatever the order of selections,
\* recalculations, edits and answers; and once the server has forgotten that
\* calculation, none are shown or kept until there is a new one
\* (selectStationArea, clearDetails).  The page shows details only beside a
\* result.
DetailIsOfSelection ==
  /\ \A screen \in {ui, shown} :
       screen.result # None /\ screen.detail # None =>
         /\ screen.detail.area = screen.selectedId
         /\ screen.detail.ref = screen.calculationRef
         /\ screen.detail.ref = screen.result.of
  /\ ui.detailExpired => ui.detail = None /\ detailCache = {}

\* The details spinner turns exactly while the request of the last selection
\* is under way and not aborted (selectStationArea and its finally).
SpinnerHasRequest ==
  ui.detailLoading <=>
    \E d \in Selections : /\ d = detailRequestId
                          /\ details[d].stage = "fetch"
                          /\ ~details[d].aborted
                          /\ details[d].area = ui.selectedId

\* What the panel shows and what it waits for belong to the selection.
PanelIsOfSelection ==
  /\ TypeOK
  /\ DetailIsOfSelection
  /\ SpinnerHasRequest

\* Verdicts and a result come from the calculation that was started last, and
\* verdicts stop when it is superseded or cancelled; and the page says that it
\* calculates only while that calculation is still listened to, so that it
\* does not stay busy for ever (calculate, cancelCalculation).
OnlyLatestCalculation ==
  /\ ui.status = "loading" =>
       /\ calculations[requestRef].stage \in {"fetch", "read"}
       /\ ~calculations[requestRef].aborted
  /\ \A v \in ui.verdicts : v[1] = requestRef
  /\ ui.result # None =>
       \A c \in Requests : c > ui.result.of => calculations[c].stage = "unused"

\* A result on the page was calculated for the starting points, tolerance and
\* change time on the page, but for two exceptions: a suggestion was chosen
\* while calculating, or the calculation was started before the render of a
\* change (by retry right after the browser's position, or by a script).  The
\* disabled controls, the pending location and the operation counters hold
\* every other change off (LocationInput, changed, calculate).
ResultIsForInputs ==
  ui.result # None /\ ~diverged =>
    Inputs(ui.result) = Inputs(ui)

\* "Your inputs changed. Run the meeting search again." (lib/client/i18n.ts) is
\* what a user reads when an input changes: no change of a starting point leaves
\* a calculation from other starting points running whose result the page will
\* then show (choose, updateOrigin, changed).
ChangedInputsStopCalculation ==
  [][ui'.place # ui.place =>
       \A c \in Requests :
         /\ c = requestRef'
         /\ calculations'[c].stage \in {"fetch", "read"}
         /\ ~calculations'[c].aborted
         => calculations'[c].place = ui'.place]_vars

===============================================================================
