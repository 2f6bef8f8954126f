------------------------------ MODULE MeetingApi ------------------------------
(***************************************************************************)
(* The three POST handlers of lib/domain/meeting-api.ts - the JSON         *)
(* calculation, its event-stream twin and the station-area details - with  *)
(* the process-wide admission slot and the per-request deadline of         *)
(* lib/domain/scheduled-admission.ts, over the basis store they share.     *)
(*                                                                         *)
(* The handlers run on one JavaScript event loop.  Between two awaits of   *)
(* real I/O a handler runs alone: `turn` names the request whose code is   *)
(* running, and bodies, upstream answers, timers and disconnects arrive    *)
(* only while it is Idle.  Only the clock moves at any time, so a          *)
(* deadline.check() can fail in the middle of a turn although the          *)
(* deadline's timer cannot fire there.                                     *)
(***************************************************************************)
EXTENDS Integers, Sequences, FiniteSets, BasisStore

CONSTANTS
  Requests,    (* the requests the server receives                         *)
  Kind,        (* Requests -> {"post", "stream", "details"}: the route     *)
  Bodies,      (* the distinct parsed meeting requests                     *)
  Artifacts,   (* the scheduled artifacts the provider factory can return  *)
  NoArtifact,  (* providers without a scheduledArtifact                    *)
  NoRef,       (* no calculation reference                                 *)
  Idle         (* no handler is running                                    *)

ASSUME MeetingApiAssumption ==
  /\ IsFiniteSet(Requests)
  /\ Kind \in [Requests -> {"post", "stream", "details"}]
  /\ Bases = [body : Bodies, artifact : Artifacts, status : {"ok", "no-result"}]
  /\ NoArtifact \notin Artifacts
  /\ NoRef \notin Refs
  /\ Idle \notin Requests

VARIABLES
  turn,        (* the request whose handler is running, or Idle            *)
  pc,          (* where each handler stands                                *)
  body,        (* the parsed request                                       *)
  active,      (* ScheduledCalculationAdmission.active                     *)
  slot,        (* the release closure: "none", "held" or "released"        *)
  deadline,    (* "none", "armed" or "disposed"                            *)
  expired,     (* now() >= deadlineAt                                      *)
  aborted,     (* deadline.signal.aborted, the composite signal            *)
  gone,        (* request.signal.aborted: the client disconnected          *)
  provided,    (* what providersSource() produced                          *)
  basis,       (* calculation.basis                                        *)
  given,       (* calculationRef of the run's result                       *)
  outcome,     (* the JSON answer or the error code, "none" before it      *)
  events       (* the server-sent events the client received               *)

slotVars == <<active, slot>>
deadlineVars == <<deadline, expired, aborted>>
clientVars == <<gone, body>>
workVars == <<provided, basis, given>>
replyVars == <<outcome, events>>
vars == <<turn, pc, slotVars, deadlineVars, clientVars, workVars, replyVars,
          storeVars>>

\* What providersSource() can do: return providers with or without an
\* artifact, throw a ProviderConfigurationError, or throw anything else.
Sources == Artifacts \cup {NoArtifact, "misconfigured", "broken"}

SlotStates == {"none", "held", "released"}

Steps == {"new", "admit", "admitted", "preflight", "run", "access", "routing",
          "evaluating", "validating", "storing", "replying",
          "lookup", "found", "admitDetail", "detail", "done"}

\* The steps of runScheduledMeetingCalculation, which a stream reports on.
RunSteps == {"run", "access", "routing", "evaluating", "validating",
             "storing", "replying"}

\* The error codes and the answers that are no errors.
Outcomes == {"none", "RESULT", "DETAILS", "UNAVAILABLE_DETAILS",
             "INVALID_REQUEST", "TEMPORARILY_UNAVAILABLE",
             "PROVIDER_CONFIGURATION_INVALID", "PROVIDER_NOT_CONFIGURED",
             "PROVIDER_UNAVAILABLE", "CALCULATION_FAILED",
             "INVALID_CALCULATION_REF", "CALCULATION_REF_EXPIRED",
             "CALCULATION_REF_MISMATCH", "STATION_AREA_NOT_FOUND",
             "DETAIL_FAILED"}

Init ==
  /\ StoreInit
  /\ turn = Idle
  /\ pc = [r \in Requests |-> "new"]
  /\ body \in [Requests -> Bodies]
  /\ active = 0
  /\ slot = [r \in Requests |-> "none"]
  /\ deadline = [r \in Requests |-> "none"]
  /\ expired = [r \in Requests |-> FALSE]
  /\ aborted = [r \in Requests |-> FALSE]
  /\ gone = [r \in Requests |-> FALSE]
  /\ provided = [r \in Requests |-> NoArtifact]
  /\ basis = [r \in Requests |-> NoBasis]
  /\ given = [r \in Requests |-> NoRef]
  /\ outcome = [r \in Requests |-> "none"]
  /\ events = [r \in Requests |-> <<>>]

-------------------------------------------------------------------------------
(* What the handlers share.                                                *)

Running(r, step) == turn = r /\ pc[r] = step

Goto(r, step) == pc' = [pc EXCEPT ![r] = step]

\* Mutant of Acquire: the limit is not tested.
AcquireAlways(r) ==
  /\ active' = active + 1
  /\ slot' = [slot EXCEPT ![r] = "held"]
  /\ deadline' = [deadline EXCEPT ![r] = "armed"]
  /\ aborted' = [aborted EXCEPT ![r] = gone[r]]
  /\ UNCHANGED expired

\* tryAcquire() with a free slot, then createScheduledCalculationDeadline,
\* whose composite signal starts aborted when the client is already gone.
Acquire(r) ==
  /\ active < 1
  /\ active' = active + 1
  /\ slot' = [slot EXCEPT ![r] = "held"]
  /\ deadline' = [deadline EXCEPT ![r] = "armed"]
  /\ aborted' = [aborted EXCEPT ![r] = gone[r]]
  /\ UNCHANGED expired

\* The closure tryAcquire() returned: a second call does nothing.
Release(r) ==
  IF slot[r] = "held"
  THEN /\ active' = active - 1
       /\ slot' = [slot EXCEPT ![r] = "released"]
  ELSE UNCHANGED slotVars

\* deadline.dispose(): the timer and the listeners are gone.
Dispose(r) ==
  /\ deadline' = [deadline EXCEPT ![r] = "disposed"]
  /\ UNCHANGED <<expired, aborted>>

\* The handler's promise settles and its turn ends.
Answer(r, code) ==
  /\ outcome' = [outcome EXCEPT ![r] = code]
  /\ Goto(r, "done")
  /\ turn' = Idle

\* write(): nothing is delivered once the consumer cancelled the stream.
Write(r, sent) ==
  events' = IF Kind[r] = "stream" /\ ~gone[r]
            THEN [events EXCEPT ![r] = @ \o sent]
            ELSE events

\* Mutant of Fail: an error path forgets to release.
FailKeepsSlot(r, code) ==
  /\ Dispose(r)
  /\ Answer(r, code)
  /\ Write(r, IF pc[r] \in RunSteps THEN <<"error">> ELSE <<>>)
  /\ UNCHANGED <<slotVars, clientVars, workVars, storeVars>>

\* Every way out of an acquired handler but success: dispose, release, answer
\* with an error, as an error event when the stream has started.
Fail(r, code) ==
  /\ Release(r)
  /\ Dispose(r)
  /\ Answer(r, code)
  /\ Write(r, IF pc[r] \in RunSteps THEN <<"error">> ELSE <<>>)
  /\ UNCHANGED <<clientVars, workVars, storeVars>>

-------------------------------------------------------------------------------
(* parseMeetingRequestBody and acquireScheduledMeetingCalculation.         *)

ReceiveBody(r) ==
  /\ turn = Idle
  /\ pc[r] = "new"
  /\ turn' = r
  /\ Goto(r, IF Kind[r] = "details" THEN "lookup" ELSE "admit")
  /\ UNCHANGED <<slotVars, deadlineVars, clientVars, workVars, replyVars,
                 storeVars>>

RejectBody(r) ==
  /\ turn = Idle
  /\ pc[r] = "new"
  /\ Answer(r, "INVALID_REQUEST")
  /\ UNCHANGED <<slotVars, deadlineVars, clientVars, workVars, events,
                 storeVars>>

\* tryAcquire() returned null, for a calculation or for details.
RefuseBusy(r) ==
  /\ Running(r, "admit") \/ Running(r, "admitDetail")
  /\ active >= 1
  /\ Answer(r, "TEMPORARILY_UNAVAILABLE")
  /\ UNCHANGED <<slotVars, deadlineVars, clientVars, workVars, events,
                 storeVars>>

Admit(r) ==
  /\ Running(r, "admit")
  /\ Acquire(r)
  /\ Goto(r, "admitted")
  /\ UNCHANGED <<turn, clientVars, workVars, replyVars, storeVars>>

\* The first check() and the test of request.signal.aborted.
StopAtAdmission(r) ==
  /\ Running(r, "admitted")
  /\ expired[r] \/ gone[r]
  /\ Fail(r, "TEMPORARILY_UNAVAILABLE")

\* Mutant of PassAdmission: request.signal.aborted is not tested.
PassAdmissionGone(r) ==
  /\ Running(r, "admitted")
  /\ ~expired[r]
  /\ Goto(r, IF Kind[r] = "stream" THEN "preflight" ELSE "run")
  /\ UNCHANGED <<turn, slotVars, deadlineVars, clientVars, workVars,
                 replyVars, storeVars>>

PassAdmission(r) ==
  /\ Running(r, "admitted")
  /\ ~expired[r] /\ ~gone[r]
  /\ Goto(r, IF Kind[r] = "stream" THEN "preflight" ELSE "run")
  /\ UNCHANGED <<turn, slotVars, deadlineVars, clientVars, workVars,
                 replyVars, storeVars>>

-------------------------------------------------------------------------------
(* handleMeetingStreamPost up to the response: the providers are made      *)
(* before the stream starts, so that a wrong configuration is a JSON       *)
(* answer; any other failure of the factory is kept for the stream.        *)

Preflight(r) ==
  /\ Running(r, "preflight")
  /\ ~expired[r]
  /\ \E source \in Sources \ {"misconfigured"} :
       provided' = [provided EXCEPT ![r] = source]
  /\ Goto(r, "run")
  /\ UNCHANGED <<turn, slotVars, deadlineVars, clientVars, basis, given,
                 replyVars, storeVars>>

\* providersSource() threw a ProviderConfigurationError, in the preflight of a
\* stream or inside the run or the details.
Misconfigured(r) ==
  /\ \/ Running(r, "preflight")
     \/ Running(r, "run") /\ Kind[r] = "post"
     \/ Running(r, "detail")
  /\ ~expired[r]
  /\ Fail(r, "PROVIDER_CONFIGURATION_INVALID")

\* A deadline.check() of the preflight, the run or the details throws.  The
\* checks between two steps fail together, so each step has one.
Overdue(r) ==
  /\ turn = r
  /\ pc[r] \in (RunSteps \ {"access"}) \cup {"preflight", "detail"}
  /\ expired[r]
  /\ Fail(r, "TEMPORARILY_UNAVAILABLE")

-------------------------------------------------------------------------------
(* runScheduledMeetingCalculation and calculateScheduledMeetingWithBasis.  *)

\* The providers are at hand - for the JSON route they are made here - and
\* both participants' access seeds are requested.  When every nearby lookup
\* is cached the turn goes on, otherwise it ends here.
StartRun(r) ==
  /\ Running(r, "run")
  /\ ~expired[r]
  /\ \E source \in Artifacts :
       /\ Kind[r] = "stream" => source = provided[r]
       /\ provided' = [provided EXCEPT ![r] = source]
  /\ Write(r, <<"access-seeds">>)
  /\ \/ Goto(r, "routing") /\ UNCHANGED turn
     \/ Goto(r, "access") /\ turn' = Idle
  /\ UNCHANGED <<slotVars, deadlineVars, clientVars, basis, given, outcome,
                 storeVars>>

\* The factory failed, or its providers have no artifact.  The JSON route tells
\* an unavailable artifact from other failures of the factory; a stream, whose
\* preflight replaced the error, does not.
NoProviders(r) ==
  /\ Running(r, "run")
  /\ ~expired[r]
  /\ \/ /\ Kind[r] = "stream" => provided[r] = NoArtifact
        /\ Fail(r, "PROVIDER_NOT_CONFIGURED")
     \/ /\ Kind[r] = "stream" => provided[r] = "broken"
        /\ Fail(r, "CALCULATION_FAILED")
     \/ /\ Kind[r] = "post"
        /\ Fail(r, "PROVIDER_UNAVAILABLE")

\* Promise.all of the two resolveAccessSeeds settles: both answered, or one
\* failed.  An aborted composite signal lets no answer through.
AccessAnswers(r) ==
  /\ turn = Idle
  /\ pc[r] = "access"
  /\ ~aborted[r]
  /\ turn' = r
  /\ Goto(r, "routing")
  /\ UNCHANGED <<slotVars, deadlineVars, clientVars, workVars, replyVars,
                 storeVars>>

AccessFails(r) ==
  /\ turn = Idle
  /\ pc[r] = "access"
  /\ Fail(r, IF expired[r] THEN "TEMPORARILY_UNAVAILABLE"
                           ELSE "PROVIDER_UNAVAILABLE")

\* The seeds are an ok surface or a no-result one; the scan and the
\* evaluation of the station areas run to completion in this turn.
Route(r) ==
  /\ Running(r, "routing")
  /\ ~expired[r]
  /\ \E status \in {"ok", "no-result"} :
       basis' = [basis EXCEPT ![r] = [body |-> body[r],
                                      artifact |-> provided[r],
                                      status |-> status]]
  /\ Write(r, <<"scheduled-routing">>)
  /\ Goto(r, "evaluating")
  /\ UNCHANGED <<turn, slotVars, deadlineVars, clientVars, provided, given,
                 outcome, storeVars>>

Evaluate(r) ==
  /\ Running(r, "evaluating")
  /\ ~expired[r]
  /\ Write(r, <<"station-area-evaluation", "station-verdict">>)
  /\ Goto(r, "validating")
  /\ UNCHANGED <<turn, slotVars, deadlineVars, clientVars, workVars, outcome,
                 storeVars>>

Validate(r) ==
  /\ Running(r, "validating")
  /\ ~expired[r]
  /\ Write(r, <<"validating-result">>)
  /\ Goto(r, "storing")
  /\ UNCHANGED <<turn, slotVars, deadlineVars, clientVars, workVars, outcome,
                 storeVars>>

\* A phase is reported before its work, so its failure follows the report: the
\* search start lies outside the feed (a RangeError) or the catalog or the scan
\* throws, the evaluation throws, the response fails its validation or the
\* cache throws.
Breaks(r) ==
  /\ ~expired[r]
  /\ \/ Running(r, "evaluating") /\ Fail(r, "INVALID_REQUEST")
     \/ /\ turn = r /\ pc[r] \in {"evaluating", "validating", "storing"}
        /\ Fail(r, "CALCULATION_FAILED")

\* Mutant of StoreBasis: a basis of the same request is reused.
StoreBasisOncePerRequest(r) ==
  /\ Running(r, "storing")
  /\ ~expired[r]
  /\ \E ref \in Refs, kept \in SUBSET DOMAIN store :
       /\ IF \E known \in DOMAIN store : store[known].body = body[r]
          THEN /\ ref \in DOMAIN store /\ store[ref].body = body[r]
               /\ UNCHANGED storeVars
          ELSE StorePut(basis[r], ref, kept)
       /\ given' = [given EXCEPT ![r] = ref]
  /\ Goto(r, "replying")
  /\ UNCHANGED <<turn, slotVars, deadlineVars, clientVars, provided, basis,
                 replyVars>>

\* basisCache.put(calculation.basis)
StoreBasis(r) ==
  /\ Running(r, "storing")
  /\ ~expired[r]
  /\ \E ref \in Refs, kept \in SUBSET DOMAIN store :
       /\ StorePut(basis[r], ref, kept)
       /\ given' = [given EXCEPT ![r] = ref]
  /\ Goto(r, "replying")
  /\ UNCHANGED <<turn, slotVars, deadlineVars, clientVars, provided, basis,
                 replyVars>>

\* The basis is over the cache's byte limit: calculationReference stays null.
StoreRefused(r) ==
  /\ Running(r, "storing")
  /\ ~expired[r]
  /\ Goto(r, "replying")
  /\ UNCHANGED <<turn, slotVars, deadlineVars, clientVars, workVars,
                 replyVars, storeVars>>

\* Mutant of Reply: the reference follows the result.
ReplyReferenceLast(r) ==
  /\ Running(r, "replying")
  /\ ~expired[r]
  /\ Release(r)
  /\ Dispose(r)
  /\ Answer(r, "RESULT")
  /\ Write(r, IF given[r] = NoRef THEN <<"result">> ELSE <<"result", "ref">>)
  /\ UNCHANGED <<clientVars, workVars, storeVars>>

\* The last check() passed: the slot is released, then the result goes out,
\* behind the reference that unlocks its details.
Reply(r) ==
  /\ Running(r, "replying")
  /\ ~expired[r]
  /\ Release(r)
  /\ Dispose(r)
  /\ Answer(r, "RESULT")
  /\ Write(r, IF given[r] = NoRef THEN <<"result">> ELSE <<"ref", "result">>)
  /\ UNCHANGED <<clientVars, workVars, storeVars>>

-------------------------------------------------------------------------------
(* handleStationAreaDetailsPostInner                                       *)

\* The reference header is missing or malformed.
RejectReference(r) ==
  /\ Running(r, "lookup")
  /\ Answer(r, "INVALID_CALCULATION_REF")
  /\ UNCHANGED <<slotVars, deadlineVars, clientVars, workVars, events,
                 storeVars>>

LookUp(r) ==
  /\ Running(r, "lookup")
  /\ \E ref \in Refs : StoreGet(ref)
  /\ Goto(r, "found")
  /\ UNCHANGED <<turn, slotVars, deadlineVars, clientVars, workVars,
                 replyVars>>

\* Mutant of SameRequest: whatever is stored will do.
SameRequestAlways(r) == answer # NoBasis

\* sameScheduledRequest
SameRequest(r) == answer.body = body[r]

\* 410, 409 and 404: nothing stored, a different request, no such marker.
NotAvailable(r) ==
  /\ Running(r, "found")
  /\ \/ answer = NoBasis /\ Answer(r, "CALCULATION_REF_EXPIRED")
     \/ answer # NoBasis /\ ~SameRequest(r) /\ Answer(r, "CALCULATION_REF_MISMATCH")
     \/ answer # NoBasis /\ SameRequest(r) /\ Answer(r, "STATION_AREA_NOT_FOUND")
  /\ UNCHANGED <<slotVars, deadlineVars, clientVars, workVars, events,
                 storeVars>>

\* A no-result surface, or a marker neither participant reaches, is answered
\* without admission, unless the answer fails its validation.
AnswerUnavailable(r) ==
  /\ Running(r, "found")
  /\ answer # NoBasis /\ SameRequest(r)
  /\ \E code \in {"UNAVAILABLE_DETAILS", "DETAIL_FAILED"} : Answer(r, code)
  /\ UNCHANGED <<slotVars, deadlineVars, clientVars, workVars, events,
                 storeVars>>

SelectMarker(r) ==
  /\ Running(r, "found")
  /\ answer # NoBasis /\ SameRequest(r)
  /\ answer.status = "ok"
  /\ Goto(r, "admitDetail")
  /\ UNCHANGED <<turn, slotVars, deadlineVars, clientVars, workVars,
                 replyVars, storeVars>>

AdmitDetail(r) ==
  /\ Running(r, "admitDetail")
  /\ Acquire(r)
  /\ Goto(r, "detail")
  /\ UNCHANGED <<turn, clientVars, workVars, replyVars, storeVars>>

\* The providers' artifact is still the one the surface was computed on, the
\* itineraries are built and validated.
AnswerDetails(r) ==
  /\ Running(r, "detail")
  /\ ~expired[r]
  /\ \E artifact \in Artifacts :
       /\ artifact = answer.artifact
       /\ provided' = [provided EXCEPT ![r] = artifact]
  /\ Release(r)
  /\ Dispose(r)
  /\ Answer(r, "DETAILS")
  /\ UNCHANGED <<clientVars, basis, given, events, storeVars>>

\* Another artifact; a RangeError; an artifact that is unavailable; no artifact,
\* a failing factory, or details that fail their validation.
DetailFails(r) ==
  /\ Running(r, "detail")
  /\ ~expired[r]
  /\ \E code \in {"CALCULATION_REF_MISMATCH", "INVALID_REQUEST",
                   "PROVIDER_UNAVAILABLE", "DETAIL_FAILED"} : Fail(r, code)

-------------------------------------------------------------------------------
(* The environment.                                                        *)

\* The clock passes the deadline, between turns or in the middle of one.
ClockPasses(r) ==
  /\ deadline[r] = "armed"
  /\ ~expired[r]
  /\ expired' = [expired EXCEPT ![r] = TRUE]
  /\ UNCHANGED <<turn, pc, slotVars, deadline, aborted, clientVars, workVars,
                 replyVars, storeVars>>

\* Mutant of TimerFires: a stream relies on its client to cancel.
TimerFiresWithoutStream(r) ==
  /\ turn = Idle
  /\ Kind[r] # "stream"
  /\ deadline[r] = "armed" /\ expired[r] /\ ~aborted[r]
  /\ aborted' = [aborted EXCEPT ![r] = TRUE]
  /\ UNCHANGED <<turn, pc, slotVars, deadline, expired, clientVars, workVars,
                 replyVars, storeVars>>

\* The deadline's timer fires and aborts the composite signal.
TimerFires(r) ==
  /\ turn = Idle
  /\ deadline[r] = "armed" /\ expired[r] /\ ~aborted[r]
  /\ aborted' = [aborted EXCEPT ![r] = TRUE]
  /\ UNCHANGED <<turn, pc, slotVars, deadline, expired, clientVars, workVars,
                 replyVars, storeVars>>

\* The client disconnects: request.signal aborts, and with it the composite
\* signal of an armed deadline; a stream is cancelled.
Disconnect(r) ==
  /\ turn = Idle
  /\ ~gone[r] /\ pc[r] # "done"
  /\ gone' = [gone EXCEPT ![r] = TRUE]
  /\ aborted' = IF deadline[r] = "armed" THEN [aborted EXCEPT ![r] = TRUE]
                                         ELSE aborted
  /\ UNCHANGED <<turn, pc, slotVars, deadline, expired, body, workVars,
                 replyVars, storeVars>>

\* Entries of the basis cache reach the end of their time to live.
Forget ==
  /\ turn = Idle
  /\ \E kept \in SUBSET DOMAIN store : kept # DOMAIN store /\ StoreForget(kept)
  /\ UNCHANGED <<turn, pc, slotVars, deadlineVars, clientVars, workVars,
                 replyVars>>

-------------------------------------------------------------------------------
Calculate(r) ==
  \/ RefuseBusy(r) \/ Admit(r) \/ StopAtAdmission(r) \/ PassAdmission(r)
  \/ Preflight(r) \/ Misconfigured(r) \/ Overdue(r)
  \/ StartRun(r) \/ NoProviders(r) \/ Route(r) \/ Evaluate(r)
  \/ Validate(r) \/ Breaks(r) \/ StoreBasis(r) \/ StoreRefused(r) \/ Reply(r)

Detail(r) ==
  \/ RejectReference(r) \/ LookUp(r) \/ NotAvailable(r) \/ AnswerUnavailable(r)
  \/ SelectMarker(r) \/ AdmitDetail(r) \/ AnswerDetails(r) \/ DetailFails(r)

Environment(r) ==
  \/ ReceiveBody(r) \/ RejectBody(r) \/ AccessAnswers(r) \/ AccessFails(r)
  \/ ClockPasses(r) \/ TimerFires(r) \/ Disconnect(r)

\* Every request has been answered: the server waits for the next one.
Quiet == (\A r \in Requests : pc[r] = "done") /\ UNCHANGED vars

Next ==
  \/ \E r \in Requests : Calculate(r) \/ Detail(r) \/ Environment(r)
  \/ Forget
  \/ Quiet

Spec == Init /\ [][Next]_vars

\* Handler code runs to its next await, the clock advances and timers fire,
\* and the abort of the composite signal rejects a pending access lookup.  An
\* upstream need never answer, a client need never send or disconnect.
Fairness ==
  \A r \in Requests :
    /\ WF_vars(Calculate(r))
    /\ WF_vars(Detail(r))
    /\ WF_vars(ClockPasses(r))
    /\ WF_vars(TimerFires(r))
    /\ WF_vars(aborted[r] /\ AccessFails(r))

FairSpec == Spec /\ Fairness

-------------------------------------------------------------------------------
(* Properties.                                                             *)

\* Every variable has its type (StreamTellsOneStory says what events holds).
TypeOK ==
  /\ turn \in Requests \cup {Idle}
  /\ pc \in [Requests -> Steps]
  /\ body \in [Requests -> Bodies]
  /\ active \in Int
  /\ slot \in [Requests -> SlotStates]
  /\ deadline \in [Requests -> {"none", "armed", "disposed"}]
  /\ expired \in [Requests -> BOOLEAN]
  /\ aborted \in [Requests -> BOOLEAN]
  /\ gone \in [Requests -> BOOLEAN]
  /\ provided \in [Requests -> Sources]
  /\ basis \in [Requests -> Bases \cup {NoBasis}]
  /\ given \in [Requests -> Refs \cup {NoRef}]
  /\ outcome \in [Requests -> Outcomes]
  /\ DOMAIN store \subseteq Refs
  /\ \A ref \in DOMAIN store : store[ref] \in Bases
  /\ answer \in Bases \cup {NoBasis}

Holders == {r \in Requests : slot[r] = "held"}

\* The admission counter counts the requests that hold the slot and there is
\* at most one: no error path releases twice or forgets to release.
OneCalculation ==
  /\ active = Cardinality(Holders)
  /\ Cardinality(Holders) <= 1

\* Between turns the slot is held only by a calculation that waits for its
\* access seeds under an armed deadline: an answered request never keeps it,
\* and a hanging upstream cannot keep it past the deadline.
HeldSlotIsTimed ==
  \A r \in Holders :
    /\ pc[r] # "done"
    /\ deadline[r] = "armed"
    /\ turn = r \/ pc[r] = "access"

\* So a slot taken is a slot that comes back.
OneTimedCalculation == OneCalculation /\ HeldSlotIsTimed

\* A disconnect aborts the calculation: no basis is stored for a client that
\* left while the calculation waited.  Nothing after the access lookup looks
\* at the abort signal; this holds because the rest runs in one turn.
DisconnectedStoresNothing ==
  [][\A r \in Requests : given'[r] # given[r] => ~gone[r]]_vars

\* given[r] names the surface of r on the artifact of its providers.
NamesOwnSurface(r) ==
  LET named == Lookup(given[r]) IN
  /\ named # NoBasis
  /\ named.body = body[r]
  /\ named.artifact = provided[r]

\* A calculation reference handed out with a result names the surface of that
\* very request, on the artifact its providers returned, when it is sent.
ReferenceNamesOwnSurface ==
  [][\A r \in Requests :
       outcome'[r] = "RESULT" /\ outcome[r] # "RESULT" /\ given[r] # NoRef
       => NamesOwnSurface(r)]_vars

\* Details are answered only from a surface of the same request, and
\* itineraries only on the artifact that surface was computed on and only for
\* a surface with a result, whatever reference the client sends, even one
\* that was forgotten and handed out again.
DetailsMatchRequest ==
  [][\A r \in Requests :
       outcome[r] = "none" =>
       /\ outcome'[r] \in {"DETAILS", "UNAVAILABLE_DETAILS"}
            => answer # NoBasis /\ answer.body = body[r]
       /\ outcome'[r] = "DETAILS"
            => /\ answer.status = "ok"
               /\ provided'[r] = answer.artifact]_vars

Progress == <<"access-seeds", "scheduled-routing", "station-area-evaluation",
              "station-verdict", "validating-result">>

\* A stream tells one story: phases in order, then one terminal event, a
\* result only after every phase with its reference directly before it, an
\* error only for a failed run, and nothing after it.
StreamTellsOneStory ==
  \A r \in Requests :
    \E phases \in 0 .. Len(Progress),
       ending \in {<<>>, <<"error">>, <<"result">>, <<"ref", "result">>} :
      /\ events[r] = SubSeq(Progress, 1, phases) \o ending
      /\ ending \in {<<"result">>, <<"ref", "result">>}
           => outcome[r] = "RESULT" /\ phases = Len(Progress)
      /\ ending = <<"error">> => outcome[r] \notin {"none", "RESULT"}
      /\ outcome[r] = "RESULT" /\ Kind[r] = "stream" /\ ~gone[r]
           => ending # <<>>

===============================================================================
