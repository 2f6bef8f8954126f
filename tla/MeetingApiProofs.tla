---------------------------- MODULE MeetingApiProofs ----------------------------
(***************************************************************************)
(* Proofs about MeetingApi, for any set of requests, bodies, artifacts and *)
(* references.                                                             *)
(***************************************************************************)
EXTENDS MeetingApi, FiniteSetTheorems, SequenceTheorems, TLAPS

-------------------------------------------------------------------------------
(* The inductive invariant.                                                *)

\* OneCalculation without cardinalities: the counter is 0 and nobody holds the
\* slot, or it is 1 and exactly one request does.
Admission ==
  \/ active = 0 /\ \A r \in Requests : slot[r] # "held"
  \/ /\ active = 1
     /\ \E h \in Requests : /\ slot[h] = "held"
                            /\ \A r \in Requests : slot[r] = "held" => r = h

\* A handler that has not asked for the slot yet does not hold it.
NotYetAdmitted ==
  \A r \in Requests :
    pc[r] \in {"new", "lookup", "found", "admit", "admitDetail"}
      => slot[r] = "none"

\* Only the access lookup waits outside a turn.
StepsOfTurn == (RunSteps \ {"access"}) \cup
               {"admit", "admitted", "preflight", "lookup", "found",
                "admitDetail", "detail"}

InTurn == \A r \in Requests : pc[r] \in StepsOfTurn => turn = r

\* A calculation past the access lookup was connected when its turn began, and
\* one that waits has an aborted signal if its client left.
Connected ==
  \A r \in Requests :
    /\ pc[r] \in RunSteps \cup {"admitted", "preflight"} => slot[r] = "held"
    /\ pc[r] \in (RunSteps \ {"access"}) \cup {"preflight"} => ~gone[r]
    /\ pc[r] = "access" /\ gone[r] => aborted[r]

\* From the routing on, the providers at hand are those of an artifact, the
\* surface is this request's own, and a stored surface is what the handed out
\* reference names: nothing is forgotten before the turn ends.
OwnSurface ==
  \A r \in Requests :
    /\ pc[r] \in {"access", "routing", "evaluating", "validating", "storing",
                  "replying"} => provided[r] \in Artifacts
    /\ pc[r] \in {"evaluating", "validating", "storing", "replying"}
         => /\ basis[r] \in Bases
            /\ basis[r].body = body[r]
            /\ basis[r].artifact = provided[r]
    /\ pc[r] \notin {"replying", "done"} => given[r] = NoRef
    /\ pc[r] = "replying" /\ given[r] # NoRef
         => given[r] \in DOMAIN store /\ store[given[r]] = basis[r]

\* A details handler that passed sameScheduledRequest and the choice of the
\* marker still has the surface it looked up.
SelectedSurface ==
  \A r \in Requests :
    pc[r] \in {"admitDetail", "detail"}
      => answer # NoBasis /\ answer.body = body[r] /\ answer.status = "ok"

IInv ==
  /\ TypeOK
  /\ Admission
  /\ NotYetAdmitted
  /\ InTurn
  /\ HeldSlotIsTimed
  /\ Connected
  /\ OwnSurface
  /\ SelectedSurface

-------------------------------------------------------------------------------
(* Every action preserves it.                                              *)

LEMMA InitIInv == Init => IInv
BY MeetingApiAssumption
   DEF Init, StoreInit, IInv, TypeOK, Admission, NotYetAdmitted, InTurn, HeldSlotIsTimed,
        Holders, Connected, OwnSurface, SelectedSurface, SameRequest, Steps, RunSteps, StepsOfTurn, SlotStates,
        Sources, Outcomes, Lookup, slotVars, deadlineVars, clientVars, workVars, replyVars, storeVars

\* The steps of the two calculation handlers.
LEMMA CalculateKeepsIInv ==
  ASSUME IInv, NEW r \in Requests, Calculate(r)
  PROVE  IInv'
<1> USE MeetingApiAssumption
    DEF IInv, TypeOK, Admission, NotYetAdmitted, InTurn, HeldSlotIsTimed,
        Holders, Connected, OwnSurface, SelectedSurface, SameRequest, Steps, RunSteps, StepsOfTurn, SlotStates,
        Sources, Outcomes, Lookup, slotVars, deadlineVars, clientVars, workVars, replyVars, storeVars
<1>1. CASE RefuseBusy(r)
  BY <1>1 DEF RefuseBusy, Running, Goto, Answer
<1>2. CASE Admit(r)
  BY <1>2 DEF Admit, Running, Goto, Acquire
<1>3. CASE StopAtAdmission(r)
  BY <1>3 DEF StopAtAdmission, Running, Goto, Release, Dispose, Answer, Fail
<1>4. CASE PassAdmission(r)
  BY <1>4 DEF PassAdmission, Running, Goto
<1>5. CASE Preflight(r)
  BY <1>5 DEF Preflight, Running, Goto
<1>6. CASE Misconfigured(r)
  BY <1>6 DEF Misconfigured, Running, Goto, Release, Dispose, Answer, Fail
<1>7. CASE Overdue(r)
  BY <1>7 DEF Overdue, Goto, Release, Dispose, Answer, Fail
<1>8. CASE StartRun(r)
  BY <1>8 DEF StartRun, Running, Goto
<1>9. CASE NoProviders(r)
  <2>1. PICK code \in Outcomes :
          Fail(r, code) /\ Running(r, "run")
    BY <1>9 DEF NoProviders, Outcomes
  <2> QED
    BY <2>1 DEF Running, Goto, Release, Dispose, Answer, Fail
<1>10. CASE Route(r)
  BY <1>10 DEF Route, Running, Goto
<1>11. CASE Evaluate(r)
  BY <1>11 DEF Evaluate, Running, Goto
<1>12. CASE Validate(r)
  BY <1>12 DEF Validate, Running, Goto
<1>13. CASE Breaks(r)
  <2>1. PICK code \in Outcomes :
          /\ Fail(r, code)
          /\ turn = r
          /\ pc[r] \in {"evaluating", "validating", "storing"}
    BY <1>13 DEF Breaks, Running, Outcomes
  <2> QED
    BY <2>1 DEF Goto, Release, Dispose, Answer, Fail
<1>14. CASE StoreBasis(r)
  BY <1>14 DEF StoreBasis, Running, Goto, StorePut
<1>15. CASE StoreRefused(r)
  BY <1>15 DEF StoreRefused, Running, Goto
<1>16. CASE Reply(r)
  <2> USE DEF Reply, Running, Goto, Release, Dispose, Answer
  <2>1. TypeOK'
    BY <1>16
  <2>2. Admission' /\ NotYetAdmitted'
    BY <1>16
  <2>3. InTurn' /\ HeldSlotIsTimed'
    BY <1>16
  <2>4. Connected'
    BY <1>16
  <2>5. OwnSurface' /\ SelectedSurface'
    BY <1>16
  <2> QED
    BY <2>1, <2>2, <2>3, <2>4, <2>5
<1> QED
  BY <1>1, <1>2, <1>3, <1>4, <1>5, <1>6, <1>7, <1>8, <1>9, <1>10, <1>11, <1>12,
     <1>13, <1>14, <1>15, <1>16 DEF Calculate

\* The steps of the details handler.
LEMMA DetailKeepsIInv ==
  ASSUME IInv, NEW r \in Requests, Detail(r)
  PROVE  IInv'
<1> USE MeetingApiAssumption
    DEF IInv, TypeOK, Admission, NotYetAdmitted, InTurn, HeldSlotIsTimed,
        Holders, Connected, OwnSurface, SelectedSurface, SameRequest, Steps, RunSteps, StepsOfTurn, SlotStates,
        Sources, Outcomes, Lookup, slotVars, deadlineVars, clientVars, workVars, replyVars, storeVars
<1>1. CASE RejectReference(r)
  BY <1>1 DEF RejectReference, Running, Goto, Answer
<1>2. CASE LookUp(r)
  BY <1>2 DEF LookUp, Running, Goto, StoreGet
<1>3. CASE NotAvailable(r)
  <2>1. PICK code \in {"CALCULATION_REF_EXPIRED", "CALCULATION_REF_MISMATCH",
                       "STATION_AREA_NOT_FOUND"} : Answer(r, code)
    BY <1>3 DEF NotAvailable
  <2> QED
    BY <1>3, <2>1 DEF NotAvailable, Running, Goto, Answer
<1>4. CASE AnswerUnavailable(r)
  BY <1>4 DEF AnswerUnavailable, Running, Goto, Answer
<1>5. CASE SelectMarker(r)
  BY <1>5 DEF SelectMarker, Running, Goto
<1>6. CASE AdmitDetail(r)
  BY <1>6 DEF AdmitDetail, Running, Goto, Acquire
<1>7. CASE AnswerDetails(r)
  BY <1>7 DEF AnswerDetails, Running, Goto, Release, Dispose, Answer
<1>8. CASE DetailFails(r)
  BY <1>8 DEF DetailFails, Running, Goto, Release, Dispose, Answer, Fail
<1> QED
  BY <1>1, <1>2, <1>3, <1>4, <1>5, <1>6, <1>7, <1>8 DEF Detail

\* Bodies, upstream answers, the clock, timers and disconnects.
LEMMA EnvironmentKeepsIInv ==
  ASSUME IInv, NEW r \in Requests, Environment(r)
  PROVE  IInv'
<1> USE MeetingApiAssumption
    DEF IInv, TypeOK, Admission, NotYetAdmitted, InTurn, HeldSlotIsTimed,
        Holders, Connected, OwnSurface, SelectedSurface, SameRequest, Steps, RunSteps, StepsOfTurn, SlotStates,
        Sources, Outcomes, Lookup, slotVars, deadlineVars, clientVars, workVars, replyVars, storeVars
<1>1. CASE ReceiveBody(r)
  BY <1>1 DEF ReceiveBody, Goto
<1>2. CASE RejectBody(r)
  BY <1>2 DEF RejectBody, Goto, Answer
<1>3. CASE AccessAnswers(r)
  BY <1>3 DEF AccessAnswers, Goto
<1>4. CASE AccessFails(r)
  BY <1>4 DEF AccessFails, Goto, Release, Dispose, Answer, Fail
<1>5. CASE ClockPasses(r)
  BY <1>5 DEF ClockPasses
<1>6. CASE TimerFires(r)
  BY <1>6 DEF TimerFires
<1>7. CASE Disconnect(r)
  BY <1>7 DEF Disconnect
<1> QED
  BY <1>1, <1>2, <1>3, <1>4, <1>5, <1>6, <1>7 DEF Environment

\* Entries of the store expire only between turns, so that no reference that a
\* running handler is about to hand out is lost.
LEMMA ForgetKeepsIInv ==
  ASSUME IInv, Forget
  PROVE  IInv'
BY MeetingApiAssumption
   DEF Forget, StoreForget, Restrict, IInv, TypeOK, Admission, NotYetAdmitted, InTurn, HeldSlotIsTimed,
        Holders, Connected, OwnSurface, SelectedSurface, SameRequest, Steps, RunSteps, StepsOfTurn, SlotStates,
        Sources, Outcomes, Lookup, slotVars, deadlineVars, clientVars, workVars, replyVars, storeVars

LEMMA StutterKeepsIInv ==
  ASSUME IInv, UNCHANGED vars
  PROVE  IInv'
BY DEF vars, IInv, TypeOK, Admission, NotYetAdmitted, InTurn, HeldSlotIsTimed,
        Holders, Connected, OwnSurface, SelectedSurface, SameRequest, Steps, RunSteps, StepsOfTurn, SlotStates,
        Sources, Outcomes, Lookup, slotVars, deadlineVars, clientVars, workVars, replyVars, storeVars

THEOREM Invariance == Spec => []IInv
<1>1. IInv /\ [Next]_vars => IInv'
  <2> SUFFICES ASSUME IInv, [Next]_vars
               PROVE  IInv'
    OBVIOUS
  <2>1. CASE Next
    BY <2>1, CalculateKeepsIInv, DetailKeepsIInv, EnvironmentKeepsIInv,
       ForgetKeepsIInv, StutterKeepsIInv
       DEF Next, Quiet
  <2>2. CASE UNCHANGED vars
    BY <2>2, StutterKeepsIInv
  <2> QED
    BY <2>1, <2>2
<1> QED
  BY InitIInv, <1>1, PTL DEF Spec

-------------------------------------------------------------------------------
(* What follows from it.                                                   *)

\* Every reachable state is well typed.
THEOREM TypeCorrect == Spec => []TypeOK
<1>1. IInv => TypeOK
  BY DEF IInv
<1> QED
  BY Invariance, <1>1, PTL

\* At most one request holds the admission slot, the counter knows it, and
\* between turns the slot is held only across the access lookup, under an armed
\* deadline.
THEOREM AtMostOneCalculation == Spec => []OneTimedCalculation
<1>1. Admission => OneCalculation
  <2> SUFFICES ASSUME Admission
               PROVE  OneCalculation
    OBVIOUS
  <2>1. CASE active = 0 /\ \A r \in Requests : slot[r] # "held"
    <3>1. Holders = {}
      BY <2>1 DEF Holders
    <3>2. Cardinality(Holders) = 0
      BY <3>1, FS_EmptySet
    <3> QED
      BY <2>1, <3>2 DEF OneCalculation
  <2>2. CASE /\ active = 1
             /\ \E h \in Requests :
                  /\ slot[h] = "held"
                  /\ \A r \in Requests : slot[r] = "held" => r = h
    <3>1. PICK h \in Requests :
            slot[h] = "held" /\ \A r \in Requests : slot[r] = "held" => r = h
      BY <2>2
    <3>2. Holders = {h}
      BY <3>1 DEF Holders
    <3>3. Cardinality(Holders) = 1
      BY <3>2, FS_Singleton
    <3> QED
      BY <2>2, <3>3 DEF OneCalculation
  <2> QED
    BY <2>1, <2>2 DEF Admission
<1>2. IInv => OneTimedCalculation
  BY <1>1 DEF IInv, OneTimedCalculation
<1> QED
  BY Invariance, <1>2, PTL

\* No basis is stored for a client that left: a calculation that reaches its
\* put has not been disconnected when its turn began, and nothing interrupts
\* the turn.
THEOREM NothingStoredForTheGone == Spec => DisconnectedStoresNothing
<1> DEFINE Kept == \A r \in Requests : given'[r] # given[r] => ~gone[r]
<1>1. ASSUME IInv, NEW r \in Requests, Calculate(r)
      PROVE  Kept
  <2> USE DEF workVars
  <2>1. CASE StoreBasis(r)
    <3>1. ~gone[r]
      BY <1>1, <2>1 DEF StoreBasis, Running, IInv, Connected, RunSteps
    <3>2. \A k \in Requests \ {r} : given'[k] = given[k]
      BY <1>1, <2>1 DEF StoreBasis, IInv, TypeOK
    <3> QED
      BY <3>1, <3>2
  <2>2. CASE ~StoreBasis(r)
    BY <1>1, <2>2
       DEF Calculate, RefuseBusy, Admit, StopAtAdmission, PassAdmission,
           Preflight, Misconfigured, Overdue, StartRun, NoProviders, Route,
           Evaluate, Validate, Breaks, StoreRefused, Reply, Fail
  <2> QED
    BY <2>1, <2>2
<1>2. ASSUME IInv, NEW r \in Requests, Detail(r) \/ Environment(r)
      PROVE  UNCHANGED given
  BY <1>2
     DEF workVars, Detail, RejectReference, LookUp, NotAvailable,
         AnswerUnavailable, SelectMarker, AdmitDetail, AnswerDetails,
         DetailFails, Environment, ReceiveBody, RejectBody, AccessAnswers,
         AccessFails, ClockPasses, TimerFires, Disconnect, Fail
<1>3. ASSUME Forget \/ Quiet
      PROVE  UNCHANGED given
  BY <1>3 DEF Forget, Quiet, workVars, vars
<1>4. IInv /\ [Next]_vars => [Kept]_vars
  BY <1>1, <1>2, <1>3 DEF Next
<1> QED
  BY Invariance, <1>4, PTL DEF Spec, DisconnectedStoresNothing

\* A reference that goes out with a result names, at that moment, the surface
\* of that very request on the artifact its providers returned.
THEOREM ReferencesAreOwn == Spec => ReferenceNamesOwnSurface
<1> DEFINE Sound ==
      \A r \in Requests :
        outcome'[r] = "RESULT" /\ outcome[r] # "RESULT" /\ given[r] # NoRef
        => NamesOwnSurface(r)
<1>1. ASSUME IInv, NEW r \in Requests, Reply(r)
      PROVE  Sound
  <2>1. \A k \in Requests \ {r} : outcome'[k] = outcome[k]
    BY <1>1 DEF Reply, Answer, IInv, TypeOK
  <2>2. given[r] # NoRef => NamesOwnSurface(r)
    BY <1>1, MeetingApiAssumption, BasisStoreAssumption
       DEF IInv, OwnSurface, Reply, Running, Lookup, NamesOwnSurface
  <2> QED
    BY <2>1, <2>2
<1>2. ASSUME IInv, NEW r \in Requests, Calculate(r), ~Reply(r)
      PROVE  Sound
  BY <1>2
     DEF Calculate, RefuseBusy, Admit, StopAtAdmission, PassAdmission,
         Preflight, Misconfigured, Overdue, StartRun, NoProviders, Route,
         Evaluate, Validate, Breaks, StoreBasis, StoreRefused, Fail, Answer,
         replyVars, IInv, TypeOK
<1>3. ASSUME IInv, NEW r \in Requests, Detail(r)
      PROVE  Sound
  BY <1>3
     DEF Detail, RejectReference, LookUp, NotAvailable, AnswerUnavailable,
         SelectMarker, AdmitDetail, AnswerDetails, DetailFails, Fail, Answer,
         replyVars, IInv, TypeOK
<1>4. ASSUME IInv, NEW r \in Requests, Environment(r)
      PROVE  Sound
  BY <1>4
     DEF Environment, ReceiveBody, RejectBody, AccessAnswers, AccessFails,
         ClockPasses, TimerFires, Disconnect, Fail, Answer, replyVars,
         IInv, TypeOK
<1>5. ASSUME Forget \/ Quiet
      PROVE  Sound
  BY <1>5 DEF Forget, Quiet, replyVars, vars
<1>6. IInv /\ [Next]_vars => [Sound]_vars
  BY <1>1, <1>2, <1>3, <1>4, <1>5 DEF Next
<1> QED
  BY Invariance, <1>6, PTL DEF Spec, ReferenceNamesOwnSurface

\* Details are answered only from a surface of the same request, itineraries
\* only on the artifact it was computed on.
THEOREM DetailsAreOwn == Spec => DetailsMatchRequest
<1> DEFINE Matches ==
      \A r \in Requests :
        outcome[r] = "none" =>
        /\ outcome'[r] \in {"DETAILS", "UNAVAILABLE_DETAILS"}
             => answer # NoBasis /\ answer.body = body[r]
        /\ outcome'[r] = "DETAILS"
             => /\ answer.status = "ok"
                /\ provided'[r] = answer.artifact
<1>1. ASSUME IInv, NEW r \in Requests, Calculate(r)
      PROVE  Matches
  BY <1>1
     DEF Calculate, RefuseBusy, Admit, StopAtAdmission, PassAdmission,
         Preflight, Misconfigured, Overdue, StartRun, NoProviders, Route,
         Evaluate, Validate, Breaks, StoreBasis, StoreRefused, Reply, Fail,
         Answer, replyVars, IInv, TypeOK
<1>2. ASSUME IInv, NEW r \in Requests, Detail(r)
      PROVE  Matches
  <2>1. \A k \in Requests \ {r} : outcome'[k] = outcome[k]
    BY <1>2
       DEF Detail, RejectReference, LookUp, NotAvailable, AnswerUnavailable,
           SelectMarker, AdmitDetail, AnswerDetails, DetailFails, Fail, Answer,
           replyVars, IInv, TypeOK
  <2>2. CASE AnswerDetails(r)
    <3>1. answer # NoBasis /\ answer.body = body[r] /\ answer.status = "ok"
      BY <1>2, <2>2 DEF AnswerDetails, Running, IInv, SelectedSurface
    <3>2. PICK artifact \in Artifacts :
            /\ artifact = answer.artifact
            /\ provided' = [provided EXCEPT ![r] = artifact]
      BY <2>2 DEF AnswerDetails
    <3>3. provided'[r] = answer.artifact
      BY <1>2, <3>2 DEF IInv, TypeOK
    <3>4. outcome'[r] = "DETAILS"
      BY <1>2, <2>2 DEF AnswerDetails, Answer, IInv, TypeOK
    <3> QED
      BY <2>1, <3>1, <3>3, <3>4
  <2>3. CASE AnswerUnavailable(r)
    <3>1. answer # NoBasis /\ answer.body = body[r]
      BY <2>3 DEF AnswerUnavailable, SameRequest
    <3>2. outcome'[r] # "DETAILS"
      BY <1>2, <2>3 DEF AnswerUnavailable, Answer, IInv, TypeOK
    <3> QED
      BY <2>1, <3>1, <3>2
  <2>4. CASE ~AnswerDetails(r) /\ ~AnswerUnavailable(r)
    BY <1>2, <2>4
       DEF Detail, RejectReference, LookUp, NotAvailable, SelectMarker,
           AdmitDetail, DetailFails, Fail, Answer, replyVars, IInv, TypeOK
  <2> QED
    BY <2>2, <2>3, <2>4
<1>3. ASSUME IInv, NEW r \in Requests, Environment(r)
      PROVE  Matches
  BY <1>3
     DEF Environment, ReceiveBody, RejectBody, AccessAnswers, AccessFails,
         ClockPasses, TimerFires, Disconnect, Fail, Answer, replyVars,
         IInv, TypeOK
<1>4. ASSUME Forget \/ Quiet
      PROVE  Matches
  BY <1>4 DEF Forget, Quiet, replyVars, vars
<1>5. IInv /\ [Next]_vars => [Matches]_vars
  BY <1>1, <1>2, <1>3, <1>4 DEF Next
<1> QED
  BY Invariance, <1>5, PTL DEF Spec, DetailsMatchRequest

-------------------------------------------------------------------------------
(* The story of a stream.                                                  *)

\* What can be heard.
Events == {"access-seeds", "scheduled-routing", "station-area-evaluation",
           "station-verdict", "validating-result", "error", "ref", "result"}

\* The first k phases of a run, and how many of them a handler has reported
\* that stands at a step.
Phases(k) == SubSeq(Progress, 1, k)

Reported(step) ==
  IF step \in {"access", "routing"} THEN 1
  ELSE IF step = "evaluating" THEN 2
  ELSE IF step = "validating" THEN 4
  ELSE IF step \in {"storing", "replying"} THEN 5
  ELSE 0

Endings == {<<>>, <<"error">>, <<"result">>, <<"ref", "result">>}

\* StreamTellsOneStory, of one request.
Told(r) ==
  \E phases \in 0 .. Len(Progress), ending \in Endings :
    /\ events[r] = Phases(phases) \o ending
    /\ ending \in {<<"result">>, <<"ref", "result">>}
         => outcome[r] = "RESULT" /\ phases = Len(Progress)
    /\ ending = <<"error">> => outcome[r] \notin {"none", "RESULT"}
    /\ outcome[r] = "RESULT" /\ Kind[r] = "stream" /\ ~gone[r]
         => ending # <<>>

\* Only a stream hears anything, and before its end it has heard exactly the
\* phases of the steps behind it.
Story(r) ==
  /\ pc[r] # "done" =>
       /\ outcome[r] = "none"
       /\ events[r] = IF Kind[r] = "stream" THEN Phases(Reported(pc[r])) ELSE <<>>
  /\ pc[r] = "done" => Told(r)

StoryInv ==
  /\ events \in [Requests -> Seq(Events)]
  /\ \A r \in Requests : Story(r)

\* Nothing appended.
LEMMA NothingMore ==
  ASSUME NEW S, NEW s \in Seq(S)
  PROVE  s \o <<>> = s
BY ConcatEmptySeq

\* Two sequences of one element.
LEMMA Pair ==
  ASSUME NEW S, NEW a \in S, NEW b \in S
  PROVE  <<a>> \o <<b>> = <<a, b>> /\ <<a, b>> \in Seq(S)
<1> DEFINE s == <<a>> \o <<b>>
           t == <<a, b>>
<1>1. s \in Seq(S) /\ Len(s) = 2 /\ s[1] = a /\ s[2] = b
  OBVIOUS
<1>2. t \in Seq(S) /\ Len(t) = 2 /\ t[1] = a /\ t[2] = b
  OBVIOUS
<1> HIDE DEF s, t
<1>3. s = t
  BY <1>1, <1>2, SeqEqual
<1> QED BY <1>2, <1>3 DEF s, t

\* The beginning of a sequence.
LEMMA BeginningOf ==
  ASSUME NEW S, NEW s \in Seq(S), NEW n \in 0 .. Len(s)
  PROVE  SubSeq(s, 1, n) \in Seq(S)
<1>1. n \in Int /\ 1 \in Int /\ \A i \in 1 .. n : s[i] \in S
  OBVIOUS
<1> QED BY <1>1, SubSeqProperties

\* The phases, one after the other.
LEMMA PhasesGrow ==
  /\ Len(Progress) = 5
  /\ \A k \in 0 .. 5 : Phases(k) \in Seq(Events) /\ Phases(k) \o <<>> = Phases(k)
  /\ Phases(0) = <<>>
  /\ Phases(0) \o <<"access-seeds">> = Phases(1)
  /\ Phases(1) \o <<"scheduled-routing">> = Phases(2)
  /\ Phases(2) \o <<"station-area-evaluation", "station-verdict">> = Phases(4)
  /\ Phases(4) \o <<"validating-result">> = Phases(5)
<1>1. /\ Progress \in Seq(Events) /\ Len(Progress) = 5
      /\ Progress[1] = "access-seeds" /\ Progress[2] = "scheduled-routing"
      /\ Progress[3] = "station-area-evaluation"
      /\ Progress[4] = "station-verdict"
      /\ Progress[5] = "validating-result"
  <2>1. /\ Len(Progress) = 5
        /\ Progress[1] = "access-seeds" /\ Progress[2] = "scheduled-routing"
        /\ Progress[3] = "station-area-evaluation"
        /\ Progress[4] = "station-verdict"
        /\ Progress[5] = "validating-result"
    BY DEF Progress
  <2>2. Progress \in Seq(Events)
    BY DEF Progress, Events
  <2> QED BY <2>1, <2>2
<1> HIDE DEF Progress
<1>2. ASSUME NEW k \in 0 .. 5
      PROVE  Phases(k) \in Seq(Events)
  <2>1. k \in 0 .. Len(Progress)
    BY <1>1
  <2> QED BY <1>1, <2>1, BeginningOf DEF Phases
<1>3. Phases(0) = <<>>
  BY SubSeqEmpty DEF Phases
<1>4. ASSUME NEW k \in 1 .. 5
      PROVE  Phases(k) = Phases(k - 1) \o <<Progress[k]>>
  BY <1>1, SubSeqRecursiveSecond DEF Phases
<1>5. Phases(2) \o <<"station-area-evaluation", "station-verdict">> = Phases(4)
  <2>1. Phases(4) = (Phases(2) \o <<Progress[3]>>) \o <<Progress[4]>>
    BY <1>4
  <2>2. Phases(2) \in Seq(Events)
    BY <1>2
  <2> DEFINE third == <<"station-area-evaluation">>
             fourth == <<"station-verdict">>
  <2>3. third \in Seq(Events) /\ fourth \in Seq(Events)
    BY DEF Events
  <2>4. third \o fourth = <<"station-area-evaluation", "station-verdict">>
    <3>1. /\ "station-area-evaluation" \in Events
          /\ "station-verdict" \in Events
      BY DEF Events
    <3> QED BY <3>1, Pair
  <2>5. Phases(4) = (Phases(2) \o third) \o fourth
    BY <1>1, <2>1
  <2>6. \A s \in Seq(Events) : (s \o third) \o fourth = s \o (third \o fourth)
    <3> HIDE DEF third, fourth
    <3> QED BY <2>3, ConcatAssociative
  <2> HIDE DEF Phases, third, fourth
  <2> QED BY <2>2, <2>4, <2>5, <2>6
<1> HIDE DEF Phases
<1>6. ASSUME NEW k \in 0 .. 5
      PROVE  Phases(k) \o <<>> = Phases(k)
  <2>1. Phases(k) \in Seq(Events)
    BY <1>2
  <2> HIDE DEF Phases
  <2> QED BY <2>1, NothingMore
<1>7. /\ Phases(1) = Phases(1 - 1) \o <<"access-seeds">>
      /\ Phases(2) = Phases(2 - 1) \o <<"scheduled-routing">>
      /\ Phases(5) = Phases(5 - 1) \o <<"validating-result">>
  <2>1. 1 \in 1 .. 5 /\ 2 \in 1 .. 5 /\ 5 \in 1 .. 5
    OBVIOUS
  <2> QED BY <1>1, <1>4, <2>1
<1>8. 1 - 1 = 0 /\ 2 - 1 = 1 /\ 5 - 1 = 4
  OBVIOUS
<1>9. /\ Phases(1) = Phases(0) \o <<"access-seeds">>
      /\ Phases(2) = Phases(1) \o <<"scheduled-routing">>
      /\ Phases(5) = Phases(4) \o <<"validating-result">>
  BY <1>7, <1>8
<1> QED BY <1>1, <1>2, <1>3, <1>5, <1>6, <1>9

\* A step that writes for one request and leaves the others alone.
LEMMA OthersKeepStory ==
  ASSUME StoryInv, TypeOK, NEW r \in Requests, NEW sent \in Seq(Events),
         Write(r, sent), UNCHANGED gone,
         \A k \in Requests \ {r} : pc'[k] = pc[k] /\ outcome'[k] = outcome[k],
         Story(r)'
  PROVE  StoryInv'
<1>1. /\ events' \in [Requests -> Seq(Events)]
      /\ \A k \in Requests \ {r} : events'[k] = events[k]
  BY ConcatProperties DEF StoryInv, Write
<1>2. ASSUME NEW k \in Requests \ {r}
      PROVE  Story(k)'
  <2>1. /\ pc'[k] = pc[k] /\ outcome'[k] = outcome[k]
        /\ gone'[k] = gone[k] /\ events'[k] = events[k]
    BY <1>1
  <2>2. Story(k)
    BY DEF StoryInv
  <2>3. Told(k) => Told(k)'
    BY <2>1 DEF Told
  <2> QED BY <2>1, <2>2, <2>3 DEF Story
<1> QED BY <1>1, <1>2 DEF StoryInv

\* A handler fails: what it has told ends here, with an error if it is heard.
LEMMA FailKeepsStory ==
  ASSUME StoryInv, TypeOK, NEW r \in Requests, pc[r] # "done",
         NEW code \in Outcomes \ {"none", "RESULT"}, Fail(r, code)
  PROVE  StoryInv'
<1>1. PICK sent \in {<<>>, <<"error">>} : Write(r, sent)
  BY DEF Fail
<1>2. /\ gone' = gone /\ pc'[r] = "done" /\ outcome'[r] = code
      /\ \A k \in Requests \ {r} : pc'[k] = pc[k] /\ outcome'[k] = outcome[k]
  BY DEF Fail, Answer, Goto, clientVars, TypeOK
<1>3. sent \in Seq(Events)
  <2>1. <<>> \in Seq(Events) /\ <<"error">> \in Seq(Events)
    BY DEF Events
  <2> QED BY <2>1
<1>4. Reported(pc[r]) \in 0 .. 5
  BY DEF Reported
<1>5. PICK k \in 0 .. 5 : events[r] = Phases(k)
  <2>1. /\ Story(r) /\ 0 \in 0 .. 5
        /\ Phases(0) = <<>>
    BY PhasesGrow DEF StoryInv
  <2> QED BY <1>4, <2>1 DEF Story
<1>6. PICK ending \in {<<>>, <<"error">>} : events'[r] = Phases(k) \o ending
  BY <1>1, <1>5, PhasesGrow DEF Write, StoryInv
<1>7. Told(r)'
  <2>1. k \in 0 .. Len(Progress) /\ ending \in Endings
    BY PhasesGrow DEF Endings
  <2>2. ending \notin {<<"result">>, <<"ref", "result">>}
    OBVIOUS
  <2> QED BY <1>2, <1>6, <2>1, <2>2 DEF Told
<1>8. Story(r)'
  BY <1>2, <1>7 DEF Story
<1> QED BY <1>1, <1>2, <1>3, <1>8, OthersKeepStory

\* A step of a run that succeeds reports the next phases, if anybody listens.
LEMMA PhaseKeepsStory ==
  ASSUME StoryInv, TypeOK, NEW r \in Requests, NEW step \in Steps \ {"done"},
         pc[r] # "done", Goto(r, step), UNCHANGED <<outcome, gone>>,
         NEW sent \in Seq(Events), Write(r, sent),
         Kind[r] = "stream" => ~gone[r],
         Kind[r] = "stream" =>
           Phases(Reported(pc[r])) \o sent = Phases(Reported(step))
  PROVE  StoryInv'
<1>1. /\ pc'[r] = step /\ outcome' = outcome /\ gone' = gone
      /\ \A k \in Requests \ {r} : pc'[k] = pc[k]
  BY DEF Goto, TypeOK
<1>2. /\ outcome[r] = "none"
      /\ events[r] = IF Kind[r] = "stream" THEN Phases(Reported(pc[r])) ELSE <<>>
  BY DEF StoryInv, Story
<1>3. events'[r] = IF Kind[r] = "stream" THEN Phases(Reported(step)) ELSE <<>>
  BY <1>2 DEF Write, StoryInv
<1>4. Story(r)'
  BY <1>1, <1>2, <1>3 DEF Story
<1> QED BY <1>1, <1>4, OthersKeepStory

\* A step that reports nothing, to a place where nothing more has been reported.
LEMMA SilentKeepsStory ==
  ASSUME StoryInv, TypeOK, NEW r \in Requests, NEW step \in Steps \ {"done"},
         pc[r] # "done", Goto(r, step), UNCHANGED <<outcome, events, gone>>,
         Reported(pc[r]) = Reported(step)
  PROVE  StoryInv'
<1>1. /\ pc'[r] = step /\ outcome' = outcome /\ gone' = gone
      /\ events' = events
      /\ \A k \in Requests \ {r} : pc'[k] = pc[k]
  BY DEF Goto, TypeOK
<1>2. \A k \in Requests : Told(k) => Told(k)'
  BY <1>1 DEF Told
<1> QED BY <1>1, <1>2 DEF StoryInv, Story

\* A request is answered without an event: one that has heard nothing yet.
LEMMA AnswerKeepsStory ==
  ASSUME StoryInv, TypeOK, NEW r \in Requests, pc[r] # "done",
         Reported(pc[r]) = 0, NEW code \in Outcomes \ {"none", "RESULT"},
         Answer(r, code), UNCHANGED <<events, gone>>
  PROVE  StoryInv'
<1>1. /\ pc'[r] = "done" /\ outcome'[r] = code /\ gone' = gone
      /\ events' = events
      /\ \A k \in Requests \ {r} : pc'[k] = pc[k] /\ outcome'[k] = outcome[k]
  BY DEF Answer, Goto, TypeOK
<1>2. events[r] = Phases(0) \o <<>>
  BY PhasesGrow DEF StoryInv, Story
<1>3. Told(r)'
  <2>1. 0 \in 0 .. Len(Progress) /\ <<>> \in Endings
    BY PhasesGrow DEF Endings
  <2>2. <<>> \notin {<<"error">>, <<"result">>, <<"ref", "result">>}
    OBVIOUS
  <2> QED BY <1>1, <1>2, <2>1, <2>2 DEF Told
<1>4. \A k \in Requests \ {r} : Told(k) => Told(k)'
  BY <1>1 DEF Told
<1> QED BY <1>1, <1>3, <1>4 DEF StoryInv, Story

\* The result goes out behind all phases.
LEMMA ReplyKeepsStory ==
  ASSUME StoryInv, IInv, NEW r \in Requests, Reply(r)
  PROVE  StoryInv'
<1>1. PICK sent \in {<<"result">>, <<"ref", "result">>} : Write(r, sent)
  BY DEF Reply
<1>2. /\ gone' = gone /\ pc'[r] = "done" /\ outcome'[r] = "RESULT"
      /\ \A k \in Requests \ {r} : pc'[k] = pc[k] /\ outcome'[k] = outcome[k]
      /\ pc[r] = "replying" /\ ~gone[r]
  BY DEF Reply, Running, Answer, Goto, clientVars, IInv, TypeOK, Connected,
         RunSteps
<1>3. sent \in Seq(Events) /\ sent \in Endings /\ sent # <<>>
      /\ sent # <<"error">>
  <2>1. <<"result">> \in Seq(Events)
    BY DEF Events
  <2>2. <<"ref", "result">> \in Seq(Events)
    <3>1. "ref" \in Events /\ "result" \in Events
      BY DEF Events
    <3> QED BY <3>1, Pair
  <2>3. sent \in Seq(Events)
    BY <1>1, <2>1, <2>2, Zenon
  <2>4. sent \in Endings
    BY DEF Endings
  <2>5. sent # <<>> /\ sent # <<"error">>
    OBVIOUS
  <2> QED BY <2>3, <2>4, <2>5
<1>4. events[r] = IF Kind[r] = "stream" THEN Phases(5) ELSE <<>>
  BY <1>2 DEF StoryInv, Story, Reported
<1>5. Told(r)'
  <2>1. CASE Kind[r] = "stream"
    <3>1. events'[r] = Phases(5) \o sent
      BY <1>1, <1>2, <1>4, <2>1 DEF Write, StoryInv
    <3>2. 5 \in 0 .. Len(Progress) /\ Len(Progress) = 5
      BY PhasesGrow
    <3> QED BY <1>2, <1>3, <3>1, <3>2 DEF Told
  <2>2. CASE Kind[r] # "stream"
    <3>1. events'[r] = Phases(0) \o <<>>
      BY <1>1, <1>4, <2>2, PhasesGrow DEF Write
    <3>2. 0 \in 0 .. Len(Progress) /\ <<>> \in Endings
      BY PhasesGrow DEF Endings
    <3>3. <<>> \notin {<<"error">>, <<"result">>, <<"ref", "result">>}
      OBVIOUS
    <3> QED BY <1>2, <2>2, <3>1, <3>2, <3>3 DEF Told
  <2> QED BY <2>1, <2>2
<1>6. Story(r)'
  BY <1>2, <1>5 DEF Story
<1>7. TypeOK
  BY DEF IInv
<1> QED BY <1>1, <1>2, <1>3, <1>6, <1>7, OthersKeepStory

\* The steps of the two calculation handlers.
LEMMA CalculateKeepsStory ==
  ASSUME StoryInv, IInv, NEW r \in Requests, Calculate(r)
  PROVE  StoryInv'
<1>1. TypeOK
  BY DEF IInv
<1>2. CASE RefuseBusy(r)
  <2>1. /\ pc[r] # "done" /\ Reported(pc[r]) = 0
        /\ Answer(r, "TEMPORARILY_UNAVAILABLE") /\ UNCHANGED <<events, gone>>
    BY <1>2 DEF RefuseBusy, Running, Reported, clientVars
  <2>2. "TEMPORARILY_UNAVAILABLE" \in Outcomes \ {"none", "RESULT"}
    BY DEF Outcomes
  <2> QED BY <1>1, <2>1, <2>2, AnswerKeepsStory
<1>3. CASE Admit(r) \/ PassAdmission(r) \/ Preflight(r) \/ StoreBasis(r)
           \/ StoreRefused(r)
  <2>1. PICK step \in {"admitted", "preflight", "run", "replying"} :
          /\ Goto(r, step)
          /\ pc[r] # "done" /\ Reported(pc[r]) = Reported(step)
          /\ UNCHANGED <<outcome, events, gone>>
    BY <1>3 DEF Admit, PassAdmission, Preflight, StoreBasis, StoreRefused,
                Running, Reported, replyVars, clientVars
  <2>2. step \in Steps \ {"done"}
    BY DEF Steps
  <2> QED BY <1>1, <2>1, <2>2, SilentKeepsStory
<1>4. CASE StopAtAdmission(r) \/ Misconfigured(r) \/ Overdue(r)
           \/ NoProviders(r) \/ Breaks(r)
  <2>1. PICK code \in Outcomes \ {"none", "RESULT"} :
          Fail(r, code) /\ pc[r] # "done"
    BY <1>4 DEF StopAtAdmission, Misconfigured, Overdue, NoProviders, Breaks,
                Running, RunSteps, Outcomes
  <2> QED BY <1>1, <2>1, FailKeepsStory
<1>5. CASE StartRun(r)
  <2>1. PICK step \in {"routing", "access"} : Goto(r, step)
    BY <1>5 DEF StartRun
  <2>2. /\ pc[r] = "run" /\ ~gone[r]
        /\ UNCHANGED <<outcome, gone>> /\ Write(r, <<"access-seeds">>)
    BY <1>5 DEF StartRun, Running, clientVars, IInv, Connected, RunSteps
  <2>3. Reported(pc[r]) = 0 /\ Reported(step) = 1
    BY <2>2 DEF Reported
  <2>4. step \in Steps \ {"done"} /\ <<"access-seeds">> \in Seq(Events)
    BY DEF Steps, Events
  <2> QED BY <1>1, <2>1, <2>2, <2>3, <2>4, PhasesGrow, PhaseKeepsStory
<1>6. CASE Route(r)
  <2>1. /\ pc[r] = "routing" /\ ~gone[r] /\ Goto(r, "evaluating")
        /\ UNCHANGED <<outcome, gone>> /\ Write(r, <<"scheduled-routing">>)
    BY <1>6 DEF Route, Running, clientVars, IInv, Connected, RunSteps
  <2>2. Reported(pc[r]) = 1 /\ Reported("evaluating") = 2
    BY <2>1 DEF Reported
  <2>3. /\ "evaluating" \in Steps \ {"done"}
        /\ <<"scheduled-routing">> \in Seq(Events)
    BY DEF Steps, Events
  <2> QED BY <1>1, <2>1, <2>2, <2>3, PhasesGrow, PhaseKeepsStory
<1>7. CASE Evaluate(r)
  <2>1. /\ pc[r] = "evaluating" /\ ~gone[r] /\ Goto(r, "validating")
        /\ UNCHANGED <<outcome, gone>>
        /\ Write(r, <<"station-area-evaluation", "station-verdict">>)
    BY <1>7 DEF Evaluate, Running, clientVars, IInv, Connected, RunSteps
  <2>2. Reported(pc[r]) = 2 /\ Reported("validating") = 4
    BY <2>1 DEF Reported
  <2>3. /\ "validating" \in Steps \ {"done"}
        /\ "station-area-evaluation" \in Events /\ "station-verdict" \in Events
    BY DEF Steps, Events
  <2>4. <<"station-area-evaluation", "station-verdict">> \in Seq(Events)
    BY <2>3
  <2> QED BY <1>1, <2>1, <2>2, <2>3, <2>4, PhasesGrow, PhaseKeepsStory
<1>8. CASE Validate(r)
  <2>1. /\ pc[r] = "validating" /\ ~gone[r] /\ Goto(r, "storing")
        /\ UNCHANGED <<outcome, gone>> /\ Write(r, <<"validating-result">>)
    BY <1>8 DEF Validate, Running, clientVars, IInv, Connected, RunSteps
  <2>2. Reported(pc[r]) = 4 /\ Reported("storing") = 5
    BY <2>1 DEF Reported
  <2>3. /\ "storing" \in Steps \ {"done"}
        /\ <<"validating-result">> \in Seq(Events)
    BY DEF Steps, Events
  <2> QED BY <1>1, <2>1, <2>2, <2>3, PhasesGrow, PhaseKeepsStory
<1>9. CASE Reply(r)
  BY <1>9, ReplyKeepsStory
<1> QED BY <1>2, <1>3, <1>4, <1>5, <1>6, <1>7, <1>8, <1>9 DEF Calculate

\* The steps of the details handler, which tells nothing.
LEMMA DetailKeepsStory ==
  ASSUME StoryInv, IInv, NEW r \in Requests, Detail(r)
  PROVE  StoryInv'
<1>1. TypeOK
  BY DEF IInv
<1>2. CASE RejectReference(r) \/ NotAvailable(r) \/ AnswerUnavailable(r)
           \/ AnswerDetails(r)
  <2>1. PICK code \in Outcomes \ {"none", "RESULT"} :
          /\ Answer(r, code) /\ UNCHANGED <<events, gone>>
          /\ pc[r] # "done" /\ Reported(pc[r]) = 0
    BY <1>2 DEF RejectReference, NotAvailable, AnswerUnavailable, AnswerDetails,
                Running, Reported, clientVars, Outcomes
  <2> QED BY <1>1, <2>1, AnswerKeepsStory
<1>3. CASE LookUp(r) \/ SelectMarker(r) \/ AdmitDetail(r)
  <2>1. PICK step \in {"found", "admitDetail", "detail"} :
          /\ Goto(r, step)
          /\ pc[r] # "done" /\ Reported(pc[r]) = Reported(step)
          /\ UNCHANGED <<outcome, events, gone>>
    BY <1>3 DEF LookUp, SelectMarker, AdmitDetail, Running, Reported,
                replyVars, clientVars
  <2>2. step \in Steps \ {"done"}
    BY DEF Steps
  <2> QED BY <1>1, <2>1, <2>2, SilentKeepsStory
<1>4. CASE DetailFails(r)
  <2>1. PICK code \in Outcomes \ {"none", "RESULT"} :
          Fail(r, code) /\ pc[r] # "done"
    BY <1>4 DEF DetailFails, Running, Outcomes
  <2> QED BY <1>1, <2>1, FailKeepsStory
<1> QED BY <1>2, <1>3, <1>4 DEF Detail

\* Bodies, upstream answers, the clock, timers and disconnects.
LEMMA EnvironmentKeepsStory ==
  ASSUME StoryInv, IInv, NEW r \in Requests, Environment(r)
  PROVE  StoryInv'
<1>1. TypeOK
  BY DEF IInv
<1>2. CASE ReceiveBody(r) \/ AccessAnswers(r)
  <2>1. PICK step \in {"lookup", "admit", "routing"} :
          /\ Goto(r, step)
          /\ pc[r] # "done" /\ Reported(pc[r]) = Reported(step)
          /\ UNCHANGED <<outcome, events, gone>>
    BY <1>2 DEF ReceiveBody, AccessAnswers, Reported, replyVars, clientVars
  <2>2. step \in Steps \ {"done"}
    BY DEF Steps
  <2> QED BY <1>1, <2>1, <2>2, SilentKeepsStory
<1>3. CASE RejectBody(r)
  <2>1. /\ Answer(r, "INVALID_REQUEST") /\ UNCHANGED <<events, gone>>
        /\ pc[r] # "done" /\ Reported(pc[r]) = 0
    BY <1>3 DEF RejectBody, Reported, clientVars
  <2>2. "INVALID_REQUEST" \in Outcomes \ {"none", "RESULT"}
    BY DEF Outcomes
  <2> QED BY <1>1, <2>1, <2>2, AnswerKeepsStory
<1>4. CASE AccessFails(r)
  <2>1. PICK code \in Outcomes \ {"none", "RESULT"} :
          Fail(r, code) /\ pc[r] # "done"
    BY <1>4 DEF AccessFails, Outcomes
  <2> QED BY <1>1, <2>1, FailKeepsStory
<1>5. CASE ClockPasses(r) \/ TimerFires(r) \/ Disconnect(r)
  <2>1. /\ pc' = pc /\ outcome' = outcome /\ events' = events
        /\ \A k \in Requests : gone[k] => gone'[k]
    BY <1>1, <1>5 DEF ClockPasses, TimerFires, Disconnect, replyVars, clientVars,
                      TypeOK
  <2>2. \A k \in Requests : Told(k) => Told(k)'
    BY <2>1 DEF Told
  <2> QED BY <2>1, <2>2 DEF StoryInv, Story
<1> QED BY <1>2, <1>3, <1>4, <1>5 DEF Environment

\* What a stream's client hears is one story: the phases in order, then at most
\* one ending, a result only behind all phases and for a run that succeeded, an
\* error only for one that failed (handleMeetingStreamPost).
THEOREM StoryHolds == Spec => []StreamTellsOneStory
<1>1. Init => StoryInv
  <2> SUFFICES ASSUME Init PROVE StoryInv
    OBVIOUS
  <2>1. /\ Phases(0) = <<>> /\ <<>> \in Seq(Events)
        /\ Reported("new") = 0
    BY PhasesGrow DEF Reported
  <2>2. \A r \in Requests :
          pc[r] = "new" /\ outcome[r] = "none" /\ events[r] = <<>>
    BY DEF Init
  <2>3. events \in [Requests -> Seq(Events)]
    BY <2>1 DEF Init
  <2> QED BY <2>1, <2>2, <2>3 DEF StoryInv, Story
<1>2. IInv /\ StoryInv /\ [Next]_vars => StoryInv'
  <2> SUFFICES ASSUME IInv, StoryInv, [Next]_vars PROVE StoryInv'
    OBVIOUS
  <2>1. CASE Forget \/ UNCHANGED vars
    <3>1. UNCHANGED <<pc, outcome, events, gone>>
      BY <2>1 DEF Forget, vars, replyVars, clientVars
    <3>2. \A k \in Requests : Told(k) => Told(k)'
      BY <3>1 DEF Told
    <3> QED BY <3>1, <3>2 DEF StoryInv, Story
  <2> QED BY <2>1, CalculateKeepsStory, DetailKeepsStory, EnvironmentKeepsStory
     DEF Next, Quiet
<1>3. StoryInv => StreamTellsOneStory
  <2> SUFFICES ASSUME StoryInv, NEW r \in Requests PROVE Told(r)
    BY DEF StreamTellsOneStory, Told, Phases, Endings
  <2>1. CASE pc[r] = "done"
    BY <2>1 DEF StoryInv, Story
  <2>2. CASE pc[r] # "done"
    <3>1. /\ outcome[r] = "none"
          /\ events[r] = IF Kind[r] = "stream"
                         THEN Phases(Reported(pc[r])) ELSE Phases(0)
      BY <2>2, PhasesGrow DEF StoryInv, Story
    <3>2. Reported(pc[r]) \in 0 .. 5 /\ 0 \in 0 .. 5
      BY DEF Reported
    <3>3. PICK k \in 0 .. 5 : events[r] = Phases(k)
      BY <3>1, <3>2
    <3>4. events[r] = Phases(k) \o <<>>
      BY <3>3, PhasesGrow
    <3>5. k \in 0 .. Len(Progress) /\ <<>> \in Endings
      BY PhasesGrow DEF Endings
    <3>6. <<>> \notin {<<"error">>, <<"result">>, <<"ref", "result">>}
      OBVIOUS
    <3> QED BY <3>1, <3>4, <3>5, <3>6 DEF Told
  <2> QED BY <2>1, <2>2
<1> QED BY <1>1, <1>2, <1>3, Invariance, PTL DEF Spec
===============================================================================
