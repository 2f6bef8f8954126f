------------------------------- MODULE Providers -------------------------------
(***************************************************************************)
(* The provider layer of one server process (lib/providers): the MVG       *)
(* lookups over their limiter, what becomes of an MVG answer, the reading  *)
(* of the configuration, and a call of a self-hosted routing adapter.  The *)
(* parts share no state - every request reads its own configuration, every *)
(* call works on its own answers - so a behaviour runs one of them while   *)
(* the others stay in their initial state.                                 *)
(***************************************************************************)
EXTENDS MvgLimiter, MvgAnswers, ProviderConfiguration, SelfHostedRouting

VARIABLE part   (* the part that runs *)

Parts == {"limiter", "answers", "configuration", "routing"}

\* A part that does not run has one of its inputs.
OneAnswer == CHOOSE a \in Answers : TRUE
OneEnvironment == CHOOSE e \in Environments : TRUE
OneScenario == CHOOSE s \in Scenarios : TRUE

Inputs(name, values, one) == IF part = name THEN values ELSE {one}

ProvidersInit ==
  /\ part \in Parts
  /\ Init
  /\ answer \in Inputs("answers", Answers, OneAnswer) /\ AnswersStart
  /\ env \in Inputs("configuration", Environments, OneEnvironment) /\ ConfigStart
  /\ scenario \in Inputs("routing", Scenarios, OneScenario) /\ RoutingStart

ProvidersNext ==
  /\ UNCHANGED part
  /\ \/ part = "limiter" /\ Next /\ UNCHANGED <<answerVars, configVars, routingVars>>
     \/ part = "answers" /\ AnswersNext /\ UNCHANGED <<vars, configVars, routingVars>>
     \/ /\ part = "configuration"
        /\ ConfigNext
        /\ UNCHANGED <<vars, answerVars, routingVars>>
     \/ part = "routing" /\ RoutingNext /\ UNCHANGED <<vars, answerVars, configVars>>

\* The fairness of the limiter asks nothing of the other parts.
ProvidersSpec ==
  /\ ProvidersInit
  /\ [][ProvidersNext]_<<part, vars, answerVars, configVars, routingVars>>
  /\ Fairness
===============================================================================
