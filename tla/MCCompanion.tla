----------------------------- MODULE MCCompanion -----------------------------
(***************************************************************************)
(* Model-checking instance of the services around the recorder and the     *)
(* stream: the authorization workflow, the access tokens and the runs of   *)
(* the language model.  What each does to the others is environment in     *)
(* their modules, so a behaviour exercises one, chosen among Parts.        *)
(***************************************************************************)
EXTENDS Authorization, Tokens, LlmRun, TLC

CONSTANTS Parts, a, b, c1, c2

MCOne == {c1}
MCTwo == {c1, c2}
MCStocks == {a, b}

VARIABLE part
companionVars == <<authVars, tokenVars, llmVars, part>>

\* The parts that do not run start in one state only.
CompanionInit ==
    /\ AuthInit /\ TokensInit /\ LlmInit /\ part \in Parts
    /\ part # "auth" => ~recorder /\ ~granted
    /\ part # "tokens" => ~helper /\ unexpired = {} /\ disk = 0

CompanionNext ==
    \/ part = "auth" /\ AuthNext /\ UNCHANGED <<tokenVars, llmVars, part>>
    \/ part = "tokens" /\ TokensNext /\ UNCHANGED <<authVars, llmVars, part>>
    \/ part = "llm" /\ LlmNext /\ UNCHANGED <<authVars, tokenVars, part>>

\* AuthFairness, TokensFairness and LlmFairness, asked only of the part that runs.
CompanionSpec ==
    /\ CompanionInit /\ [][CompanionNext]_companionVars
    /\ WF_authVars(part = "auth" /\ AuthStep(Streamer))
    /\ WF_authVars(part = "auth" /\ \E t \in Callers : AuthStep(t))
    /\ WF_authVars(part = "auth" /\ \E t \in Callers : Poll(t))
    /\ WF_authVars(part = "auth" /\ (LoginOk \/ LoginFails \/ Redial))
    /\ WF_authVars(part = "auth" /\ FlowStep)
    /\ \A t \in Askers : WF_tokenVars(part = "tokens" /\ TokenStep(t))
    /\ WF_llmVars(part = "llm" /\ PageStep) /\ WF_llmVars(part = "llm" /\ BridgeStep)
    /\ \A i \in 1 .. MaxRuns :
          WF_llmVars(part = "llm" /\ \E w \in workers : w.run = i /\ WorkerStep(w))
=============================================================================
