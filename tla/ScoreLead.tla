------------------------------- MODULE ScoreLead -------------------------------
(***************************************************************************)
(* What score_lead promises node_lead_score, breakers and retries left     *)
(* out: the models of the chain are taken in order, each is prompted, and  *)
(* once more with its malformed answer quoted, or passed over unprompted;  *)
(* the source of the answer tells which of it happened, and the rules      *)
(* answer only for a switched-off model or after the last of the chain.    *)
(* The exception that may leave score_lead instead is the one              *)
(* NodeLeadScoreRaises of LeadWorkflow stands for.                         *)
(***************************************************************************)
EXTENDS Integers, Sequences

CONSTANTS Jobs, Chain, LlmEnabled

VARIABLES phase,  \* "new", "ready" to prompt, "waiting", "done" or "raised"
          turn,   \* the model of the chain whose turn it is
          quoted, \* its malformed answer is quoted back to it
          result

vars == <<phase, turn, quoted, result>>

None    == "none"
NoScore == [source |-> None, model |-> None]
ByRules == [source |-> "rules_fallback", model |-> None]

Init ==
    /\ phase = [j \in Jobs |-> "new"]
    /\ turn = [j \in Jobs |-> 1]
    /\ quoted = [j \in Jobs |-> FALSE]
    /\ result = [j \in Jobs |-> NoScore]

End(j, p, r) ==
    /\ phase' = [phase EXCEPT ![j] = p]
    /\ quoted' = [quoted EXCEPT ![j] = FALSE]
    /\ result' = [result EXCEPT ![j] = r]
    /\ UNCHANGED turn

Begin(j) ==
    /\ phase[j] = "new"
    /\ \/ FALSE \in LlmEnabled /\ End(j, "done", ByRules)
       \/ TRUE \in LlmEnabled /\ End(j, "raised", NoScore)
       \/ /\ TRUE \in LlmEnabled
          /\ phase' = [phase EXCEPT ![j] = "ready"]
          /\ UNCHANGED <<turn, quoted, result>>

Prompt(j) ==
    /\ phase[j] = "ready"
    /\ phase' = [phase EXCEPT ![j] = "waiting"]
    /\ UNCHANGED <<turn, quoted, result>>

\* A malformed answer is quoted once.
Quote(j) ==
    /\ phase[j] = "waiting"
    /\ ~quoted[j]
    /\ phase' = [phase EXCEPT ![j] = "ready"]
    /\ quoted' = [quoted EXCEPT ![j] = TRUE]
    /\ UNCHANGED <<turn, result>>

\* The model failed, or is passed over: the next one starts afresh.
NextModel(j) ==
    /\ phase[j] \in {"ready", "waiting"}
    /\ turn[j] < Len(Chain)
    /\ phase' = [phase EXCEPT ![j] = "ready"]
    /\ turn' = [turn EXCEPT ![j] = @ + 1]
    /\ quoted' = [quoted EXCEPT ![j] = FALSE]
    /\ UNCHANGED result

FallBack(j) ==
    /\ phase[j] \in {"ready", "waiting"}
    /\ turn[j] = Len(Chain)
    /\ End(j, "done", ByRules)

Answer(j) ==
    /\ phase[j] = "waiting"
    /\ End(j, "done", [source |-> IF quoted[j] THEN "llm_selfcorrected" ELSE "llm",
                       model |-> Chain[turn[j]]])

Raise(j) ==
    /\ phase[j] = "waiting"
    /\ End(j, "raised", NoScore)

Next == \E j \in Jobs : \/ Begin(j) \/ Prompt(j) \/ Quote(j)
                        \/ NextModel(j) \/ FallBack(j) \/ Answer(j) \/ Raise(j)

Spec == Init /\ [][Next]_vars
=============================================================================
