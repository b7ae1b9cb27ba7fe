----------------------------- MODULE LeadWorkflow -----------------------------
(***************************************************************************)
(* One background execution of the lead workflow of app/agents/graph.py:   *)
(* process_lead streams the compiled LangGraph over one lead.  A step of   *)
(* the graph is one action: the node function, which returns updates to    *)
(* the AgentState, and the routing edge that picks the next node.          *)
(*                                                                         *)
(* `agent' is the in-memory AgentState; `row' is what PostgreSQL holds for *)
(* the lead (leads.priority, workflow_states.current_status, the action    *)
(* types of its audit_logs rows).  Only node_audit writes the row, in one  *)
(* transaction that reads, assigns and commits.  Enrichment, the model and *)
(* the database answer nondeterministically, failures included.            *)
(***************************************************************************)
EXTENDS DecisionEngine, Sequences, FiniteSets

CONSTANTS MaxRetries,         \* policy.workflow.max_retries
          FallbackConfidence, \* llm_scorer.FALLBACK_CONFIDENCE, in percent
          Budgets,            \* lead budgets enumerated
          Confidences,        \* confidences a model may answer with, in percent
          NaN,                \* one more: JSON's NaN, which float() keeps
          CrmAnswers          \* what the duplicate query can answer

ASSUME WorkflowAssumption ==
    /\ MaxRetries \in Nat \ {0}
    /\ FallbackConfidence \in 0..100
    /\ Budgets \subseteq Nat
    /\ Confidences \subseteq Int \union {NaN}
    /\ NaN \notin Int
    /\ CrmAnswers \subseteq BOOLEAN /\ FALSE \in CrmAnswers

VARIABLES pc,     \* the node about to run, or where the task stands outside the graph
          lead,   \* the payload: never changed by the workflow
          agent,  \* AgentState
          steps,  \* nodes run so far (LangGraph counts them against its recursion limit)
          notified, \* the sales team has been sent the notification
          row,    \* the lead's rows in the database
          loaded  \* the column values node_audit's session loaded

vars == <<pc, lead, agent, steps, notified, row, loaded>>

Leads == [email : BOOLEAN, budget : Budgets, decisionMaker : BOOLEAN]

Nodes == {"receive_lead", "validate", "crm_lookup", "enrichment", "retry", "lead_score",
          "decision", "generate_follow_up", "notify", "escalate", "audit"}
\* The transaction of node_audit is open at "audit_commit"; a task that ended is
\* "done", one whose process_lead swallowed an exception (or never got a graph) "dead".
Locations == Nodes \union {"queued", "audit_commit", "done", "dead"}

WorkflowStatuses == {"RECEIVED", "VALIDATING", "ENRICHING", "ANALYZING", "EXECUTING",
                     "ESCALATED", "COMPLETED"}
AuditTypes == {"STATE_TRANSITION", "TOOL_INVOCATION", "LLM_REASONING",
               "GUARDRAIL_OVERRIDE", "ESCALATION"}
Tools      == {"enrich_lead_domain", "llm_score_lead", "send_slack_notification"}
Enrichments == {"absent", "failed", "business", "freemail"}

None == "none"
\* A ScoringResult; said: the confidence in _exchange.parsed, none in a fallback's.  The
\* model may ask for anything: "other" is any unknown verb.
ModelActions == Actions \union {"other"}
Scores == [priority : Classified, confidence : 0..100, next_action : ModelActions,
           source : {"llm", "rules_fallback"}, said : SUBSET Confidences]
NoScore == [priority |-> None]

\* max(0.0, min(1.0, c)): a comparison with NaN is false, so min answers 1.0.
Clamped(c) == IF c = NaN \/ c > 100 THEN 100 ELSE IF c < 0 THEN 0 ELSE c

\* What _to_result makes of the usable answers.
ModelScores ==
    {[priority |-> p, confidence |-> Clamped(c), next_action |-> a, source |-> "llm",
      said |-> {c}] : p \in Classified, c \in Confidences, a \in ModelActions}

AgentStates ==
    [status : WorkflowStatuses, validation_errors : BOOLEAN,
     retry_count : 0..(MaxRetries - 1), enrichment_retry_count : 0..MaxRetries,
     priority : Priorities, confidence : 0..100, next_action : Actions \union {None},
     exists_in_crm : BOOLEAN, enrichment : Enrichments, score : Scores \union {NoScore},
     draft_email : BOOLEAN, tool_history : Seq(Tools), audit_logs : Seq(AuditTypes)]

NewAgentState ==
    [status |-> "RECEIVED", validation_errors |-> FALSE, retry_count |-> 0,
     enrichment_retry_count |-> 0, priority |-> "UNASSIGNED", confidence |-> 0,
     next_action |-> None, exists_in_crm |-> FALSE, enrichment |-> "absent",
     score |-> NoScore, draft_email |-> FALSE, tool_history |-> <<>>, audit_logs |-> <<>>]

Rows == [priority : Priorities, status : WorkflowStatuses,
         audit : Seq(AuditTypes \union {"MANUAL_OVERRIDE"})]

\* _create_and_queue_lead committed the rows and queued the task.
Init ==
    /\ pc = "queued"
    /\ lead \in Leads
    /\ agent = NewAgentState
    /\ steps = 0
    /\ notified = FALSE
    /\ row = [priority |-> "UNASSIGNED", status |-> "RECEIVED", audit |-> <<>>]
    /\ loaded = [priority |-> None, status |-> None]

-----------------------------------------------------------------------------
(* process_lead                                                              *)

\* The graph singleton is built or reused and the stream starts on a fresh
\* AgentState; when it cannot be compiled the task just returns.
ProcessLead ==
    /\ pc = "queued"
    /\ pc' \in {"receive_lead", "dead"}
    /\ agent' = NewAgentState
    /\ UNCHANGED <<lead, steps, notified, row, loaded>>

\* An exception that escapes a node ends the stream; process_lead logs it and
\* returns, so nothing the run collected is written.
Raise ==
    /\ pc' = "dead"
    /\ UNCHANGED <<lead, agent, steps, notified, row, loaded>>

\* Runs node n: its updates become the new AgentState and the edge leads to m.
Run(n, updated, m) ==
    /\ pc = n
    /\ agent' = updated
    /\ pc' = m
    /\ steps' = steps + 1
    /\ UNCHANGED <<lead, row, loaded>>

Logged(type) == Append(agent.audit_logs, type)
Called(tool) == Append(agent.tool_history, tool)

-----------------------------------------------------------------------------
(* Nodes and routing edges                                                   *)

NodeReceiveLead ==
    /\ Run("receive_lead",
           [agent EXCEPT !.status = "RECEIVED",
                         !.audit_logs = Logged("STATE_TRANSITION")],
           "validate")
    /\ UNCHANGED notified

\* Mutant: the edge ignores the errors the node found.
RouteAfterValidateBlind(errors) == "crm_lookup"

RouteAfterValidate(errors) == IF errors THEN "escalate" ELSE "crm_lookup"

\* Mutant: restarting from validation starts on fresh retry counters.
NodeValidateForgetful ==
    LET errors == ~lead.email
    IN  /\ Run("validate",
               [agent EXCEPT !.status = "VALIDATING", !.validation_errors = errors,
                             !.retry_count = 0, !.enrichment_retry_count = 0,
                             !.audit_logs = Logged("STATE_TRANSITION")],
               RouteAfterValidate(errors))
        /\ UNCHANGED notified

NodeValidate ==
    LET errors == ~lead.email
    IN  /\ Run("validate",
               [agent EXCEPT !.status = "VALIDATING", !.validation_errors = errors,
                             !.audit_logs = Logged("STATE_TRANSITION")],
               RouteAfterValidate(errors))
        /\ UNCHANGED notified

RouteAfterCrm(exists) == IF exists THEN "lead_score" ELSE "enrichment"

\* A database error is answered like an unknown lead.
NodeCrmLookup ==
    /\ \E exists \in CrmAnswers :
          Run("crm_lookup",
              [agent EXCEPT !.exists_in_crm = exists,
                            !.audit_logs = Logged("TOOL_INVOCATION")],
              RouteAfterCrm(exists))
    /\ UNCHANGED notified

\* Mutant: one retry too many.
RouteAfterEnrichmentOnceMore(failed, count) ==
    IF failed /\ count <= MaxRetries THEN "retry" ELSE "lead_score"

RouteAfterEnrichment(failed, count) ==
    IF failed /\ count < MaxRetries THEN "retry" ELSE "lead_score"

\* The API answers with company data, possibly naming a freemail domain, or the
\* wrapped call degrades; without an address the node does not call it at all.
EnrichmentAnswers ==
    IF lead.email THEN {"business", "freemail", "failed"} ELSE {"failed"}

NodeEnrichment ==
    /\ \E answer \in EnrichmentAnswers :
          LET failed == answer = "failed"
              count  == IF failed THEN agent.enrichment_retry_count + 1
                                  ELSE agent.enrichment_retry_count
          IN  Run("enrichment",
                  [agent EXCEPT !.status = "ENRICHING",
                                !.enrichment_retry_count = count,
                                !.enrichment = answer,
                                !.tool_history = Called("enrich_lead_domain"),
                                !.audit_logs = Logged("TOOL_INVOCATION")],
                  RouteAfterEnrichment(failed, count))
    /\ UNCHANGED notified

\* A JSON answer that is not an object has no .get: AttributeError.
NodeEnrichmentRaises == pc = "enrichment" /\ lead.email /\ Raise

\* Mutant: the general breaker trips one retry early.
RouteAfterRetryEarly(count) == IF count + 1 >= MaxRetries THEN "escalate" ELSE "validate"

RouteAfterRetry(count) == IF count >= MaxRetries THEN "escalate" ELSE "validate"

NodeRetry ==
    LET count == agent.retry_count + 1
    IN  /\ Run("retry",
               [agent EXCEPT !.retry_count = count,
                             !.audit_logs = Logged("STATE_TRANSITION")],
               RouteAfterRetry(count))
        /\ UNCHANGED notified

-----------------------------------------------------------------------------
(* Scoring and the guardrail                                                 *)

ContextWith(c) ==
    [email |-> lead.email, budget |-> lead.budget, decisionMaker |-> lead.decisionMaker,
     freemail |-> agent.enrichment = "freemail", confidence |-> c]

\* Mutant: the "as if confident" 100 % is what the fallback reports.
RulesFallbackConfident ==
    LET d == EvaluateRules(ContextWith(100))
    IN  [priority    |-> IF d.priority \in Classified THEN d.priority ELSE "MEDIUM",
         confidence  |-> 100,
         next_action |-> d.action,
         source      |-> "rules_fallback",
         said        |-> {}]

\* _rules_fallback: the engine's verdict "as if confident", stamped with the
\* fallback confidence.
RulesFallback ==
    LET d == EvaluateRules(ContextWith(100))
    IN  [priority    |-> IF d.priority \in Classified THEN d.priority ELSE "MEDIUM",
         confidence  |-> FallbackConfidence,
         next_action |-> d.action,
         source      |-> "rules_fallback",
         said        |-> {}]

\* Mutant: a halted engine's UNASSIGNED counts as a stricter class.
FinalPriorityErasing(score, rules) ==
    IF PriorityRank[rules.priority] < PriorityRank[score.priority]
    THEN rules.priority ELSE score.priority

\* GUARDRAIL A: only a computed, strictly stricter class replaces the model's.
FinalPriority(score, rules) ==
    IF /\ rules.priority # "UNASSIGNED"
       /\ PriorityRank[rules.priority] < PriorityRank[score.priority]
    THEN rules.priority ELSE score.priority

\* GUARDRAIL B: a halting rule forces an escalation; otherwise the action is
\* derived from the guarded priority and the rules' queue.
FinalAction(priority, rules) ==
    IF rules.action \in {"ASK_USER", "ESCALATE"} THEN "ESCALATE"
    ELSE DeriveAction(priority, rules.queue)

\* Mutant: only a forced escalation leaves an entry.
OverridesLastOnly(score, priority, action) ==
    IF action = "ESCALATE" /\ score.next_action # "ESCALATE" THEN <<"GUARDRAIL_OVERRIDE">>
    ELSE <<>>

Overrides(score, priority, action) ==
    (IF priority # score.priority THEN <<"GUARDRAIL_OVERRIDE">> ELSE <<>>)
      \o (IF action = "ESCALATE" /\ score.next_action # "ESCALATE"
          THEN <<"GUARDRAIL_OVERRIDE">> ELSE <<>>)

NodeLeadScore ==
    /\ \E score \in ModelScores \union {RulesFallback} :
          LET rules    == EvaluateRules(ContextWith(score.confidence))
              priority == FinalPriority(score, rules)
              action   == FinalAction(priority, rules)
          IN  Run("lead_score",
                  [agent EXCEPT !.status = "ANALYZING",
                                !.priority = priority,
                                !.confidence = score.confidence,
                                !.next_action = action,
                                !.score = score,
                                !.tool_history = Called("llm_score_lead"),
                                !.audit_logs = Logged("LLM_REASONING")
                                                 \o Overrides(score, priority, action)],
                  "decision")
    /\ UNCHANGED notified

\* score_lead lets some exceptions through: a missing prompt file (RuntimeError),
\* model JSON that is not an object (AttributeError).
NodeLeadScoreRaises == pc = "lead_score" /\ Raise

RouteAfterDecision(c, action) ==
    IF BelowGate(c) \/ action \notin Autonomous THEN "escalate" ELSE action

NodeDecision ==
    LET action == IF agent.next_action = None THEN "notify" ELSE agent.next_action
    IN  /\ Run("decision", [agent EXCEPT !.next_action = action],
               RouteAfterDecision(agent.confidence, action))
        /\ UNCHANGED notified

-----------------------------------------------------------------------------
(* Acting, escalating, persisting                                            *)

NodeGenerateFollowUp ==
    /\ Run("generate_follow_up",
           [agent EXCEPT !.draft_email = TRUE, !.audit_logs = Logged("LLM_REASONING")],
           "notify")
    /\ UNCHANGED notified

NodeNotify ==
    /\ Run("notify",
           [agent EXCEPT !.status = "EXECUTING",
                         !.tool_history = Called("send_slack_notification"),
                         !.audit_logs = Logged("TOOL_INVOCATION")],
           "audit")
    /\ notified' = TRUE

NodeEscalate ==
    /\ Run("escalate",
           [agent EXCEPT !.status = "ESCALATED", !.audit_logs = Logged("ESCALATION")],
           "audit")
    /\ UNCHANGED notified

FinalStatus == IF agent.status # "ESCALATED" THEN "COMPLETED" ELSE "ESCALATED"

\* The node's return value: the finalisation entry comes after the write.
Finalized ==
    /\ agent' = [agent EXCEPT !.status = FinalStatus,
                              !.audit_logs = Logged("STATE_TRANSITION")]
    /\ pc' = "done"
    /\ steps' = steps + 1

\* The session loads the lead and its workflow state.
NodeAuditLoad ==
    /\ pc = "audit"
    /\ pc' = "audit_commit"
    /\ loaded' = [priority |-> row.priority, status |-> row.status]
    /\ UNCHANGED <<lead, agent, steps, notified, row>>

ToolRows == [i \in DOMAIN agent.tool_history |-> "TOOL_INVOCATION"]

\* A column is updated only when the value assigned differs from the one loaded.
Assigned(new, old, current) == IF new # old THEN new ELSE current

NodeAuditCommit ==
    /\ pc = "audit_commit"
    /\ row' = [priority |-> Assigned(agent.priority, loaded.priority, row.priority),
               status   |-> Assigned(FinalStatus, loaded.status, row.status),
               audit    |-> row.audit \o agent.audit_logs \o ToolRows]
    /\ Finalized
    /\ UNCHANGED <<lead, notified, loaded>>

\* Mutant: the priority was committed before the rest failed.
NodeAuditFailsHalfway ==
    /\ pc = "audit_commit"
    /\ row' = [row EXCEPT !.priority = agent.priority]
    /\ Finalized
    /\ UNCHANGED <<lead, notified, loaded>>

\* Mutant: the write is tried again until it succeeds.
NodeAuditFailsAndRetries ==
    /\ pc = "audit_commit"
    /\ pc' = "audit"
    /\ UNCHANGED <<lead, agent, steps, notified, row, loaded>>

\* Any exception rolls the transaction back and is only logged.
NodeAuditFails ==
    /\ pc \in {"audit", "audit_commit"}
    /\ Finalized
    /\ UNCHANGED <<lead, notified, row, loaded>>

-----------------------------------------------------------------------------
Next ==
    \/ ProcessLead
    \/ NodeReceiveLead \/ NodeValidate \/ NodeCrmLookup
    \/ NodeEnrichment \/ NodeEnrichmentRaises \/ NodeRetry
    \/ NodeLeadScore \/ NodeLeadScoreRaises \/ NodeDecision
    \/ NodeGenerateFollowUp \/ NodeNotify \/ NodeEscalate
    \/ NodeAuditLoad \/ NodeAuditCommit \/ NodeAuditFails

\* The background task runs in its thread until the graph ends.
Spec == Init /\ [][Next]_vars /\ WF_vars(Next)

-----------------------------------------------------------------------------
(* Properties                                                                *)

\* Every variable has its type; the retry counters stay under the ceiling.
TypeOK ==
    /\ pc \in Locations
    /\ lead \in Leads
    /\ agent \in AgentStates
    /\ steps \in Nat
    /\ notified \in BOOLEAN
    /\ row \in Rows
    /\ loaded \in [priority : Priorities \union {None},
                   status : WorkflowStatuses \union {None}]

\* The confidence gate: an action the outside world sees, or a drafted follow-up,
\* takes a reported confidence at or above the gate, and the model said so itself, or
\* NaN, which the clamping takes for certainty (or the gate is open to all); with a gate
\* above the fallback confidence it also takes a real model answer, never an outage
\* (SOUL.md 1, route_after_decision, _to_result, FALLBACK_CONFIDENCE).
AutonomyIsGated ==
    (pc \in Autonomous \/ agent.draft_email \/ notified) =>
        /\ agent.score \in Scores
        /\ agent.score.confidence >= Gate
        /\ \A c \in agent.score.said : c = NaN \/ c >= Gate \/ Gate = 0
        /\ Gate > FallbackConfidence => agent.score.source = "llm"

\* A lead without contact data is never looked up, enriched, scored or acted on
\* (SOUL.md 2, route_after_validate).
NoContactNoProcessing ==
    ~lead.email =>
        /\ pc \notin Nodes \ {"receive_lead", "validate", "escalate", "audit"}
        /\ agent.score = NoScore
        /\ ~notified

\* A human is called in for missing contact data or low confidence and for nothing
\* else: enrichment failures, however many, never escalate a lead by themselves
\* (route_after_enrichment, SOUL.md 3).
EscalationIsJustified ==
    (pc = "escalate" \/ agent.status = "ESCALATED") =>
        \/ ~lead.email
        \/ agent.score \in Scores /\ BelowGate(agent.score.confidence)

\* The graph runs a bounded number of nodes: retries loop over four of them, and
\* the longest run stays far below LangGraph's recursion limit for small ceilings
\* (SOUL.md 5, route_after_retry).
StepsAreBounded == steps <= 4 * MaxRetries + 5

\* Guardrail A only tightens, and never erases a class the model computed: the
\* priority the run carries is the model's or a stricter real one (node_lead_score).
PriorityOnlyTightens ==
    agent.score \in Scores =>
        /\ agent.priority \in Classified
        /\ \/ agent.priority = agent.score.priority
           \/ PriorityRank[agent.priority] < PriorityRank[agent.score.priority]

Occurrences(x, s) == Cardinality({i \in DOMAIN s : s[i] = x})

\* The persisted trail of a scored lead holds one GUARDRAIL_OVERRIDE row for each
\* change the guardrail made to the model's verdict: a downgrade, a forced
\* escalation (node_lead_score, SOUL.md 6).
OverridesAreAudited ==
    (row.audit # <<>> /\ agent.score \in Scores) =>
        Occurrences("GUARDRAIL_OVERRIDE", row.audit) =
            (IF agent.priority # agent.score.priority THEN 1 ELSE 0)
          + (IF /\ BelowGate(agent.score.confidence)
                /\ agent.score.next_action # "ESCALATE" THEN 1 ELSE 0)

\* The lead's rows change all together or not at all, and what they then say is what
\* happened: COMPLETED exactly when sales was notified, with the priority the run
\* computed and a row per audit entry and per tool call (node_audit).
RowsTellTheRun ==
    \/ row = [priority |-> "UNASSIGNED", status |-> "RECEIVED", audit |-> <<>>]
    \/ /\ pc = "done"
       /\ row.status = IF notified THEN "COMPLETED" ELSE "ESCALATED"
       /\ row.priority = agent.priority
       /\ Len(row.audit) = Len(agent.audit_logs) - 1 + Len(agent.tool_history)

\* Only a lead without contact data is left for a human with priority UNASSIGNED:
\* one the confidence gate escalated always carries a real priority.
UnassignedOnlyWithoutContact ==
    (row.status # "RECEIVED" /\ row.priority = "UNASSIGNED") => ~lead.email

\* A started workflow comes to its end: it loops neither between its nodes nor on a
\* database that refuses the final write (node_audit swallows the error).
WorkflowEnds == <>(pc \in {"done", "dead"})

\* docs/DECISIONS.md 4: every execution, regardless of outcome, updates the workflow
\* state in PostgreSQL.  A run that entered the graph does not end unrecorded.
EveryRunIsRecorded ==
    [][pc # "queued" /\ pc' \in {"done", "dead"} => row'.status # "RECEIVED"]_pc
=============================================================================
