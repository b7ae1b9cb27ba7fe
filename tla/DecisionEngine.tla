---------------------------- MODULE DecisionEngine ----------------------------
(***************************************************************************)
(* The rule engine of app/agents/decision_engine.py: five rules evaluated  *)
(* in order over one lead context.  The two guardrail rules can halt the   *)
(* evaluation; the three routing rules assign a priority and a sales       *)
(* queue.  The engine is pure, so the module has no variables.             *)
(*                                                                         *)
(* Confidences are whole percentages.  A context says whether the lead has *)
(* an e-mail address, its budget, whether its job title holds one of the   *)
(* policy's decision-maker keywords, whether enrichment reported a         *)
(* freemail domain, and the model's confidence.                            *)
(***************************************************************************)
EXTENDS Integers

CONSTANTS Gate,       \* policy.decision.confidence_gate, in percent
          Threshold   \* policy.decision.high_budget_threshold

\* policy.py accepts any gate between 0.0 and 1.0 and any positive threshold.
ASSUME PolicyAssumption == Gate \in 0..100 /\ Threshold \in Nat

Classified == {"HIGH", "MEDIUM", "LOW", "SPAM"}
Priorities == Classified \union {"UNASSIGNED"}

\* The order in which the guardrail compares priorities: lower is stricter.
PriorityRank ==
    [p \in Priorities |-> CASE p = "SPAM" -> 0
                            [] p = "LOW"  -> 1
                            [] p = "HIGH" -> 3
                            [] OTHER      -> 2]

Autonomous == {"generate_follow_up", "notify"}
Actions    == Autonomous \union {"ASK_USER", "ESCALATE"}
Queues     == {"GENERAL_SALES", "SENIOR_SALES"}

Contexts  == [email : BOOLEAN, budget : Nat, decisionMaker : BOOLEAN,
              freemail : BOOLEAN, confidence : 0..100]
Decisions == [priority : Priorities, action : Actions, queue : Queues,
              halted : BOOLEAN]

NewDecision == [priority |-> "UNASSIGNED", action |-> "notify",
                queue |-> "GENERAL_SALES", halted |-> FALSE]

-----------------------------------------------------------------------------
(* The rules.  Each takes the decision so far and returns the next one.      *)

MissingEmailRule(ctx, d) ==
    IF ctx.email THEN d
    ELSE [d EXCEPT !.action = "ASK_USER", !.halted = TRUE]

BelowGate(c) == c < Gate

LowConfidenceRule(ctx, d) ==
    IF BelowGate(ctx.confidence)
    THEN [d EXCEPT !.action = "ESCALATE", !.halted = TRUE]
    ELSE d

\* Strictly above the threshold.
HighBudgetRule(ctx, d) ==
    IF ctx.budget > Threshold THEN [d EXCEPT !.priority = "HIGH"] ELSE d

\* Fills the priority in only when no earlier rule did.
AtLeast(d, p) ==
    IF d.priority = "UNASSIGNED" THEN [d EXCEPT !.priority = p] ELSE d

DecisionMakerRoutingRule(ctx, d) ==
    IF ctx.decisionMaker
    THEN AtLeast([d EXCEPT !.queue = "SENIOR_SALES"], "MEDIUM")
    ELSE d

FreemailDowngradeRule(ctx, d) ==
    IF ctx.freemail THEN AtLeast(d, "LOW") ELSE d

-----------------------------------------------------------------------------
(* The orchestrator: guardrails, then routing rules, the default priority    *)
(* and the action derived from priority and queue.                           *)

Guarded(ctx) ==
    LET d == MissingEmailRule(ctx, NewDecision)
    IN  IF d.halted THEN d ELSE LowConfidenceRule(ctx, d)

Routed(ctx, d) ==
    AtLeast(FreemailDowngradeRule(ctx,
              DecisionMakerRoutingRule(ctx,
                HighBudgetRule(ctx, d))), "MEDIUM")

DeriveAction(priority, queue) ==
    IF priority = "HIGH" \/ queue = "SENIOR_SALES"
    THEN "generate_follow_up" ELSE "notify"

EvaluateRules(ctx) ==
    LET g == Guarded(ctx)
        r == Routed(ctx, g)
    IN  IF g.halted THEN g
        ELSE [r EXCEPT !.action = DeriveAction(r.priority, r.queue)]
=============================================================================
