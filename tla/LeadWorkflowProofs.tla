-------------------------- MODULE LeadWorkflowProofs --------------------------
(***************************************************************************)
(* Proofs about LeadWorkflow, for every policy, retry ceiling and set of   *)
(* inputs.  RunInv says what the run keeps in memory and is inductive      *)
(* whatever happens to the database rows; WorkflowInv adds the rows, which *)
(* here only the audit transaction writes; AuditInv adds the entries of    *)
(* the trail.  The safety properties follow from these.                    *)
(***************************************************************************)
EXTENDS LeadWorkflow, FiniteSetTheorems, SequenceTheorems, TLAPS

-----------------------------------------------------------------------------
(* The inductive invariant                                                   *)

Looping    == {"queued", "receive_lead", "validate", "crm_lookup", "enrichment"}
Processing == {"crm_lookup", "enrichment", "retry", "lead_score", "decision",
               "generate_follow_up", "notify"}
Saving     == {"audit", "audit_commit"}
Ended      == {"done", "dead"}

\* The two retry counters move in lockstep, one retry apart at the retry node.
RetriesInLockstep ==
    /\ pc \in Looping => agent.enrichment_retry_count = agent.retry_count
    /\ pc = "retry" => /\ agent.enrichment_retry_count = agent.retry_count + 1
                       /\ agent.enrichment_retry_count < MaxRetries

\* Every retry has cost four steps; past the loop the rest of the graph is a line.
StepsSoFar ==
    LET r == 4 * agent.retry_count
    IN  /\ pc = "queued"             => steps = 0
        /\ pc = "receive_lead"       => steps = r
        /\ pc = "validate"           => steps = r + 1
        /\ pc = "crm_lookup"         => steps = r + 2
        /\ pc = "enrichment"         => steps = r + 3
        /\ pc = "retry"              => steps = r + 4
        /\ pc = "lead_score"         => steps <= r + 4
        /\ pc = "decision"           => steps <= r + 5
        /\ pc \in {"generate_follow_up", "escalate"} => steps <= r + 6
        /\ pc = "notify"             => steps <= r + 7
        /\ pc \in Saving             => steps <= r + 8
        /\ steps <= r + 9

\* The run touches only leads with an address, and nothing is scored before scoring.
ContactAndScore ==
    /\ pc \in Processing => lead.email
    /\ pc \in Looping \union {"retry", "lead_score"} => agent.score = NoScore
    /\ pc \in {"decision", "generate_follow_up", "notify"} => agent.score \in Scores
    /\ pc \in {"escalate", "audit", "audit_commit", "done"} =>
          ~lead.email \/ agent.score \in Scores
    /\ ~lead.email => agent.score = NoScore

\* What node_lead_score left behind: the reported confidence, an honest fallback
\* stamp, a class at least as strict as the model's, and the gated action.
VerdictIsGuarded ==
    agent.score \in Scores =>
        /\ agent.confidence = agent.score.confidence
        /\ agent.score.source = "rules_fallback" =>
               agent.score.confidence = FallbackConfidence
        /\ \A c \in agent.score.said : agent.score.confidence = Clamped(c)
        /\ agent.next_action \in Autonomous \union {"ESCALATE"}
        /\ agent.next_action = "ESCALATE" => BelowGate(agent.score.confidence)
        /\ agent.priority \in Classified
        /\ \/ agent.priority = agent.score.priority
           \/ PriorityRank[agent.priority] < PriorityRank[agent.score.priority]

\* Acting nodes lie behind the gate, and nothing was acted on before them.
ActsBehindGate ==
    /\ (pc \in Autonomous \/ agent.draft_email \/ notified) =>
           agent.score \in Scores /\ ~BelowGate(agent.score.confidence)
    /\ notified => pc \in Saving \union Ended
    /\ agent.draft_email => pc \in Saving \union {"notify"} \union Ended

\* Only the escalation node escalates, and it ends in the audit transaction.
EscalatedOnce ==
    /\ agent.status = "ESCALATED" => pc \in Saving \union Ended
    /\ pc \in Saving => (notified <=> agent.status # "ESCALATED")

\* The database is untouched until the audit transaction commits.
RowBeforeAudit ==
    /\ pc # "done" =>
          row = [priority |-> "UNASSIGNED", status |-> "RECEIVED", audit |-> <<>>]
    /\ pc = "audit_commit" =>
          loaded = [priority |-> "UNASSIGNED", status |-> "RECEIVED"]

RunInv ==
    /\ TypeOK /\ RetriesInLockstep /\ StepsSoFar
    /\ ContactAndScore /\ VerdictIsGuarded /\ ActsBehindGate
    /\ EscalatedOnce /\ EscalationIsJustified

WorkflowInv == RunInv /\ RowBeforeAudit /\ RowsTellTheRun

\* The changes the guardrail made to the verdict of a scored lead: at most two.
GuardrailChanges ==
    (IF agent.priority # agent.score.priority THEN 1 ELSE 0)
  + (IF BelowGate(agent.score.confidence) /\ agent.score.next_action # "ESCALATE"
     THEN 1 ELSE 0)

\* The trail in memory has an entry for each of them, from the scoring node on.
OverridesCounted ==
    Occurrences("GUARDRAIL_OVERRIDE", agent.audit_logs) =
        IF agent.score \in Scores THEN GuardrailChanges ELSE 0

AuditInv == WorkflowInv /\ OverridesCounted /\ OverridesAreAudited

-----------------------------------------------------------------------------
(* Counting the entries of a trail                                           *)

\* A sequence holds finitely many copies of a value, none when it is empty.
LEMMA OccurrencesType ==
    ASSUME NEW S, NEW s \in Seq(S), NEW x
    PROVE  /\ IsFiniteSet({i \in DOMAIN s : s[i] = x})
           /\ Occurrences(x, s) \in Nat
<1>1. DOMAIN s = 1..Len(s) /\ Len(s) \in Nat
    OBVIOUS
<1>2. IsFiniteSet(DOMAIN s)
    BY <1>1, FS_Interval
<1>3. IsFiniteSet({i \in DOMAIN s : s[i] = x})
    BY <1>2, FS_Subset
<1> QED
    BY <1>3, FS_CardinalityType DEF Occurrences

\* A value that is nowhere in the sequence is not counted.
LEMMA NoOccurrence ==
    ASSUME NEW s, NEW x, \A i \in DOMAIN s : s[i] # x
    PROVE  Occurrences(x, s) = 0
<1>1. {i \in DOMAIN s : s[i] = x} = {}
    OBVIOUS
<1> QED
    BY <1>1, FS_EmptySet DEF Occurrences

\* Appending a value adds one to its own count and nothing to the others.
LEMMA OccurrencesAppend ==
    ASSUME NEW S, NEW s \in Seq(S), NEW e \in S, NEW x
    PROVE  Occurrences(x, Append(s, e)) =
               IF e = x THEN Occurrences(x, s) + 1 ELSE Occurrences(x, s)
<1> DEFINE t    == Append(s, e)
           A    == {i \in DOMAIN s : s[i] = x}
           n    == Len(s) + 1
<1>1. /\ DOMAIN t = DOMAIN s \union {n} /\ n \notin DOMAIN s
      /\ t[n] = e
      /\ \A i \in DOMAIN s : t[i] = s[i]
    OBVIOUS
<1>2. IsFiniteSet(A) /\ n \notin A
    BY <1>1, OccurrencesType
<1> HIDE DEF t, n
<1>3. CASE e = x
    <2>1. {i \in DOMAIN t : t[i] = x} = A \union {n}
        BY <1>1, <1>3
    <2>2. Cardinality(A \union {n}) = Cardinality(A) + 1
        BY <1>2, FS_AddElement
    <2> QED
        BY <1>3, <2>1, <2>2 DEF Occurrences, t
<1>4. CASE e # x
    <2>1. {i \in DOMAIN t : t[i] = x} = A
        BY <1>1, <1>4
    <2> QED
        BY <1>4, <2>1 DEF Occurrences, t
<1> QED
    BY <1>3, <1>4

\* The counts of two sequences add up when they are joined.
LEMMA OccurrencesConcat ==
    ASSUME NEW S, NEW s \in Seq(S), NEW t \in Seq(S), NEW x
    PROVE  Occurrences(x, s \o t) = Occurrences(x, s) + Occurrences(x, t)
<1> DEFINE n == Len(s)
           m == Len(t)
           A == {i \in DOMAIN s : s[i] = x}
           C == {j \in DOMAIN t : t[j] = x}
           B == {i \in (n + 1)..(n + m) : t[i - n] = x}
           f == [j \in C |-> j + n]
<1>1. /\ n \in Nat /\ m \in Nat
      /\ DOMAIN s = 1..n /\ DOMAIN t = 1..m /\ DOMAIN (s \o t) = 1..(n + m)
      /\ \A i \in 1..n : (s \o t)[i] = s[i]
      /\ \A i \in (n + 1)..(n + m) : (s \o t)[i] = t[i - n]
    OBVIOUS
<1>2. IsFiniteSet(A) /\ IsFiniteSet(C)
    BY OccurrencesType
<1> HIDE DEF n, m
<1>3. f \in Bijection(C, B)
    <2>1. f \in [C -> B]
        <3> SUFFICES ASSUME NEW j \in C PROVE j + n \in B
            OBVIOUS
        <3>1. j \in 1..m /\ t[j] = x
            BY <1>1
        <3>2. j + n \in (n + 1)..(n + m) /\ (j + n) - n = j
            BY <1>1, <3>1
        <3> QED
            BY <3>1, <3>2
    <2>2. \A j, k \in C : f[j] = f[k] => j = k
        BY <1>1
    <2>3. ASSUME NEW i \in B PROVE \E j \in C : f[j] = i
        <3>1. i \in (n + 1)..(n + m) /\ t[i - n] = x
            OBVIOUS
        <3>2. i - n \in 1..m /\ (i - n) + n = i
            BY <1>1, <3>1
        <3>3. i - n \in C
            BY <1>1, <3>1, <3>2
        <3> QED
            BY <3>2, <3>3
    <2> QED
        BY <2>1, <2>2, <2>3 DEF Bijection, Injection, Surjection, IsInjective
<1>4. IsFiniteSet(B) /\ Cardinality(B) = Cardinality(C)
    BY <1>2, <1>3, FS_Bijection DEF ExistsBijection
<1>5. {i \in DOMAIN (s \o t) : (s \o t)[i] = x} = A \union B
    BY <1>1
<1>6. A \intersect B = {}
    BY <1>1
<1>7. Cardinality(A \union B) = Cardinality(A) + Cardinality(B)
    <2>1. Cardinality(A) \in Nat /\ Cardinality(B) \in Nat
        BY <1>2, <1>4, FS_CardinalityType
    <2>2. Cardinality(A \union B) =
              Cardinality(A) + Cardinality(B) - Cardinality(A \intersect B)
        BY <1>2, <1>4, FS_Union
    <2>3. Cardinality(A \intersect B) = 0
        BY <1>6, FS_EmptySet
    <2> QED
        BY <2>1, <2>2, <2>3
<1> QED
    BY <1>4, <1>5, <1>7 DEF Occurrences

-----------------------------------------------------------------------------
(* The rule engine and the guardrail                                         *)

\* What process_lead of the engine promises for every context: it halts exactly for
\* a missing address or a low confidence, a halted decision asks for a human and
\* carries no class, any other carries a class and an autonomous action.
LEMMA EngineVerdict ==
    ASSUME NEW ctx \in Contexts
    PROVE  /\ EvaluateRules(ctx) \in Decisions
           /\ EvaluateRules(ctx).halted <=> ~ctx.email \/ BelowGate(ctx.confidence)
           /\ EvaluateRules(ctx).halted =>
                 /\ EvaluateRules(ctx).action \in {"ASK_USER", "ESCALATE"}
                 /\ EvaluateRules(ctx).priority = "UNASSIGNED"
           /\ ~EvaluateRules(ctx).halted =>
                 /\ EvaluateRules(ctx).action \in Autonomous
                 /\ EvaluateRules(ctx).priority \in Classified
<1> DEFINE g == Guarded(ctx)
           r == Routed(ctx, g)
<1>1. /\ g \in Decisions
      /\ g.priority = "UNASSIGNED"
      /\ g.halted <=> ~ctx.email \/ BelowGate(ctx.confidence)
      /\ g.halted => g.action \in {"ASK_USER", "ESCALATE"}
    BY DEF Contexts, Decisions, Guarded, MissingEmailRule, LowConfidenceRule, BelowGate,
           NewDecision, Priorities, Classified, Actions, Autonomous, Queues
<1>2. /\ r \in Decisions
      /\ r.priority \in Classified
      /\ r.halted = g.halted
    <2> DEFINE a == HighBudgetRule(ctx, g)
               b == DecisionMakerRoutingRule(ctx, a)
               c == FreemailDowngradeRule(ctx, b)
    <2>1. a \in Decisions /\ a.halted = g.halted /\ a.priority \in {"UNASSIGNED", "HIGH"}
        BY <1>1 DEF HighBudgetRule, Decisions, Priorities, Classified
    <2>2. b \in Decisions /\ b.halted = g.halted
        BY <2>1 DEF DecisionMakerRoutingRule, AtLeast, Decisions, Priorities, Classified,
                    Queues
    <2>3. c \in Decisions /\ c.halted = g.halted
        BY <2>2 DEF FreemailDowngradeRule, AtLeast, Decisions, Priorities, Classified
    <2>4. r = AtLeast(c, "MEDIUM")
        BY DEF Routed
    <2> QED
        BY <2>3, <2>4 DEF AtLeast, Decisions, Priorities, Classified
<1>3. EvaluateRules(ctx) = IF g.halted THEN g
                           ELSE [r EXCEPT !.action = DeriveAction(r.priority, r.queue)]
    BY DEF EvaluateRules
<1>4. CASE g.halted
    BY <1>1, <1>3, <1>4
<1>5. CASE ~g.halted
    BY <1>1, <1>2, <1>3, <1>5 DEF DeriveAction, Decisions, Actions, Autonomous
<1> QED
    BY <1>1, <1>4, <1>5 DEF Decisions

\* The context the workflow hands to the rules is a context of the engine.
LEMMA ContextType ==
    ASSUME TypeOK, NEW c \in 0..100
    PROVE  ContextWith(c) \in Contexts
BY WorkflowAssumption DEF TypeOK, Leads, AgentStates, ContextWith, Contexts

\* Clamping makes a percentage of any number, and of NaN.
LEMMA ClampedType ==
    ASSUME NEW c \in Confidences
    PROVE  Clamped(c) \in 0..100
BY WorkflowAssumption DEF Clamped

\* A usable answer of the model is a score with what the model said.
LEMMA AnswersAreClamped ==
    ASSUME NEW score \in ModelScores
    PROVE  /\ score \in Scores
           /\ score.source = "llm"
           /\ \A c \in score.said : score.confidence = Clamped(c)
<1>1. PICK p \in Classified, c \in Confidences, a \in ModelActions :
         score = [priority |-> p, confidence |-> Clamped(c), next_action |-> a,
                  source |-> "llm", said |-> {c}]
    BY DEF ModelScores
<1>2. Clamped(c) \in 0..100
    BY ClampedType
<1> QED
    BY <1>1, <1>2 DEF Scores

\* The fallback is a score like the model's, marked as one and with its confidence.
LEMMA FallbackIsFlagged ==
    ASSUME TypeOK
    PROVE  /\ RulesFallback \in Scores
           /\ RulesFallback.source = "rules_fallback"
           /\ RulesFallback.confidence = FallbackConfidence
           /\ RulesFallback.said = {}
<1> DEFINE d == EvaluateRules(ContextWith(100))
<1>1. d \in Decisions
    BY ContextType, EngineVerdict
<1>2. d.action \in ModelActions
    BY <1>1 DEF Decisions, ModelActions
<1> HIDE DEF d
<1>3. RulesFallback = [priority    |-> IF d.priority \in Classified THEN d.priority
                                      ELSE "MEDIUM",
                       confidence  |-> FallbackConfidence,
                       next_action |-> d.action,
                       source      |-> "rules_fallback",
                       said        |-> {}]
    BY DEF RulesFallback, d
<1> QED
    BY <1>2, <1>3, WorkflowAssumption DEF Scores, Classified

\* Guardrails A and B over any score: a class at least as strict as the score's, and an
\* action that is autonomous or an escalation, which below the gate it always is and
\* above it never for a lead with an address.
LEMMA GuardrailVerdict ==
    ASSUME TypeOK, NEW score \in Scores
    PROVE  LET rules    == EvaluateRules(ContextWith(score.confidence))
               priority == FinalPriority(score, rules)
               action   == FinalAction(priority, rules)
           IN  /\ priority \in Classified
               /\ \/ priority = score.priority
                  \/ PriorityRank[priority] < PriorityRank[score.priority]
               /\ action \in Autonomous \union {"ESCALATE"}
               /\ lead.email => (action = "ESCALATE" <=> BelowGate(score.confidence))
               /\ Overrides(score, priority, action) \in Seq(AuditTypes)
<1> DEFINE ctx      == ContextWith(score.confidence)
           rules    == EvaluateRules(ctx)
           priority == FinalPriority(score, rules)
           action   == FinalAction(priority, rules)
<1>1. score.confidence \in 0..100 /\ score.priority \in Classified
    BY DEF Scores
<1>2. ctx \in Contexts /\ ctx.email = lead.email /\ ctx.confidence = score.confidence
    BY <1>1, ContextType DEF ContextWith
<1>3. /\ rules \in Decisions
      /\ rules.halted <=> ~lead.email \/ BelowGate(score.confidence)
      /\ rules.halted => rules.action \in {"ASK_USER", "ESCALATE"}
      /\ ~rules.halted => rules.action \in Autonomous
    BY <1>2, EngineVerdict
<1> HIDE DEF rules
<1>4. /\ priority \in Classified
      /\ priority = score.priority \/ PriorityRank[priority] < PriorityRank[score.priority]
    BY <1>1, <1>3 DEF FinalPriority, Decisions, Priorities
<1>5. /\ action \in Autonomous \union {"ESCALATE"}
      /\ lead.email => (action = "ESCALATE" <=> BelowGate(score.confidence))
    BY <1>3 DEF FinalAction, DeriveAction, Autonomous
<1>6. Overrides(score, priority, action) \in Seq(AuditTypes)
    <2>1. <<"GUARDRAIL_OVERRIDE">> \in Seq(AuditTypes) /\ <<>> \in Seq(AuditTypes)
        BY DEF AuditTypes
    <2> QED
        BY <2>1 DEF Overrides
<1> QED
    BY <1>4, <1>5, <1>6 DEF rules

-----------------------------------------------------------------------------
(* The invariant is inductive                                                *)

\* A fresh AgentState is well typed.
LEMMA NewAgentStateType == NewAgentState \in AgentStates
<1>1. /\ NewAgentState.tool_history \in Seq(Tools)
      /\ NewAgentState.audit_logs \in Seq(AuditTypes)
    BY DEF NewAgentState
<1> QED
    BY <1>1, WorkflowAssumption
       DEF AgentStates, NewAgentState, WorkflowStatuses, Enrichments, Priorities

\* The invariant holds of a queued task on a new lead.
LEMMA InitEstablishesInv == Init => WorkflowInv
<1> SUFFICES ASSUME Init PROVE WorkflowInv
    OBVIOUS
<1>1. TypeOK
    <2>1. agent \in AgentStates
        BY NewAgentStateType DEF Init
    <2>2. row \in Rows
        BY DEF Init, Rows, WorkflowStatuses, Priorities
    <2> QED
        BY <2>1, <2>2 DEF Init, TypeOK, Locations
<1>2. NoScore \notin Scores
    BY DEF NoScore, Scores, Classified, None
<1> QED
    BY <1>1, <1>2, WorkflowAssumption
       DEF WorkflowInv, RunInv, Init, NewAgentState, RetriesInLockstep, StepsSoFar,
           ContactAndScore, VerdictIsGuarded, ActsBehindGate, EscalatedOnce,
           EscalationIsJustified, RowBeforeAudit, RowsTellTheRun, Looping, Processing,
           Saving, Ended, Autonomous

\* The trails stay sequences of their entries.
LEMMA LogsAreTyped ==
    ASSUME TypeOK
    PROVE  /\ \A type \in AuditTypes : Logged(type) \in Seq(AuditTypes)
           /\ \A tool \in Tools : Called(tool) \in Seq(Tools)
BY DEF TypeOK, AgentStates, Logged, Called

\* node_audit writes one row per tool call.
LEMMA ToolRowsType ==
    ASSUME TypeOK
    PROVE  ToolRows \in Seq(AuditTypes) /\ Len(ToolRows) = Len(agent.tool_history)
<1>1. agent.tool_history \in Seq(Tools)
    BY DEF TypeOK, AgentStates
<1> QED
    BY <1>1 DEF ToolRows, AuditTypes

\* The missing score is told apart from every real one.
LEMMA NoScoreIsNone == NoScore \notin Scores
BY DEF NoScore, Scores, Classified, None

\* Starting the stream resets only what was still fresh.
LEMMA ProcessLeadKeepsInv == RunInv /\ ProcessLead => RunInv'
<1> SUFFICES ASSUME RunInv, ProcessLead PROVE RunInv'
    OBVIOUS
<1>1. TypeOK'
    BY NewAgentStateType DEF RunInv, TypeOK, ProcessLead, Locations, Nodes
<1>2. RetriesInLockstep' /\ StepsSoFar'
    BY DEF RunInv, ProcessLead, RetriesInLockstep, StepsSoFar, NewAgentState,
           Looping, Saving, Ended
<1>3. ContactAndScore' /\ VerdictIsGuarded' /\ ActsBehindGate'
    BY NoScoreIsNone
       DEF RunInv, ProcessLead, NewAgentState, ContactAndScore, VerdictIsGuarded,
           ActsBehindGate, Looping, Processing, Saving, Ended, Autonomous
<1>4. EscalatedOnce' /\ EscalationIsJustified'
    BY DEF RunInv, ProcessLead, NewAgentState, EscalatedOnce, EscalationIsJustified,
           Saving, Ended
<1> QED
    BY <1>1, <1>2, <1>3, <1>4 DEF RunInv

\* A run that ends early leaves everything but pc alone.
LEMMA RaiseKeepsInv == RunInv /\ Raise => RunInv'
<1> SUFFICES ASSUME RunInv, Raise PROVE RunInv'
    OBVIOUS
<1>1. TypeOK'
    BY DEF RunInv, TypeOK, Raise, Locations
<1>2. agent.retry_count \in Nat /\ steps \in Nat
    BY DEF RunInv, TypeOK, AgentStates
<1>3. RetriesInLockstep' /\ StepsSoFar'
    BY <1>2 DEF RunInv, Raise, RetriesInLockstep, StepsSoFar, Looping, Saving, Ended
<1>4. ContactAndScore' /\ VerdictIsGuarded' /\ ActsBehindGate'
    BY DEF RunInv, Raise, ContactAndScore, VerdictIsGuarded, ActsBehindGate,
           Looping, Processing, Saving, Ended, Autonomous
<1>5. EscalatedOnce' /\ EscalationIsJustified'
    BY DEF RunInv, Raise, EscalatedOnce, EscalationIsJustified, Saving, Ended
<1> QED
    BY <1>1, <1>3, <1>4, <1>5 DEF RunInv

\* receive_lead logs the ingestion.
LEMMA ReceiveLeadKeepsInv == RunInv /\ NodeReceiveLead => RunInv'
<1> SUFFICES ASSUME RunInv, NodeReceiveLead PROVE RunInv'
    OBVIOUS
<1>1. agent' \in AgentStates
    BY LogsAreTyped
       DEF RunInv, TypeOK, NodeReceiveLead, Run, AgentStates, WorkflowStatuses,
           AuditTypes
<1>2. /\ agent'.status = "RECEIVED"
      /\ agent'.retry_count = agent.retry_count
      /\ agent'.enrichment_retry_count = agent.enrichment_retry_count
      /\ agent'.priority = agent.priority
      /\ agent'.confidence = agent.confidence
      /\ agent'.next_action = agent.next_action
      /\ agent'.score = agent.score
      /\ agent'.draft_email = agent.draft_email
      /\ agent.retry_count \in Nat
    BY DEF RunInv, TypeOK, NodeReceiveLead, Run, AgentStates
<1>3. TypeOK'
    BY <1>1 DEF RunInv, TypeOK, NodeReceiveLead, Run, Locations, Nodes
<1>4. RetriesInLockstep' /\ StepsSoFar'
    BY <1>2, <1>3 DEF RunInv, TypeOK, NodeReceiveLead, Run, RetriesInLockstep,
        StepsSoFar, Looping, Saving, Ended
<1>5. ContactAndScore' /\ VerdictIsGuarded' /\ ActsBehindGate'
    BY <1>2, NoScoreIsNone DEF RunInv, NodeReceiveLead, Run, ContactAndScore,
        VerdictIsGuarded, ActsBehindGate, Looping, Processing, Saving, Ended, Autonomous
<1>6. EscalatedOnce' /\ EscalationIsJustified'
    BY <1>2 DEF RunInv, NodeReceiveLead, Run, EscalatedOnce, EscalationIsJustified,
        Saving, Ended
<1> QED
    BY <1>3, <1>4, <1>5, <1>6 DEF RunInv

\* validate finds exactly the missing address, and keeps the retry counters.
LEMMA ValidateKeepsInv == RunInv /\ NodeValidate => RunInv'
<1> SUFFICES ASSUME RunInv, NodeValidate PROVE RunInv'
    OBVIOUS
<1>1. agent' \in AgentStates
    <2>1. PICK errors \in BOOLEAN :
             agent' = [agent EXCEPT !.status = "VALIDATING", !.validation_errors = errors,
                                    !.audit_logs = Logged("STATE_TRANSITION")]
        BY Zenon DEF NodeValidate, Run
    <2>2. Logged("STATE_TRANSITION") \in Seq(AuditTypes)
        BY LogsAreTyped DEF RunInv, AuditTypes
    <2>3. agent \in AgentStates
        BY DEF RunInv, TypeOK
    <2> QED
        BY <2>1, <2>2, <2>3 DEF AgentStates, WorkflowStatuses
<1>2. /\ agent'.status = "VALIDATING"
      /\ agent'.retry_count = agent.retry_count
      /\ agent'.enrichment_retry_count = agent.enrichment_retry_count
      /\ agent'.priority = agent.priority
      /\ agent'.confidence = agent.confidence
      /\ agent'.next_action = agent.next_action
      /\ agent'.score = agent.score
      /\ agent'.draft_email = agent.draft_email
      /\ agent.retry_count \in Nat
    BY DEF RunInv, TypeOK, NodeValidate, Run, AgentStates
<1>3. TypeOK'
    BY <1>1 DEF RunInv, TypeOK, NodeValidate, Run, Locations, Nodes,
        RouteAfterValidate
<1>4. RetriesInLockstep' /\ StepsSoFar'
    BY <1>2, <1>3 DEF RunInv, TypeOK, NodeValidate, Run, RouteAfterValidate,
        RetriesInLockstep, StepsSoFar, Looping, Saving, Ended
<1>5. ContactAndScore' /\ VerdictIsGuarded' /\ ActsBehindGate'
    BY <1>2, NoScoreIsNone DEF RunInv, NodeValidate, Run, RouteAfterValidate,
        ContactAndScore, VerdictIsGuarded, ActsBehindGate, Looping, Processing, Saving,
        Ended, Autonomous
<1>6. EscalatedOnce' /\ EscalationIsJustified'
    BY <1>2 DEF RunInv, NodeValidate, Run, RouteAfterValidate, EscalatedOnce,
        EscalationIsJustified, Saving, Ended
<1> QED
    BY <1>3, <1>4, <1>5, <1>6 DEF RunInv

\* Whatever the duplicate query answers, only leads with an address come this far.
LEMMA CrmLookupKeepsInv == RunInv /\ NodeCrmLookup => RunInv'
<1> SUFFICES ASSUME RunInv, NodeCrmLookup PROVE RunInv'
    OBVIOUS
<1>1. agent' \in AgentStates
    <2>1. PICK exists \in BOOLEAN :
              agent' = [agent EXCEPT !.exists_in_crm = exists,
                                     !.audit_logs = Logged("TOOL_INVOCATION")]
        BY WorkflowAssumption DEF NodeCrmLookup, Run
    <2> QED
        BY <2>1, LogsAreTyped
           DEF RunInv, TypeOK, AgentStates, WorkflowStatuses,
           AuditTypes
<1>2. /\ agent'.status = agent.status
      /\ agent'.retry_count = agent.retry_count
      /\ agent'.enrichment_retry_count = agent.enrichment_retry_count
      /\ agent'.priority = agent.priority
      /\ agent'.confidence = agent.confidence
      /\ agent'.next_action = agent.next_action
      /\ agent'.score = agent.score
      /\ agent'.draft_email = agent.draft_email
      /\ agent.retry_count \in Nat
    BY DEF RunInv, TypeOK, NodeCrmLookup, Run, AgentStates
<1>3. TypeOK'
    BY <1>1 DEF RunInv, TypeOK, NodeCrmLookup, Run, Locations, Nodes, RouteAfterCrm
<1>4. RetriesInLockstep' /\ StepsSoFar'
    BY <1>2, <1>3 DEF RunInv, TypeOK, NodeCrmLookup, Run, RouteAfterCrm,
        RetriesInLockstep, StepsSoFar, Looping, Saving, Ended
<1>5. ContactAndScore' /\ VerdictIsGuarded' /\ ActsBehindGate'
    BY <1>2, NoScoreIsNone DEF RunInv, NodeCrmLookup, Run, RouteAfterCrm,
        ContactAndScore, VerdictIsGuarded, ActsBehindGate, Looping, Processing, Saving,
        Ended, Autonomous
<1>6. EscalatedOnce' /\ EscalationIsJustified'
    BY <1>2 DEF RunInv, NodeCrmLookup, Run, RouteAfterCrm, EscalatedOnce,
        EscalationIsJustified, Saving, Ended
<1> QED
    BY <1>3, <1>4, <1>5, <1>6 DEF RunInv

\* A failed call is counted; only while the count is below the ceiling does it loop.
LEMMA EnrichmentKeepsInv == RunInv /\ NodeEnrichment => RunInv'
<1> SUFFICES ASSUME RunInv, NodeEnrichment PROVE RunInv'
    OBVIOUS
<1> DEFINE e == agent.enrichment_retry_count
<1>1. PICK answer \in EnrichmentAnswers :
          LET failed == answer = "failed"
              count  == IF failed THEN e + 1 ELSE e
          IN  /\ agent' = [agent EXCEPT !.status = "ENRICHING",
                                        !.enrichment_retry_count = count,
                                        !.enrichment = answer,
                                        !.tool_history = Called("enrich_lead_domain"),
                                        !.audit_logs = Logged("TOOL_INVOCATION")]
              /\ pc' = RouteAfterEnrichment(failed, count)
    BY DEF NodeEnrichment, Run
<1>2. /\ pc = "enrichment" /\ steps' = steps + 1
      /\ UNCHANGED <<lead, notified, row, loaded>>
    BY DEF NodeEnrichment, Run
<1>3. /\ agent \in AgentStates /\ steps \in Nat
      /\ agent.retry_count \in Nat /\ e = agent.retry_count /\ e < MaxRetries
    <2>1. agent \in AgentStates /\ steps \in Nat
        BY DEF RunInv, TypeOK
    <2>2. agent.retry_count \in 0..(MaxRetries - 1)
        BY <2>1 DEF AgentStates
    <2> QED
        BY <1>2, <2>1, <2>2, WorkflowAssumption DEF RunInv, RetriesInLockstep, Looping
<1>4. agent' \in AgentStates
    <2> DEFINE count == IF answer = "failed" THEN e + 1 ELSE e
    <2>1. count \in 0..MaxRetries
        BY <1>3, WorkflowAssumption
    <2>2. answer \in Enrichments
        BY DEF EnrichmentAnswers, Enrichments
    <2>3. /\ Logged("TOOL_INVOCATION") \in Seq(AuditTypes)
          /\ Called("enrich_lead_domain") \in Seq(Tools)
        BY LogsAreTyped DEF RunInv, AuditTypes, Tools
    <2> HIDE DEF count
    <2>4. agent' = [agent EXCEPT !.status = "ENRICHING",
                                 !.enrichment_retry_count = count,
                                 !.enrichment = answer,
                                 !.tool_history = Called("enrich_lead_domain"),
                                 !.audit_logs = Logged("TOOL_INVOCATION")]
        BY <1>1 DEF count
    <2> QED
        BY <1>3, <2>1, <2>2, <2>3, <2>4 DEF AgentStates, WorkflowStatuses
<1>5. /\ agent'.status = "ENRICHING"
      /\ agent'.retry_count = agent.retry_count
      /\ agent'.priority = agent.priority
      /\ agent'.confidence = agent.confidence
      /\ agent'.next_action = agent.next_action
      /\ agent'.score = agent.score
      /\ agent'.draft_email = agent.draft_email
    BY <1>1, <1>3 DEF AgentStates
<1>6. \/ pc' = "lead_score"
      \/ pc' = "retry" /\ agent'.enrichment_retry_count = e + 1 /\ e + 1 < MaxRetries
    BY <1>1, <1>3 DEF RouteAfterEnrichment, AgentStates
<1>7. TypeOK'
    BY <1>2, <1>3, <1>4, <1>6 DEF RunInv, TypeOK, Locations, Nodes
<1>8. RetriesInLockstep' /\ StepsSoFar'
    BY <1>2, <1>3, <1>5, <1>6
       DEF RunInv, RetriesInLockstep, StepsSoFar, Looping, Saving, Ended
<1>9. ContactAndScore' /\ VerdictIsGuarded' /\ ActsBehindGate'
    BY <1>2, <1>5, <1>6, NoScoreIsNone
       DEF RunInv, ContactAndScore, VerdictIsGuarded, ActsBehindGate, Looping,
           Processing, Saving, Ended, Autonomous
<1>10. EscalatedOnce' /\ EscalationIsJustified'
    BY <1>2, <1>5, <1>6 DEF RunInv, EscalatedOnce, EscalationIsJustified, Saving, Ended
<1> QED
    BY <1>7, <1>8, <1>9, <1>10 DEF RunInv

\* retry counts in step with the enrichment failures, so it stays below the ceiling.
LEMMA RetryKeepsInv == RunInv /\ NodeRetry => RunInv'
<1> SUFFICES ASSUME RunInv, NodeRetry PROVE RunInv'
    OBVIOUS
<1>0. /\ pc = "retry" /\ pc' = "validate"
      /\ agent.retry_count + 1 < MaxRetries
    <2>1. agent.retry_count \in Nat /\ MaxRetries \in Nat
        BY WorkflowAssumption DEF RunInv, TypeOK, AgentStates
    <2>2. pc = "retry" /\ pc' = RouteAfterRetry(agent.retry_count + 1)
        BY DEF NodeRetry, Run
    <2> QED
        BY <2>1, <2>2 DEF RunInv, RetriesInLockstep, RouteAfterRetry
<1>1. agent' \in AgentStates
    <2>1. /\ agent' = [agent EXCEPT !.retry_count = agent.retry_count + 1,
                                  !.audit_logs = Logged("STATE_TRANSITION")]
          /\ agent \in AgentStates
        BY DEF RunInv, TypeOK, NodeRetry, Run
    <2>2. Logged("STATE_TRANSITION") \in Seq(AuditTypes)
        BY LogsAreTyped DEF RunInv, AuditTypes
    <2>3. agent.retry_count + 1 \in 0..(MaxRetries - 1)
        BY <1>0, <2>1, WorkflowAssumption DEF AgentStates
    <2> QED
        BY <2>1, <2>2, <2>3 DEF AgentStates
<1>2. /\ agent'.status = agent.status
      /\ agent'.retry_count = agent.retry_count + 1
      /\ agent'.enrichment_retry_count = agent.enrichment_retry_count
      /\ agent'.priority = agent.priority
      /\ agent'.confidence = agent.confidence
      /\ agent'.next_action = agent.next_action
      /\ agent'.score = agent.score
      /\ agent'.draft_email = agent.draft_email
      /\ agent.retry_count \in Nat
    BY DEF RunInv, TypeOK, NodeRetry, Run, AgentStates
<1>3. TypeOK'
    BY <1>1, <1>0 DEF RunInv, TypeOK, NodeRetry, Run, Locations, Nodes, Autonomous
<1>4. RetriesInLockstep' /\ StepsSoFar'
    BY <1>0, <1>2, <1>3 DEF RunInv, TypeOK, NodeRetry, Run, RetriesInLockstep,
        StepsSoFar, Looping, Saving, Ended
<1>5. ContactAndScore' /\ VerdictIsGuarded' /\ ActsBehindGate'
    BY <1>0, <1>2, NoScoreIsNone DEF RunInv, NodeRetry, Run, ContactAndScore,
        VerdictIsGuarded, ActsBehindGate, Looping, Processing, Saving, Ended, Autonomous
<1>6. EscalatedOnce' /\ EscalationIsJustified'
    BY <1>0, <1>2 DEF RunInv, NodeRetry, Run, EscalatedOnce, EscalationIsJustified,
        Saving, Ended
<1> QED
    BY <1>3, <1>4, <1>5, <1>6 DEF RunInv

\* Any model answer, or the fallback's, goes through both guardrails.
LEMMA LeadScoreKeepsInv == RunInv /\ NodeLeadScore => RunInv'
<1> SUFFICES ASSUME RunInv, NodeLeadScore PROVE RunInv'
    OBVIOUS
<1> DEFINE rules(score)    == EvaluateRules(ContextWith(score.confidence))
           priority(score) == FinalPriority(score, rules(score))
           action(score)   == FinalAction(priority(score), rules(score))
           updated(score)  ==
              [agent EXCEPT !.status = "ANALYZING",
                            !.priority = priority(score),
                            !.confidence = score.confidence,
                            !.next_action = action(score),
                            !.score = score,
                            !.tool_history = Called("llm_score_lead"),
                            !.audit_logs = Logged("LLM_REASONING")
                                \o Overrides(score, priority(score), action(score))]
<1>1. PICK score \in ModelScores \union {RulesFallback} : agent' = updated(score)
    BY DEF NodeLeadScore, Run
<1>2. /\ pc = "lead_score" /\ pc' = "decision" /\ steps' = steps + 1
      /\ UNCHANGED <<lead, notified, row, loaded>>
    BY DEF NodeLeadScore, Run
<1>3. TypeOK /\ agent \in AgentStates /\ agent.retry_count \in Nat /\ steps \in Nat
    BY DEF RunInv, TypeOK, AgentStates
<1>4. /\ score \in Scores
      /\ score.source = "rules_fallback" => score.confidence = FallbackConfidence
      /\ \A c \in score.said : score.confidence = Clamped(c)
    <2>1. CASE score \in ModelScores
        BY <2>1, AnswersAreClamped
    <2>2. CASE score = RulesFallback
        BY <1>3, <2>2, FallbackIsFlagged
    <2> QED
        BY <1>1, <2>1, <2>2
<1>5. /\ priority(score) \in Classified
      /\ \/ priority(score) = score.priority
         \/ PriorityRank[priority(score)] < PriorityRank[score.priority]
      /\ action(score) \in Autonomous \union {"ESCALATE"}
      /\ lead.email => (action(score) = "ESCALATE" <=> BelowGate(score.confidence))
      /\ Overrides(score, priority(score), action(score)) \in Seq(AuditTypes)
    BY <1>3, <1>4, GuardrailVerdict
<1> HIDE DEF priority, action
<1>6. agent' \in AgentStates
    <2>1. /\ Logged("LLM_REASONING") \in Seq(AuditTypes)
          /\ Called("llm_score_lead") \in Seq(Tools)
        BY <1>3, LogsAreTyped DEF AuditTypes, Tools
    <2>2. Logged("LLM_REASONING") \o Overrides(score, priority(score), action(score))
            \in Seq(AuditTypes)
        BY <1>5, <2>1
    <2>3. score.confidence \in 0..100
        BY <1>4 DEF Scores
    <2> QED
        BY <1>1, <1>3, <1>4, <1>5, <2>1, <2>2, <2>3
           DEF AgentStates, WorkflowStatuses, Priorities, Actions
<1>7. /\ agent'.status = "ANALYZING"
      /\ agent'.retry_count = agent.retry_count
      /\ agent'.priority = priority(score)
      /\ agent'.confidence = score.confidence
      /\ agent'.next_action = action(score)
      /\ agent'.score = score
      /\ agent'.draft_email = agent.draft_email
    BY <1>1, <1>3 DEF AgentStates
<1>8. TypeOK'
    BY <1>2, <1>3, <1>6 DEF TypeOK, Locations, Nodes
<1>9. RetriesInLockstep' /\ StepsSoFar'
    BY <1>2, <1>3, <1>7 DEF RunInv, RetriesInLockstep, StepsSoFar, Looping, Saving, Ended
<1>10. lead.email
    BY <1>2 DEF RunInv, ContactAndScore, Processing
<1>11. ContactAndScore' /\ VerdictIsGuarded'
    BY <1>2, <1>4, <1>5, <1>7, <1>10
       DEF RunInv, ContactAndScore, VerdictIsGuarded, Looping, Processing
<1>12. ActsBehindGate' /\ EscalatedOnce' /\ EscalationIsJustified'
    BY <1>2, <1>7
       DEF RunInv, ActsBehindGate, EscalatedOnce, EscalationIsJustified, Saving, Ended,
           Autonomous
<1> QED
    BY <1>8, <1>9, <1>11, <1>12 DEF RunInv

\* decision routes to an autonomous node only at or above the gate.
LEMMA DecisionKeepsInv == RunInv /\ NodeDecision => RunInv'
<1> SUFFICES ASSUME RunInv, NodeDecision PROVE RunInv'
    OBVIOUS
<1>0. /\ pc = "decision" /\ agent.score \in Scores /\ agent.next_action # None
      /\ \/ pc' = "escalate" /\ BelowGate(agent.score.confidence)
         \/ pc' \in Autonomous /\ ~BelowGate(agent.score.confidence)
    BY DEF RunInv, TypeOK, NodeDecision, Run, RouteAfterDecision, BelowGate,
        ContactAndScore, VerdictIsGuarded, Autonomous, None, AgentStates
<1>1. agent' \in AgentStates
    <2>1. PICK action \in Actions : agent' = [agent EXCEPT !.next_action = action]
        BY <1>0 DEF RunInv, TypeOK, NodeDecision, Run, AgentStates
    <2>2. agent \in AgentStates
        BY DEF RunInv, TypeOK
    <2> QED
        BY <2>1, <2>2 DEF AgentStates
<1>2. /\ agent'.status = agent.status
      /\ agent'.retry_count = agent.retry_count
      /\ agent'.enrichment_retry_count = agent.enrichment_retry_count
      /\ agent'.priority = agent.priority
      /\ agent'.confidence = agent.confidence
      /\ agent'.next_action = agent.next_action
      /\ agent'.score = agent.score
      /\ agent'.draft_email = agent.draft_email
      /\ agent.retry_count \in Nat
    BY <1>0 DEF RunInv, TypeOK, NodeDecision, Run, AgentStates
<1>3. TypeOK'
    BY <1>1, <1>0 DEF RunInv, TypeOK, NodeDecision, Run, Locations, Nodes, Autonomous
<1>4. RetriesInLockstep' /\ StepsSoFar'
    BY <1>0, <1>2, <1>3 DEF RunInv, TypeOK, NodeDecision, Run, RetriesInLockstep,
        StepsSoFar, Looping, Saving, Ended, Autonomous
<1>5. ContactAndScore' /\ VerdictIsGuarded' /\ ActsBehindGate'
    BY <1>0, <1>2, NoScoreIsNone DEF RunInv, NodeDecision, Run, ContactAndScore,
        VerdictIsGuarded, ActsBehindGate, Looping, Processing, Saving, Ended, Autonomous
<1>6. EscalatedOnce' /\ EscalationIsJustified'
    BY <1>0, <1>2 DEF RunInv, NodeDecision, Run, EscalatedOnce,
        EscalationIsJustified, Saving, Ended, Autonomous
<1> QED
    BY <1>3, <1>4, <1>5, <1>6 DEF RunInv

\* The draft is made behind the gate.
LEMMA GenerateFollowUpKeepsInv == RunInv /\ NodeGenerateFollowUp => RunInv'
<1> SUFFICES ASSUME RunInv, NodeGenerateFollowUp PROVE RunInv'
    OBVIOUS
<1>1. agent' \in AgentStates
    BY LogsAreTyped
       DEF RunInv, TypeOK, NodeGenerateFollowUp, Run, AgentStates,
           WorkflowStatuses, AuditTypes
<1>2. /\ agent'.status = agent.status
      /\ agent'.retry_count = agent.retry_count
      /\ agent'.enrichment_retry_count = agent.enrichment_retry_count
      /\ agent'.priority = agent.priority
      /\ agent'.confidence = agent.confidence
      /\ agent'.next_action = agent.next_action
      /\ agent'.score = agent.score
      /\ agent'.draft_email = TRUE
      /\ agent.retry_count \in Nat
    BY DEF RunInv, TypeOK, NodeGenerateFollowUp, Run, AgentStates
<1>3. TypeOK'
    BY <1>1 DEF RunInv, TypeOK, NodeGenerateFollowUp, Run, Locations, Nodes
<1>4. RetriesInLockstep' /\ StepsSoFar'
    BY <1>2, <1>3 DEF RunInv, TypeOK, NodeGenerateFollowUp, Run, RetriesInLockstep,
        StepsSoFar, Looping, Saving, Ended
<1>5. ContactAndScore' /\ VerdictIsGuarded' /\ ActsBehindGate'
    BY <1>2, NoScoreIsNone DEF RunInv, NodeGenerateFollowUp, Run, ContactAndScore,
        VerdictIsGuarded, ActsBehindGate, Looping, Processing, Saving, Ended, Autonomous
<1>6. EscalatedOnce' /\ EscalationIsJustified'
    BY <1>2 DEF RunInv, NodeGenerateFollowUp, Run, EscalatedOnce,
        EscalationIsJustified, Saving, Ended
<1> QED
    BY <1>3, <1>4, <1>5, <1>6 DEF RunInv

\* So is the notification, after which the run can only be audited.
LEMMA NotifyKeepsInv == RunInv /\ NodeNotify => RunInv'
<1> SUFFICES ASSUME RunInv, NodeNotify PROVE RunInv'
    OBVIOUS
<1>1. agent' \in AgentStates
    BY LogsAreTyped
       DEF RunInv, TypeOK, NodeNotify, Run, AgentStates, WorkflowStatuses,
           AuditTypes, Tools
<1>2. /\ agent'.status = "EXECUTING"
      /\ agent'.retry_count = agent.retry_count
      /\ agent'.enrichment_retry_count = agent.enrichment_retry_count
      /\ agent'.priority = agent.priority
      /\ agent'.confidence = agent.confidence
      /\ agent'.next_action = agent.next_action
      /\ agent'.score = agent.score
      /\ agent'.draft_email = agent.draft_email
      /\ agent.retry_count \in Nat
    BY DEF RunInv, TypeOK, NodeNotify, Run, AgentStates
<1>3. TypeOK'
    BY <1>1 DEF RunInv, TypeOK, NodeNotify, Run, Locations, Nodes
<1>4. RetriesInLockstep' /\ StepsSoFar'
    BY <1>2, <1>3 DEF RunInv, TypeOK, NodeNotify, Run, RetriesInLockstep,
        StepsSoFar, Looping, Saving, Ended
<1>5. ContactAndScore' /\ VerdictIsGuarded' /\ ActsBehindGate'
    BY <1>2, NoScoreIsNone DEF RunInv, NodeNotify, Run, ContactAndScore,
        VerdictIsGuarded, ActsBehindGate, Looping, Processing, Saving, Ended, Autonomous
<1>6. EscalatedOnce' /\ EscalationIsJustified'
    BY <1>2 DEF RunInv, NodeNotify, Run, EscalatedOnce, EscalationIsJustified,
        Saving, Ended
<1> QED
    BY <1>3, <1>4, <1>5, <1>6 DEF RunInv

\* escalate keeps the reason it was entered for.
LEMMA EscalateKeepsInv == RunInv /\ NodeEscalate => RunInv'
<1> SUFFICES ASSUME RunInv, NodeEscalate PROVE RunInv'
    OBVIOUS
<1>1. agent' \in AgentStates
    BY LogsAreTyped
       DEF RunInv, TypeOK, NodeEscalate, Run, AgentStates, WorkflowStatuses,
           AuditTypes
<1>2. /\ agent'.status = "ESCALATED"
      /\ agent'.retry_count = agent.retry_count
      /\ agent'.enrichment_retry_count = agent.enrichment_retry_count
      /\ agent'.priority = agent.priority
      /\ agent'.confidence = agent.confidence
      /\ agent'.next_action = agent.next_action
      /\ agent'.score = agent.score
      /\ agent'.draft_email = agent.draft_email
      /\ agent.retry_count \in Nat
    BY DEF RunInv, TypeOK, NodeEscalate, Run, AgentStates
<1>3. TypeOK'
    BY <1>1 DEF RunInv, TypeOK, NodeEscalate, Run, Locations, Nodes
<1>4. RetriesInLockstep' /\ StepsSoFar'
    BY <1>2, <1>3 DEF RunInv, TypeOK, NodeEscalate, Run, RetriesInLockstep,
        StepsSoFar, Looping, Saving, Ended
<1>5. ContactAndScore' /\ VerdictIsGuarded' /\ ActsBehindGate'
    BY <1>2, NoScoreIsNone DEF RunInv, NodeEscalate, Run, ContactAndScore,
        VerdictIsGuarded, ActsBehindGate, Looping, Processing, Saving, Ended, Autonomous
<1>6. EscalatedOnce' /\ EscalationIsJustified'
    BY <1>2 DEF RunInv, NodeEscalate, Run, ActsBehindGate, ContactAndScore,
        EscalatedOnce, EscalationIsJustified, Saving, Ended
<1> QED
    BY <1>3, <1>4, <1>5, <1>6 DEF RunInv

\* Loading sees the initial columns: nobody else writes them here.
LEMMA AuditLoadKeepsInv == RunInv /\ NodeAuditLoad => RunInv'
<1> SUFFICES ASSUME RunInv, NodeAuditLoad PROVE RunInv'
    OBVIOUS
<1>1. TypeOK'
    <2>1. row.priority \in Priorities /\ row.status \in WorkflowStatuses
        BY DEF RunInv, TypeOK, Rows
    <2> QED
        BY <2>1 DEF RunInv, TypeOK, NodeAuditLoad, Locations
<1>2. agent.retry_count \in Nat /\ steps \in Nat
    BY DEF RunInv, TypeOK, AgentStates
<1>3. RetriesInLockstep' /\ StepsSoFar'
    BY <1>2 DEF RunInv, NodeAuditLoad, RetriesInLockstep, StepsSoFar, Looping, Saving, Ended
<1>4. ContactAndScore' /\ VerdictIsGuarded' /\ ActsBehindGate'
    BY DEF RunInv, NodeAuditLoad, ContactAndScore, VerdictIsGuarded, ActsBehindGate,
           Looping, Processing, Saving, Ended, Autonomous
<1>5. EscalatedOnce' /\ EscalationIsJustified'
    BY DEF RunInv, NodeAuditLoad, EscalatedOnce, EscalationIsJustified, Saving, Ended
<1> QED
    BY <1>1, <1>3, <1>4, <1>5 DEF RunInv

\* What the node returns, whether its transaction committed or not.
LEMMA FinalizedAgent ==
    ASSUME RunInv, pc \in Saving, Finalized
    PROVE  /\ agent' \in AgentStates
           /\ agent'.status = IF notified THEN "COMPLETED" ELSE "ESCALATED"
           /\ agent'.status = FinalStatus
           /\ agent'.retry_count = agent.retry_count
           /\ agent'.enrichment_retry_count = agent.enrichment_retry_count
           /\ agent'.priority = agent.priority
           /\ agent'.confidence = agent.confidence
           /\ agent'.next_action = agent.next_action
           /\ agent'.score = agent.score
           /\ agent'.draft_email = agent.draft_email
           /\ agent'.tool_history = agent.tool_history
           /\ agent'.audit_logs = Append(agent.audit_logs, "STATE_TRANSITION")
           /\ agent.retry_count \in Nat /\ steps \in Nat
<1>1. /\ agent \in AgentStates /\ steps \in Nat
      /\ FinalStatus = IF notified THEN "COMPLETED" ELSE "ESCALATED"
      /\ FinalStatus \in WorkflowStatuses
    BY DEF RunInv, TypeOK, EscalatedOnce, FinalStatus, WorkflowStatuses
<1>2. Logged("STATE_TRANSITION") \in Seq(AuditTypes)
    BY LogsAreTyped DEF RunInv, AuditTypes
<1>3. agent' = [agent EXCEPT !.status = FinalStatus,
                             !.audit_logs = Logged("STATE_TRANSITION")]
    BY DEF Finalized
<1>4. agent' \in AgentStates
    BY <1>1, <1>2, <1>3 DEF AgentStates
<1> QED
    BY <1>1, <1>3, <1>4 DEF AgentStates, Logged

\* The conjuncts that the node's return disturbs, whether or not the rows changed.
LEMMA FinalizedKeepsRun ==
    ASSUME RunInv, pc \in Saving, Finalized, UNCHANGED <<lead, notified>>
    PROVE  /\ RetriesInLockstep' /\ StepsSoFar' /\ ContactAndScore'
           /\ VerdictIsGuarded' /\ ActsBehindGate'
           /\ EscalatedOnce' /\ EscalationIsJustified'
<1>1. pc' = "done" /\ steps' = steps + 1
    BY DEF Finalized
<1>2. RetriesInLockstep' /\ StepsSoFar'
    BY <1>1, FinalizedAgent
       DEF RunInv, RetriesInLockstep, StepsSoFar, Looping, Saving, Ended
<1>3. ContactAndScore' /\ VerdictIsGuarded' /\ ActsBehindGate'
    BY <1>1, FinalizedAgent
       DEF RunInv, ContactAndScore, VerdictIsGuarded, ActsBehindGate, Looping,
           Processing, Saving, Ended, Autonomous
<1>4. EscalatedOnce' /\ EscalationIsJustified'
    BY <1>1, FinalizedAgent
       DEF RunInv, EscalatedOnce, EscalationIsJustified, ContactAndScore,
           ActsBehindGate, Saving, Ended
<1> QED
    BY <1>2, <1>3, <1>4

\* A rolled-back transaction leaves the rows as they were.
LEMMA AuditFailsKeepsInv == RunInv /\ NodeAuditFails => RunInv'
<1> SUFFICES ASSUME RunInv, NodeAuditFails PROVE RunInv'
    OBVIOUS
<1>1. pc \in Saving /\ Finalized /\ UNCHANGED <<lead, notified, row, loaded>>
    BY DEF NodeAuditFails, Saving
<1>2. TypeOK'
    BY <1>1, FinalizedAgent DEF RunInv, TypeOK, Finalized, Locations
<1> QED
    BY <1>1, <1>2, FinalizedKeepsRun DEF RunInv

\* The commit adds the trail and the tool calls to the rows, whatever they held.
LEMMA AuditCommitKeepsRun == RunInv /\ NodeAuditCommit => RunInv'
<1> SUFFICES ASSUME RunInv, NodeAuditCommit PROVE RunInv'
    OBVIOUS
<1>1. pc = "audit_commit" /\ Finalized /\ UNCHANGED <<lead, notified, loaded>>
    BY DEF NodeAuditCommit
<1>2. /\ agent.audit_logs \in Seq(AuditTypes) /\ agent.priority \in Priorities
      /\ row.priority \in Priorities /\ row.status \in WorkflowStatuses
      /\ row.audit \in Seq(AuditTypes \union {"MANUAL_OVERRIDE"})
    BY DEF RunInv, TypeOK, AgentStates, Rows
<1>3. FinalStatus \in WorkflowStatuses
    BY DEF FinalStatus, WorkflowStatuses
<1> DEFINE trail == row.audit \o agent.audit_logs \o ToolRows
<1>4. trail \in Seq(AuditTypes \union {"MANUAL_OVERRIDE"})
    <2>1. /\ agent.audit_logs \in Seq(AuditTypes \union {"MANUAL_OVERRIDE"})
          /\ ToolRows \in Seq(AuditTypes \union {"MANUAL_OVERRIDE"})
        BY <1>2, ToolRowsType DEF RunInv
    <2> QED
        BY <1>2, <2>1, ConcatProperties
<1> HIDE DEF trail
<1>5. row' \in Rows
    BY <1>2, <1>3, <1>4 DEF NodeAuditCommit, Assigned, Rows, trail
<1>6. TypeOK'
    BY <1>1, <1>5, FinalizedAgent DEF RunInv, TypeOK, Finalized, Locations, Saving
<1> QED
    BY <1>1, <1>6, FinalizedKeepsRun DEF RunInv, Saving

\* Every step keeps the part of the invariant about the run: one lemma per node.
LEMMA StepKeepsRun == RunInv /\ [Next]_vars => RunInv'
<1> SUFFICES ASSUME RunInv, [Next]_vars PROVE RunInv'
    OBVIOUS
<1>1. CASE ProcessLead
    BY <1>1, ProcessLeadKeepsInv
<1>2. CASE NodeReceiveLead \/ NodeValidate \/ NodeCrmLookup
    BY <1>2, ReceiveLeadKeepsInv, ValidateKeepsInv, CrmLookupKeepsInv
<1>3. CASE NodeEnrichment \/ NodeRetry
    BY <1>3, EnrichmentKeepsInv, RetryKeepsInv
<1>4. CASE NodeEnrichmentRaises \/ NodeLeadScoreRaises
    BY <1>4, RaiseKeepsInv DEF NodeEnrichmentRaises, NodeLeadScoreRaises
<1>5. CASE NodeLeadScore \/ NodeDecision
    BY <1>5, LeadScoreKeepsInv, DecisionKeepsInv
<1>6. CASE NodeGenerateFollowUp \/ NodeNotify \/ NodeEscalate
    BY <1>6, GenerateFollowUpKeepsInv, NotifyKeepsInv, EscalateKeepsInv
<1>7. CASE NodeAuditLoad \/ NodeAuditCommit \/ NodeAuditFails
    BY <1>7, AuditLoadKeepsInv, AuditCommitKeepsRun, AuditFailsKeepsInv
<1>8. CASE UNCHANGED vars
    <2> USE <1>8 DEF vars, RunInv
    <2>1. TypeOK'
        BY DEF TypeOK
    <2>2. RetriesInLockstep' /\ StepsSoFar'
        BY DEF RetriesInLockstep, StepsSoFar
    <2>3. ContactAndScore' /\ VerdictIsGuarded' /\ ActsBehindGate'
        BY DEF ContactAndScore, VerdictIsGuarded, ActsBehindGate
    <2>4. EscalatedOnce' /\ EscalationIsJustified'
        BY DEF EscalatedOnce, EscalationIsJustified
    <2> QED
        BY <2>1, <2>2, <2>3, <2>4
<1> QED
    BY <1>1, <1>2, <1>3, <1>4, <1>5, <1>6, <1>7, <1>8 DEF Next

-----------------------------------------------------------------------------
(* The rows                                                                  *)

\* Every step that runs while the graph does, short of the audit transaction.
Graph ==
    \/ NodeReceiveLead \/ NodeValidate \/ NodeCrmLookup
    \/ NodeEnrichment \/ NodeEnrichmentRaises \/ NodeRetry
    \/ NodeLeadScore \/ NodeLeadScoreRaises \/ NodeDecision
    \/ NodeGenerateFollowUp \/ NodeNotify \/ NodeEscalate

\* The graph neither touches the rows nor enters the transaction.
LEMMA GraphLeavesRows ==
    ASSUME RunInv, Graph
    PROVE  /\ UNCHANGED <<lead, row, loaded>>
           /\ pc \in Nodes \ {"audit"} /\ pc' \in (Nodes \union {"dead"})
<1>1. CASE NodeReceiveLead \/ NodeValidate \/ NodeCrmLookup
    BY <1>1 DEF NodeReceiveLead, NodeValidate, NodeCrmLookup, Run, RouteAfterValidate,
                RouteAfterCrm, Nodes
<1>2. CASE NodeEnrichment \/ NodeRetry
    BY <1>2 DEF NodeEnrichment, NodeRetry, Run, RouteAfterEnrichment, RouteAfterRetry, Nodes
<1>3. CASE NodeEnrichmentRaises \/ NodeLeadScoreRaises
    BY <1>3 DEF NodeEnrichmentRaises, NodeLeadScoreRaises, Raise, Nodes
<1>4. CASE NodeLeadScore
    BY <1>4 DEF NodeLeadScore, Run, Nodes
<1>5. CASE NodeDecision
    BY <1>5 DEF NodeDecision, Run, RouteAfterDecision, Autonomous, Nodes
<1>6. CASE NodeGenerateFollowUp \/ NodeNotify \/ NodeEscalate
    BY <1>6 DEF NodeGenerateFollowUp, NodeNotify, NodeEscalate, Run, Nodes
<1> QED
    BY <1>1, <1>2, <1>3, <1>4, <1>5, <1>6 DEF Graph

\* The commit writes what the run computed: the loaded columns were the initial ones, so
\* every assignment of a different value reaches the row.
LEMMA AuditCommitKeepsRows ==
    ASSUME WorkflowInv, NodeAuditCommit
    PROVE  RowsTellTheRun'
<1>1. pc = "audit_commit" /\ Finalized /\ notified' = notified
    BY DEF NodeAuditCommit
<1>2. agent.audit_logs \in Seq(AuditTypes) /\ agent.tool_history \in Seq(Tools)
    BY DEF WorkflowInv, RunInv, TypeOK, AgentStates
<1>3. /\ FinalStatus = IF notified THEN "COMPLETED" ELSE "ESCALATED"
      /\ FinalStatus # "RECEIVED"
    BY <1>1, FinalizedAgent DEF WorkflowInv, Saving, FinalStatus
<1>4. /\ row = [priority |-> "UNASSIGNED", status |-> "RECEIVED", audit |-> <<>>]
      /\ loaded.priority = "UNASSIGNED" /\ loaded.status = "RECEIVED"
    BY <1>1 DEF WorkflowInv, RowBeforeAudit
<1>5. /\ row'.priority = agent.priority
      /\ row'.status = FinalStatus
      /\ row'.audit = agent.audit_logs \o ToolRows
    <2>1. row.audit \o agent.audit_logs = agent.audit_logs
        BY <1>2, <1>4, ConcatEmptySeq
    <2> QED
        BY <1>3, <1>4, <2>1 DEF NodeAuditCommit, Assigned
<1>6. Len(row'.audit) = Len(agent.audit_logs) + Len(agent.tool_history)
    <2>1. ToolRows \in Seq(AuditTypes) /\ Len(ToolRows) = Len(agent.tool_history)
        BY ToolRowsType DEF WorkflowInv, RunInv
    <2>2. Len(agent.audit_logs \o ToolRows) = Len(agent.audit_logs) + Len(ToolRows)
        BY <1>2, <2>1, ConcatProperties
    <2> QED
        BY <1>5, <2>1, <2>2, Zenon
<1>7. /\ pc' = "done"
      /\ agent'.priority = agent.priority
      /\ agent'.tool_history = agent.tool_history
      /\ Len(agent'.audit_logs) = Len(agent.audit_logs) + 1
    BY <1>1, <1>2, FinalizedAgent DEF WorkflowInv, Saving, Finalized
<1>8. Len(row'.audit) = Len(agent'.audit_logs) - 1 + Len(agent'.tool_history)
    <2> DEFINE n == Len(agent.audit_logs)
               m == Len(agent.tool_history)
    <2>1. n \in Nat /\ m \in Nat
        BY <1>2
    <2>2. Len(row'.audit) = n + m
        BY <1>6
    <2>3. Len(agent'.audit_logs) = n + 1 /\ Len(agent'.tool_history) = m
        BY <1>7
    <2> HIDE DEF n, m
    <2>4. n + m = (n + 1) - 1 + m
        BY <2>1
    <2> QED
        BY <2>2, <2>3, <2>4, Zenon
<1> QED
    BY <1>1, <1>3, <1>5, <1>7, <1>8 DEF RowsTellTheRun

\* Every step keeps the invariant: only the commit touches the rows.
LEMMA StepKeepsInv == WorkflowInv /\ [Next]_vars => WorkflowInv'
<1> SUFFICES ASSUME WorkflowInv, [Next]_vars PROVE WorkflowInv'
    OBVIOUS
<1>1. RunInv'
    BY StepKeepsRun DEF WorkflowInv
<1>2. CASE ProcessLead
    BY <1>1, <1>2 DEF WorkflowInv, ProcessLead, RowBeforeAudit, RowsTellTheRun
<1>3. CASE Graph
    BY <1>1, <1>3, GraphLeavesRows DEF WorkflowInv, RowBeforeAudit, RowsTellTheRun, Nodes
<1>4. CASE NodeAuditLoad
    BY <1>1, <1>4 DEF WorkflowInv, NodeAuditLoad, RowBeforeAudit, RowsTellTheRun
<1>5. CASE NodeAuditCommit
    BY <1>1, <1>5, AuditCommitKeepsRows
       DEF WorkflowInv, NodeAuditCommit, Finalized, RowBeforeAudit
<1>6. CASE NodeAuditFails
    BY <1>1, <1>6 DEF WorkflowInv, NodeAuditFails, Finalized, RowBeforeAudit, RowsTellTheRun
<1>7. CASE UNCHANGED vars
    BY <1>1, <1>7 DEF WorkflowInv, vars, RowBeforeAudit, RowsTellTheRun
<1> QED
    BY <1>2, <1>3, <1>4, <1>5, <1>6, <1>7 DEF Next, Graph

-----------------------------------------------------------------------------
(* The guardrail's entries                                                   *)

\* The entries the guardrail makes are one per change to the score's verdict.
LEMMA OverridesCount ==
    ASSUME NEW score, NEW priority, NEW action
    PROVE  Occurrences("GUARDRAIL_OVERRIDE", Overrides(score, priority, action)) =
               (IF priority # score.priority THEN 1 ELSE 0)
             + (IF action = "ESCALATE" /\ score.next_action # "ESCALATE" THEN 1 ELSE 0)
<1> DEFINE G    == "GUARDRAIL_OVERRIDE"
           s(b) == IF b THEN <<G>> ELSE <<>>
<1>1. ASSUME NEW b \in BOOLEAN
      PROVE  s(b) \in Seq({G}) /\ Occurrences(G, s(b)) = IF b THEN 1 ELSE 0
    <2>1. <<>> \in Seq({G}) /\ Occurrences(G, <<>>) = 0
        BY NoOccurrence
    <2>2. Occurrences(G, Append(<<>>, G)) = Occurrences(G, <<>>) + 1
        <3>1. G \in {G}
            OBVIOUS
        <3> QED
            BY <2>1, <3>1, OccurrencesAppend, Zenon
    <2>3. Append(<<>>, G) = <<G>> /\ <<G>> \in Seq({G})
        OBVIOUS
    <2>4. CASE b = TRUE
        BY <2>1, <2>2, <2>3, <2>4
    <2>5. CASE b = FALSE
        BY <2>1, <2>5
    <2> QED
        BY <1>1, <2>4, <2>5
<1> DEFINE p == priority # score.priority
           a == action = "ESCALATE" /\ score.next_action # "ESCALATE"
<1>2. p \in BOOLEAN /\ a \in BOOLEAN
    OBVIOUS
<1>3. Overrides(score, priority, action) = s(p) \o s(a)
    BY DEF Overrides
<1> HIDE DEF s, p, a
<1>4. Occurrences(G, s(p) \o s(a)) = Occurrences(G, s(p)) + Occurrences(G, s(a))
    BY <1>1, <1>2, OccurrencesConcat
<1>5. /\ Occurrences(G, s(p)) = IF p THEN 1 ELSE 0
      /\ Occurrences(G, s(a)) = IF a THEN 1 ELSE 0
    BY <1>1, <1>2
<1> QED
    BY <1>3, <1>4, <1>5 DEF p, a

\* Scoring makes one entry for each change of the verdict it leaves behind.
LEMMA LeadScoreCounts ==
    ASSUME RunInv, OverridesCounted, NodeLeadScore
    PROVE  OverridesCounted'
<1> DEFINE G               == "GUARDRAIL_OVERRIDE"
           rules(score)    == EvaluateRules(ContextWith(score.confidence))
           priority(score) == FinalPriority(score, rules(score))
           action(score)   == FinalAction(priority(score), rules(score))
           overrides(score) == Overrides(score, priority(score), action(score))
<1>1. PICK score \in ModelScores \union {RulesFallback} :
         agent' = [agent EXCEPT !.status = "ANALYZING",
                                !.priority = priority(score),
                                !.confidence = score.confidence,
                                !.next_action = action(score),
                                !.score = score,
                                !.tool_history = Called("llm_score_lead"),
                                !.audit_logs = Logged("LLM_REASONING") \o overrides(score)]
    BY DEF NodeLeadScore, Run
<1>2. /\ TypeOK /\ agent \in AgentStates
      /\ agent.audit_logs \in Seq(AuditTypes)
      /\ agent.score \notin Scores /\ lead.email
    BY NoScoreIsNone
       DEF RunInv, TypeOK, AgentStates, NodeLeadScore, Run, ContactAndScore, Processing
<1>3. score \in Scores
    BY <1>1, <1>2, AnswersAreClamped, FallbackIsFlagged
<1>4. /\ action(score) = "ESCALATE" <=> BelowGate(score.confidence)
      /\ overrides(score) \in Seq(AuditTypes)
    BY <1>2, <1>3, GuardrailVerdict
<1>5. Occurrences(G, overrides(score)) =
          (IF priority(score) # score.priority THEN 1 ELSE 0)
        + (IF action(score) = "ESCALATE" /\ score.next_action # "ESCALATE" THEN 1 ELSE 0)
    BY OverridesCount
<1> HIDE DEF priority, action, overrides
<1>6. /\ agent'.score = score /\ agent'.priority = priority(score)
      /\ agent'.audit_logs = Logged("LLM_REASONING") \o overrides(score)
    BY <1>1, <1>2 DEF AgentStates
<1>7. /\ Logged("LLM_REASONING") \in Seq(AuditTypes)
      /\ Occurrences(G, Logged("LLM_REASONING")) = 0
    <2>1. Occurrences(G, agent.audit_logs) = 0
        BY <1>2 DEF OverridesCounted
    <2> QED
        BY <1>2, <2>1, OccurrencesAppend DEF Logged, AuditTypes
<1>8. Occurrences(G, agent'.audit_logs) =
          Occurrences(G, Logged("LLM_REASONING")) + Occurrences(G, overrides(score))
    BY <1>4, <1>6, <1>7, OccurrencesConcat
<1> QED
    BY <1>3, <1>4, <1>5, <1>6, <1>7, <1>8 DEF OverridesCounted, GuardrailChanges

\* Every other node leaves the verdict alone and logs at most an entry of another type.
LEMMA OthersLogOtherwise ==
    ASSUME RunInv, Graph \/ Finalized, ~NodeLeadScore
    PROVE  /\ agent'.score = agent.score /\ agent'.priority = agent.priority
           /\ \/ agent'.audit_logs = agent.audit_logs
              \/ \E type \in AuditTypes \ {"GUARDRAIL_OVERRIDE"} :
                    agent'.audit_logs = Append(agent.audit_logs, type)
<1>1. agent \in AgentStates
    BY DEF RunInv, TypeOK
<1>2. CASE NodeReceiveLead \/ NodeValidate \/ NodeCrmLookup
    BY <1>1, <1>2 DEF NodeReceiveLead, NodeValidate, NodeCrmLookup, Run, Logged,
        AgentStates, AuditTypes
<1>3. CASE NodeEnrichment \/ NodeRetry
    <2>1. CASE NodeEnrichment
        BY <1>1, <2>1 DEF NodeEnrichment, Run, Logged, AgentStates, AuditTypes
    <2>2. CASE NodeRetry
        BY <1>1, <2>2 DEF NodeRetry, Run, Logged, AgentStates, AuditTypes
    <2> QED
        BY <1>3, <2>1, <2>2
<1>4. CASE NodeEnrichmentRaises \/ NodeLeadScoreRaises
    BY <1>4 DEF NodeEnrichmentRaises, NodeLeadScoreRaises, Raise
<1>5. CASE NodeDecision
    BY <1>1, <1>5 DEF NodeDecision, Run, AgentStates
<1>6. CASE NodeGenerateFollowUp \/ NodeNotify \/ NodeEscalate
    BY <1>1, <1>6 DEF NodeGenerateFollowUp, NodeNotify, NodeEscalate, Run, Logged,
        AgentStates, AuditTypes
<1>7. CASE Finalized
    BY <1>1, <1>7 DEF Finalized, Logged, AgentStates, AuditTypes
<1> QED
    BY <1>2, <1>3, <1>4, <1>5, <1>6, <1>7 DEF Graph

\* The trail in memory keeps its count.
LEMMA StepKeepsCount == RunInv /\ OverridesCounted /\ [Next]_vars => OverridesCounted'
<1> SUFFICES ASSUME RunInv, OverridesCounted, [Next]_vars PROVE OverridesCounted'
    OBVIOUS
<1>1. CASE NodeLeadScore
    BY <1>1, LeadScoreCounts
<1>2. CASE (Graph \/ Finalized) /\ ~NodeLeadScore
    <2>1. agent.audit_logs \in Seq(AuditTypes)
        BY DEF RunInv, TypeOK, AgentStates
    <2>2. ASSUME NEW type \in AuditTypes \ {"GUARDRAIL_OVERRIDE"}
          PROVE  Occurrences("GUARDRAIL_OVERRIDE", Append(agent.audit_logs, type)) =
                     Occurrences("GUARDRAIL_OVERRIDE", agent.audit_logs)
        BY <2>1, OccurrencesAppend
    <2>3. /\ agent'.score = agent.score /\ agent'.priority = agent.priority
          /\ \/ agent'.audit_logs = agent.audit_logs
             \/ \E type \in AuditTypes \ {"GUARDRAIL_OVERRIDE"} :
                   agent'.audit_logs = Append(agent.audit_logs, type)
        BY <1>2, OthersLogOtherwise
    <2>4. Occurrences("GUARDRAIL_OVERRIDE", agent'.audit_logs) =
              Occurrences("GUARDRAIL_OVERRIDE", agent.audit_logs)
        <3>1. CASE agent'.audit_logs = agent.audit_logs
            BY <3>1
        <3>2. ASSUME NEW type \in AuditTypes \ {"GUARDRAIL_OVERRIDE"},
                     agent'.audit_logs = Append(agent.audit_logs, type)
              PROVE  Occurrences("GUARDRAIL_OVERRIDE", agent'.audit_logs) =
                         Occurrences("GUARDRAIL_OVERRIDE", agent.audit_logs)
            BY <2>2, <3>2
        <3> QED
            BY <2>3, <3>1, <3>2
    <2> QED
        BY <2>3, <2>4 DEF OverridesCounted, GuardrailChanges
<1>3. CASE ProcessLead
    <2>1. agent'.audit_logs = <<>> /\ agent'.score = NoScore
        BY <1>3 DEF ProcessLead, NewAgentState
    <2>2. Occurrences("GUARDRAIL_OVERRIDE", agent'.audit_logs) = 0
        BY <2>1, NoOccurrence
    <2> QED
        BY <2>1, <2>2, NoScoreIsNone DEF OverridesCounted
<1>4. CASE NodeAuditLoad \/ UNCHANGED vars
    BY <1>4 DEF NodeAuditLoad, vars, OverridesCounted, GuardrailChanges
<1> QED
    BY <1>1, <1>2, <1>3, <1>4 DEF Next, Graph, NodeAuditCommit, NodeAuditFails

\* The commit copies the trail: the tool calls add no entry of the guardrail.
LEMMA CommitCopiesCount ==
    ASSUME WorkflowInv, OverridesCounted, NodeAuditCommit
    PROVE  OverridesAreAudited'
<1> DEFINE G == "GUARDRAIL_OVERRIDE"
<1>1. pc = "audit_commit" /\ Finalized /\ row.audit = <<>>
    BY DEF WorkflowInv, NodeAuditCommit, RowBeforeAudit
<1>2. agent.audit_logs \in Seq(AuditTypes) /\ ToolRows \in Seq(AuditTypes)
    BY ToolRowsType DEF WorkflowInv, RunInv, TypeOK, AgentStates
<1>3. row'.audit = agent.audit_logs \o ToolRows
    BY <1>1, <1>2, ConcatEmptySeq DEF NodeAuditCommit
<1>4. Occurrences(G, ToolRows) = 0
    BY NoOccurrence DEF ToolRows
<1>5. Occurrences(G, row'.audit) = Occurrences(G, agent.audit_logs)
    <2>1. Occurrences(G, agent.audit_logs \o ToolRows) =
              Occurrences(G, agent.audit_logs) + Occurrences(G, ToolRows)
        BY <1>2, OccurrencesConcat
    <2>2. Occurrences(G, agent.audit_logs) \in Nat
        BY <1>2, OccurrencesType
    <2> QED
        BY <1>3, <1>4, <2>1, <2>2
<1>6. agent'.score = agent.score /\ agent'.priority = agent.priority
    BY <1>1, FinalizedAgent DEF WorkflowInv, Saving
<1> QED
    BY <1>5, <1>6 DEF OverridesAreAudited, OverridesCounted, GuardrailChanges

\* Every step keeps the counts, in memory and in the rows.
LEMMA StepKeepsAudit == AuditInv /\ [Next]_vars => AuditInv'
<1> SUFFICES ASSUME AuditInv, [Next]_vars PROVE AuditInv'
    OBVIOUS
<1>1. WorkflowInv' /\ OverridesCounted'
    BY StepKeepsInv, StepKeepsCount DEF AuditInv, WorkflowInv
<1>2. CASE NodeAuditCommit
    BY <1>1, <1>2, CommitCopiesCount DEF AuditInv
<1>3. CASE row' = row /\ pc # "done"
    BY <1>1, <1>3 DEF AuditInv, WorkflowInv, RowBeforeAudit, OverridesAreAudited
<1>4. CASE UNCHANGED vars
    BY <1>1, <1>4 DEF AuditInv, OverridesAreAudited, vars
<1>5. Graph => row' = row /\ pc # "done"
    BY GraphLeavesRows DEF AuditInv, WorkflowInv, Nodes
<1> QED
    BY <1>2, <1>3, <1>4, <1>5 DEF Next, Graph, ProcessLead, NodeAuditLoad, NodeAuditFails

-----------------------------------------------------------------------------
(* What the invariant says of the run                                        *)

\* What the memory of a run alone implies: the gate, the stop without contact data, the
\* reasons to escalate, the bound on the nodes and the guardrail on the priority.
LEMMA RunIsSafe ==
    RunInv => /\ AutonomyIsGated /\ NoContactNoProcessing /\ EscalationIsJustified
              /\ StepsAreBounded /\ PriorityOnlyTightens
<1>1. RunInv => AutonomyIsGated
    <2> SUFFICES ASSUME RunInv,
                        pc \in Autonomous \/ agent.draft_email \/ notified
                 PROVE  /\ agent.score \in Scores
                        /\ agent.score.confidence >= Gate
                        /\ \A c \in agent.score.said : c = NaN \/ c >= Gate \/ Gate = 0
                        /\ Gate > FallbackConfidence => agent.score.source = "llm"
        BY DEF AutonomyIsGated
    <2>1. agent.score \in Scores /\ ~(agent.score.confidence < Gate)
        BY DEF RunInv, ActsBehindGate, BelowGate
    <2>2. /\ agent.score.confidence \in Int
          /\ agent.score.source \in {"llm", "rules_fallback"}
        BY <2>1 DEF Scores
    <2>3. agent.score.source = "rules_fallback" =>
              agent.score.confidence = FallbackConfidence
        BY <2>1 DEF RunInv, VerdictIsGuarded
    <2>4. ASSUME NEW c \in agent.score.said, c # NaN, Gate # 0
          PROVE  c >= Gate
        <3>1. c \in Int
            BY <2>1, <2>4, WorkflowAssumption DEF Scores
        <3>2. agent.score.confidence = Clamped(c)
            BY <2>1 DEF RunInv, VerdictIsGuarded
        <3> QED
            BY <2>1, <2>2, <2>4, <3>1, <3>2, PolicyAssumption DEF Clamped
    <2> QED
        BY <2>1, <2>2, <2>3, <2>4, PolicyAssumption, WorkflowAssumption
<1>2. RunInv => NoContactNoProcessing
    BY NoScoreIsNone
       DEF RunInv, ContactAndScore, ActsBehindGate, NoContactNoProcessing,
           Nodes, Processing
<1>3. RunInv => StepsAreBounded
    <2> SUFFICES ASSUME RunInv PROVE StepsAreBounded
        OBVIOUS
    <2>1. agent.retry_count \in 0..(MaxRetries - 1) /\ steps \in Nat
        BY DEF RunInv, TypeOK, AgentStates
    <2> QED
        BY <2>1, WorkflowAssumption DEF RunInv, StepsSoFar, StepsAreBounded
<1>4. RunInv => EscalationIsJustified /\ PriorityOnlyTightens
    BY DEF RunInv, VerdictIsGuarded, PriorityOnlyTightens
<1> QED
    BY <1>1, <1>2, <1>3, <1>4

-----------------------------------------------------------------------------
(* The theorems                                                              *)

\* The inductive invariant holds in every reachable state, whatever the policy.
THEOREM WorkflowInvariant == Spec => []WorkflowInv
BY InitEstablishesInv, StepKeepsInv, PTL DEF Spec

\* Type correctness: in particular retry_count never reaches the ceiling, so the
\* general breaker of route_after_retry never trips.
THEOREM TypeCorrect == Spec => []TypeOK
<1>1. WorkflowInv => TypeOK
    BY DEF WorkflowInv, RunInv
<1> QED
    BY <1>1, WorkflowInvariant, PTL

\* The confidence gate (SOUL.md 1): acting takes a reported confidence at or above it, said
\* by the model or made of NaN, and above the fallback's confidence a real model answer.
THEOREM AutonomyTheorem == Spec => []AutonomyIsGated
BY WorkflowInvariant, RunIsSafe, PTL DEF WorkflowInv

\* Missing contact data stops everything but the escalation (SOUL.md 2).
THEOREM NoContactTheorem == Spec => []NoContactNoProcessing
BY WorkflowInvariant, RunIsSafe, PTL DEF WorkflowInv

\* Nobody is called in because an enrichment failed (SOUL.md 3).
THEOREM EscalationTheorem == Spec => []EscalationIsJustified
BY WorkflowInvariant, RunIsSafe, PTL DEF WorkflowInv

\* The bound on the nodes one run visits, for every retry ceiling (SOUL.md 5).
THEOREM StepsTheorem == Spec => []StepsAreBounded
BY WorkflowInvariant, RunIsSafe, PTL DEF WorkflowInv

\* Guardrail A only tightens and never erases (node_lead_score).
THEOREM PriorityTheorem == Spec => []PriorityOnlyTightens
BY WorkflowInvariant, RunIsSafe, PTL DEF WorkflowInv

\* The rows of a lead change all together or not at all, and then tell what happened.
THEOREM RowsTheorem == Spec => []RowsTellTheRun
<1>1. WorkflowInv => RowsTellTheRun
    BY DEF WorkflowInv, RunInv
<1> QED
    BY <1>1, WorkflowInvariant, PTL

\* Only a lead without contact data is handed over UNASSIGNED.
THEOREM UnassignedTheorem == Spec => []UnassignedOnlyWithoutContact
<1>1. WorkflowInv => UnassignedOnlyWithoutContact
    <2> SUFFICES ASSUME WorkflowInv, row.status # "RECEIVED", row.priority = "UNASSIGNED"
                 PROVE  ~lead.email
        BY DEF UnassignedOnlyWithoutContact
    <2>1. row # [priority |-> "UNASSIGNED", status |-> "RECEIVED", audit |-> <<>>]
        OBVIOUS
    <2>2. pc = "done" /\ agent.priority = "UNASSIGNED"
        BY <2>1 DEF WorkflowInv, RunInv, RowsTellTheRun
    <2>3. agent.score \in Scores => agent.priority \in Classified
        BY DEF WorkflowInv, RunInv, VerdictIsGuarded
    <2> QED
        BY <2>2, <2>3 DEF WorkflowInv, RunInv, ContactAndScore, Classified
<1> QED
    BY <1>1, WorkflowInvariant, PTL

\* The inductive invariant about the trail.
THEOREM AuditInvariant == Spec => []AuditInv
<1>1. Init => AuditInv
    <2> SUFFICES ASSUME Init PROVE AuditInv
        OBVIOUS
    <2>1. agent.audit_logs = <<>> /\ agent.score = NoScore /\ row.audit = <<>>
        BY DEF Init, NewAgentState
    <2>2. OverridesCounted /\ OverridesAreAudited
        BY <2>1, NoOccurrence, NoScoreIsNone DEF OverridesCounted, OverridesAreAudited
    <2> QED
        BY <2>2, InitEstablishesInv DEF AuditInv
<1> QED
    BY <1>1, StepKeepsAudit, PTL DEF Spec

\* The persisted trail of a scored lead has one override entry per change the guardrail
\* made to the model's verdict (SOUL.md 6).
THEOREM OverridesTheorem == Spec => []OverridesAreAudited
<1>1. AuditInv => OverridesAreAudited
    BY DEF AuditInv
<1> QED
    BY <1>1, AuditInvariant, PTL
=============================================================================
