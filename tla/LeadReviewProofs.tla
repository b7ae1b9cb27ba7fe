--------------------------- MODULE LeadReviewProofs ---------------------------
(***************************************************************************)
(* Proofs about LeadReview, for every policy, set of reviewers and number  *)
(* of process deaths.  What the run keeps in memory (RunInv) survives the  *)
(* reviewers, the deletion and the crashes; the rows are described anew,   *)
(* because here a human writes them too.                                   *)
(***************************************************************************)
EXTENDS LeadReview, LeadWorkflowProofs

-----------------------------------------------------------------------------
(* The inductive invariant                                                   *)

Manual == "MANUAL_OVERRIDE"
Trail  == AuditTypes \union {Manual}

\* A request that is under way knows what it asks for, and one that read ESCALATED read
\* it of a lead that cannot be open again.
RequestsAreSound ==
    \A r \in Reviewers :
        /\ review[r].at \in {"read_lead", "read_state"} =>
              review[r].choice \in ReviewChoices
        /\ review[r].at = "read_state" /\ review[r].read = "ESCALATED" =>
              row.status \in {"ESCALATED", "COMPLETED"}

\* While the run is on its way the stored status is the initial one, whatever reviewers
\* did to the priority, and that is what the audit transaction loaded.
StatusIsOpen ==
    /\ pc \notin Ended => row.status = "RECEIVED"
    /\ pc = "audit_commit" => loaded.status = "RECEIVED"

\* The run has logged a transition by the time it can be persisted.
TrailIsStarted ==
    pc \notin {"queued", "receive_lead", "dead"} =>
        Occurrences("STATE_TRANSITION", agent.audit_logs) > 0

ReviewInv ==
    /\ RunInv /\ ReviewTypeOK
    /\ RequestsAreSound /\ StatusIsOpen /\ TrailIsStarted /\ FinishedIsExplained

-----------------------------------------------------------------------------
(* The workflow's own steps                                                  *)

\* The rows' trail and the run's are sequences of entries.
LEMMA TrailTypes ==
    ASSUME TypeOK
    PROVE  /\ agent.audit_logs \in Seq(AuditTypes) /\ agent.audit_logs \in Seq(Trail)
           /\ row.audit \in Seq(Trail) /\ ToolRows \in Seq(Trail)
<1>1. agent.audit_logs \in Seq(AuditTypes) /\ row.audit \in Seq(Trail)
    BY DEF TypeOK, AgentStates, Rows, Trail, Manual
<1>2. ToolRows \in Seq(AuditTypes)
    BY ToolRowsType
<1> QED
    BY <1>1, <1>2 DEF Trail

\* A run never forgets that it notified, and only the audit transaction writes the rows.
LEMMA StepWritesOnce ==
    ASSUME RunInv, [Next]_vars
    PROVE  /\ notified => notified'
           /\ row' = row \/ NodeAuditCommit
<1>1. CASE Graph
    <2>1. row' = row
        BY <1>1, GraphLeavesRows
    <2>2. notified' = notified \/ notified' = TRUE
        BY <1>1
           DEF Graph, NodeReceiveLead, NodeValidate, NodeCrmLookup, NodeEnrichment,
               NodeEnrichmentRaises, NodeRetry, NodeLeadScore, NodeLeadScoreRaises,
               NodeDecision, NodeGenerateFollowUp, NodeNotify, NodeEscalate, Raise
    <2> QED
        BY <2>1, <2>2
<1>2. CASE ~Graph
    <2>1. notified' = notified
        BY <1>2
           DEF Next, Graph, ProcessLead, NodeAuditLoad, NodeAuditCommit, NodeAuditFails, vars
    <2>2. row' = row \/ NodeAuditCommit
        BY <1>2 DEF Next, Graph, ProcessLead, NodeAuditLoad, NodeAuditFails, vars
    <2> QED
        BY <2>1, <2>2
<1> QED
    BY <1>1, <1>2

\* From the first node on the trail holds a transition: entries are only added.
LEMMA StepKeepsTrail == RunInv /\ TrailIsStarted /\ [Next]_vars => TrailIsStarted'
<1> SUFFICES ASSUME RunInv, TrailIsStarted, [Next]_vars PROVE TrailIsStarted'
    OBVIOUS
<1> DEFINE T == "STATE_TRANSITION"
<1>1. /\ TypeOK /\ agent.audit_logs \in Seq(AuditTypes)
      /\ Occurrences(T, agent.audit_logs) \in Nat
    BY OccurrencesType DEF RunInv, TypeOK, AgentStates
<1>2. CASE NodeReceiveLead
    <2>1. agent'.audit_logs = Append(agent.audit_logs, T)
        BY <1>1, <1>2 DEF NodeReceiveLead, Run, Logged, TypeOK, AgentStates
    <2>2. Occurrences(T, Append(agent.audit_logs, T)) = Occurrences(T, agent.audit_logs) + 1
        BY <1>1, OccurrencesAppend DEF AuditTypes
    <2> QED
        BY <1>1, <2>1, <2>2 DEF TrailIsStarted
<1>3. CASE NodeLeadScore
    <2>1. PICK s \in Seq(AuditTypes) : agent'.audit_logs = Logged("LLM_REASONING") \o s
        <3>1. PICK score \in ModelScores \union {RulesFallback} :
                 LET rules    == EvaluateRules(ContextWith(score.confidence))
                     priority == FinalPriority(score, rules)
                     action   == FinalAction(priority, rules)
                 IN  agent'.audit_logs =
                        Logged("LLM_REASONING") \o Overrides(score, priority, action)
            BY <1>1, <1>3 DEF NodeLeadScore, Run, TypeOK, AgentStates
        <3>2. score \in Scores
            BY <1>1, <3>1, AnswersAreClamped, FallbackIsFlagged
        <3> QED
            BY <1>1, <3>1, <3>2, GuardrailVerdict
    <2>2. Logged("LLM_REASONING") \in Seq(AuditTypes)
        BY <1>1, LogsAreTyped DEF AuditTypes
    <2>3. Occurrences(T, Logged("LLM_REASONING") \o s) =
              Occurrences(T, Logged("LLM_REASONING")) + Occurrences(T, s)
        BY <2>2, OccurrencesConcat
    <2>4. Occurrences(T, Logged("LLM_REASONING")) = Occurrences(T, agent.audit_logs)
        BY <1>1, OccurrencesAppend DEF Logged, AuditTypes
    <2>5. Occurrences(T, s) \in Nat /\ Occurrences(T, agent.audit_logs) > 0
        BY <1>3, OccurrencesType DEF TrailIsStarted, NodeLeadScore, Run
    <2> QED
        BY <1>1, <2>1, <2>3, <2>4, <2>5 DEF TrailIsStarted
<1>4. CASE (Graph \/ Finalized) /\ pc # "receive_lead" /\ pc \notin Ended \union {"queued"}
             /\ ~NodeLeadScore
    <2>1. Occurrences(T, agent.audit_logs) > 0
        BY <1>4 DEF TrailIsStarted, Ended
    <2>2. ASSUME NEW type \in AuditTypes
          PROVE  Occurrences(T, Append(agent.audit_logs, type)) > 0
        BY <1>1, <2>1, OccurrencesAppend
    <2>3. \/ agent'.audit_logs = agent.audit_logs
          \/ \E type \in AuditTypes : agent'.audit_logs = Append(agent.audit_logs, type)
        BY <1>4, OthersLogOtherwise
    <2>4. Occurrences(T, agent'.audit_logs) > 0
        <3>1. CASE agent'.audit_logs = agent.audit_logs
            BY <2>1, <3>1
        <3>2. ASSUME NEW type \in AuditTypes,
                     agent'.audit_logs = Append(agent.audit_logs, type)
              PROVE  Occurrences(T, agent'.audit_logs) > 0
            BY <2>2, <3>2
        <3> QED
            BY <2>3, <3>1, <3>2
    <2> QED
        BY <2>4 DEF TrailIsStarted
<1>5. CASE ProcessLead
    BY <1>5 DEF ProcessLead, TrailIsStarted
<1>6. CASE NodeAuditLoad \/ UNCHANGED vars
    BY <1>6 DEF NodeAuditLoad, vars, TrailIsStarted
<1>7. Graph /\ ~NodeReceiveLead =>
          pc # "receive_lead" /\ pc \notin Ended \union {"queued"}
    BY DEF Graph, NodeReceiveLead, NodeValidate, NodeCrmLookup, NodeEnrichment,
           NodeEnrichmentRaises, NodeRetry, NodeLeadScore, NodeLeadScoreRaises,
           NodeDecision, NodeGenerateFollowUp, NodeNotify, NodeEscalate, Run, Ended
<1>8. NodeAuditCommit \/ NodeAuditFails =>
          Finalized /\ pc # "receive_lead" /\ pc \notin Ended \union {"queued"}
    BY DEF NodeAuditCommit, NodeAuditFails, Ended
<1> QED
    BY <1>2, <1>3, <1>4, <1>5, <1>6, <1>7, <1>8 DEF Next, Graph

-----------------------------------------------------------------------------
(* What is shown about the rows                                              *)

\* A trail that grows keeps what it held.
LEMMA AppendedTrail ==
    ASSUME TypeOK, NEW x
    PROVE  /\ Append(row.audit, Manual) \in Seq(Trail)
           /\ Occurrences(x, row.audit) > 0 => Occurrences(x, Append(row.audit, Manual)) > 0
           /\ Occurrences(Manual, Append(row.audit, Manual)) > 0
<1>1. row.audit \in Seq(Trail) /\ Manual \in Trail
    BY TrailTypes DEF Trail
<1>2. /\ Occurrences(x, row.audit) \in Nat
      /\ Occurrences(x, Append(row.audit, Manual)) =
            IF Manual = x THEN Occurrences(x, row.audit) + 1 ELSE Occurrences(x, row.audit)
    BY <1>1, OccurrencesType, OccurrencesAppend
<1>3. /\ Occurrences(Manual, row.audit) \in Nat
      /\ Occurrences(Manual, Append(row.audit, Manual)) = Occurrences(Manual, row.audit) + 1
    BY <1>1, OccurrencesType, OccurrencesAppend
<1> QED
    BY <1>1, <1>2, <1>3

\* The audit transaction adds the run's trail to what the reviewers wrote, and moves an
\* open status to COMPLETED when sales was notified and to ESCALATED otherwise.
LEMMA AuditCommitStatus ==
    ASSUME ReviewInv, NodeAuditCommit
    PROVE  /\ row.status = "RECEIVED" /\ pc' = "done" /\ notified' = notified
           /\ row'.status = IF notified THEN "COMPLETED" ELSE "ESCALATED"
           /\ Occurrences("STATE_TRANSITION", row'.audit) > 0
<1>1. /\ pc = "audit_commit" /\ Finalized /\ notified' = notified /\ pc' = "done"
      /\ row.status = "RECEIVED" /\ loaded.status = "RECEIVED"
    BY DEF ReviewInv, StatusIsOpen, NodeAuditCommit, Finalized, Ended
<1>2. FinalStatus = IF notified THEN "COMPLETED" ELSE "ESCALATED"
    BY <1>1, FinalizedAgent DEF ReviewInv, Saving
<1>3. row'.status = FinalStatus
    BY <1>1, <1>2 DEF NodeAuditCommit, Assigned
<1> DEFINE T == "STATE_TRANSITION"
           a == row.audit
           b == agent.audit_logs
           c == ToolRows
<1>4. a \in Seq(Trail) /\ b \in Seq(Trail) /\ c \in Seq(Trail)
    BY TrailTypes DEF ReviewInv, RunInv
<1>5. row'.audit = (a \o b) \o c
    BY DEF NodeAuditCommit
<1>6. Occurrences(T, b) > 0
    BY <1>1 DEF ReviewInv, TrailIsStarted
<1> HIDE DEF a, b, c
<1>7. /\ Occurrences(T, a \o b) = Occurrences(T, a) + Occurrences(T, b)
      /\ a \o b \in Seq(Trail)
    BY <1>4, OccurrencesConcat, ConcatProperties
<1>8. Occurrences(T, (a \o b) \o c) = Occurrences(T, a \o b) + Occurrences(T, c)
    BY <1>4, <1>7, OccurrencesConcat
<1>9. /\ Occurrences(T, a) \in Nat /\ Occurrences(T, b) \in Nat
      /\ Occurrences(T, c) \in Nat
    BY <1>4, OccurrencesType
<1> QED
    BY <1>1, <1>2, <1>3, <1>5, <1>6, <1>7, <1>8, <1>9

\* A workflow step under review keeps the invariant.
LEMMA WorkflowStepKeepsInv == ReviewInv /\ WorkflowStep => ReviewInv'
<1> SUFFICES ASSUME ReviewInv, WorkflowStep PROVE ReviewInv'
    OBVIOUS
<1>1. Next /\ UNCHANGED <<review, deleted, crashes>>
    BY DEF WorkflowStep, reviewVars
<1>2. RunInv' /\ TrailIsStarted'
    BY <1>1, StepKeepsRun, StepKeepsTrail DEF ReviewInv
<1>3. ReviewTypeOK'
    BY <1>1, <1>2 DEF ReviewInv, ReviewTypeOK, RunInv
<1>4. (notified => notified') /\ (row' = row \/ NodeAuditCommit)
    BY <1>1, StepWritesOnce DEF ReviewInv
<1>5. CASE NodeAuditCommit
    <2>1. RequestsAreSound'
        BY <1>1, <1>5, AuditCommitStatus DEF ReviewInv, RequestsAreSound
    <2>2. StatusIsOpen'
        BY <1>5, AuditCommitStatus DEF StatusIsOpen, Ended
    <2>3. FinishedIsExplained'
        BY <1>5, AuditCommitStatus DEF FinishedIsExplained
    <2> QED
        BY <1>2, <1>3, <2>1, <2>2, <2>3 DEF ReviewInv
<1>6. CASE row' = row
    <2>1. RequestsAreSound'
        BY <1>1, <1>6 DEF ReviewInv, RequestsAreSound
    <2>2. StatusIsOpen'
        <3>1. pc \notin Ended
            BY <1>1, GraphLeavesRows
               DEF ReviewInv, Next, Graph, ProcessLead, NodeAuditLoad, NodeAuditCommit,
                   NodeAuditFails, Ended, Nodes
        <3>2. row'.status = "RECEIVED"
            BY <1>6, <3>1 DEF ReviewInv, StatusIsOpen
        <3>3. pc' = "audit_commit" => loaded'.status = row.status
            BY <1>1, GraphLeavesRows
               DEF ReviewInv, Next, Graph, ProcessLead, NodeAuditLoad, NodeAuditCommit,
                   NodeAuditFails, Finalized, Nodes
        <3> QED
            BY <1>6, <3>2, <3>3 DEF StatusIsOpen
    <2>3. FinishedIsExplained'
        BY <1>4, <1>6 DEF ReviewInv, FinishedIsExplained
    <2> QED
        BY <1>2, <1>3, <2>1, <2>2, <2>3 DEF ReviewInv
<1> QED
    BY <1>4, <1>5, <1>6

-----------------------------------------------------------------------------
(* The people and the platform                                               *)

\* The run is as it was: its part of the invariant needs only the row to be typed.
LEMMA RunStands ==
    ASSUME RunInv, UNCHANGED <<pc, lead, agent, steps, notified, loaded>>, row' \in Rows
    PROVE  RunInv'
<1>1. TypeOK'
    BY DEF RunInv, TypeOK
<1>2. RetriesInLockstep' /\ StepsSoFar'
    BY DEF RunInv, RetriesInLockstep, StepsSoFar
<1>3. ContactAndScore' /\ VerdictIsGuarded' /\ ActsBehindGate'
    BY DEF RunInv, ContactAndScore, VerdictIsGuarded, ActsBehindGate
<1>4. EscalatedOnce' /\ EscalationIsJustified'
    BY DEF RunInv, EscalatedOnce, EscalationIsJustified
<1> QED
    BY <1>1, <1>2, <1>3, <1>4 DEF RunInv

\* Where the rows stand, so does all that is said of them.
LEMMA WorkflowStands ==
    ASSUME ReviewInv, UNCHANGED vars
    PROVE  RunInv' /\ StatusIsOpen' /\ TrailIsStarted' /\ FinishedIsExplained'
<1>1. RunInv'
    BY StepKeepsRun DEF ReviewInv
<1>2. StatusIsOpen' /\ TrailIsStarted' /\ FinishedIsExplained'
    BY DEF ReviewInv, vars, StatusIsOpen, TrailIsStarted, FinishedIsExplained
<1> QED
    BY <1>1, <1>2

\* A request that looks the lead up takes a choice with it or is refused.
LEMMA ReadLeadKeepsInv == ReviewInv /\ (\E r \in Reviewers : ReadLead(r)) => ReviewInv'
<1> SUFFICES ASSUME ReviewInv, NEW r \in Reviewers, ReadLead(r) PROVE ReviewInv'
    OBVIOUS
<1>1. UNCHANGED vars /\ UNCHANGED <<deleted, crashes>>
    BY DEF ReadLead
<1>2. review \in [Reviewers -> Reviews]
    BY DEF ReviewInv, ReviewTypeOK
<1>3. PICK q \in Reviews :
         /\ review' = [review EXCEPT ![r] = q]
         /\ q.at = "read_lead" => q.choice \in ReviewChoices
         /\ q.at # "read_state"
    <2>1. CASE review' = [review EXCEPT ![r].at = "refused"]
        <3> DEFINE q == [review[r] EXCEPT !.at = "refused"]
        <3>1. q \in Reviews /\ q.at = "refused" /\ review' = [review EXCEPT ![r] = q]
            BY <1>2, <2>1 DEF Reviews
        <3> QED
            BY <3>1
    <2>2. ASSUME NEW choice \in ReviewChoices,
                 review' = [review EXCEPT ![r] = [at |-> "read_lead", choice |-> choice,
                                                  read |-> None]]
          PROVE  \E q \in Reviews :
                    /\ review' = [review EXCEPT ![r] = q]
                    /\ q.at = "read_lead" => q.choice \in ReviewChoices
                    /\ q.at # "read_state"
        <3> DEFINE q == [at |-> "read_lead", choice |-> choice, read |-> None]
        <3>1. q \in Reviews /\ q.at = "read_lead" /\ q.choice = choice
            BY DEF Reviews
        <3> QED
            BY <2>2, <3>1
    <2> QED
        BY <2>1, <2>2 DEF ReadLead
<1>4. review' \in [Reviewers -> Reviews]
    BY <1>2, <1>3
<1>5. RequestsAreSound'
    BY <1>1, <1>2, <1>3 DEF ReviewInv, RequestsAreSound, vars
<1> QED
    BY <1>1, <1>4, <1>5, WorkflowStands DEF ReviewInv, ReviewTypeOK, RunInv

\* A status that a request reads is the one stored now.
LEMMA ReadStateKeepsInv == ReviewInv /\ (\E r \in Reviewers : ReadState(r)) => ReviewInv'
<1> SUFFICES ASSUME ReviewInv, NEW r \in Reviewers, ReadState(r) PROVE ReviewInv'
    OBVIOUS
<1>1. UNCHANGED vars /\ UNCHANGED <<deleted, crashes>>
    BY DEF ReadState
<1>2. review \in [Reviewers -> Reviews] /\ row.status \in WorkflowStatuses
    BY DEF ReviewInv, ReviewTypeOK, TypeOK, Rows
<1> DEFINE q == [review[r] EXCEPT !.at = "read_state", !.read = row.status]
<1>3. /\ q \in Reviews /\ q.read = row.status /\ q.choice \in ReviewChoices
      /\ review' = [review EXCEPT ![r] = q]
    BY <1>2 DEF ReviewInv, RequestsAreSound, ReadState, Reviews
<1> HIDE DEF q
<1>4. review' \in [Reviewers -> Reviews]
    BY <1>2, <1>3
<1>5. RequestsAreSound'
    BY <1>1, <1>2, <1>3 DEF ReviewInv, RequestsAreSound, vars
<1> QED
    BY <1>1, <1>4, <1>5, WorkflowStands DEF ReviewInv, ReviewTypeOK, RunInv

\* The status a commit leaves: completed where it was escalated or completed, otherwise
\* what it was; the trail grows by the reviewer's own entry.
LEMMA CommitReviewRow ==
    ASSUME ReviewInv, NEW r \in Reviewers, CommitReview(r)
    PROVE  /\ row' \in Rows
           /\ row'.audit = Append(row.audit, Manual)
           /\ \/ row'.status = row.status
              \/ row.status \in {"ESCALATED", "COMPLETED"} /\ row'.status = "COMPLETED"
<1>1. TypeOK /\ row \in Rows
    BY DEF ReviewInv, RunInv, TypeOK
<1>2. review[r].choice \in Priorities
    BY ReviewAssumption
       DEF ReviewInv, RequestsAreSound, CommitReview, Priorities, Classified
<1>3. Append(row.audit, Manual) \in Seq(Trail)
    BY <1>1, AppendedTrail
<1>4. row' = [priority |-> review[r].choice,
              status   |-> IF review[r].read = "ESCALATED" THEN "COMPLETED" ELSE row.status,
              audit    |-> Append(row.audit, Manual)]
    BY DEF CommitReview, Manual
<1>5. row' \in Rows
    BY <1>1, <1>2, <1>3, <1>4 DEF Rows, WorkflowStatuses, Trail, Manual
<1>6. review[r].read = "ESCALATED" => row.status \in {"ESCALATED", "COMPLETED"}
    BY DEF ReviewInv, RequestsAreSound, CommitReview
<1> QED
    BY <1>4, <1>5, <1>6

\* A reviewer's commit keeps the invariant.
LEMMA CommitReviewKeepsInv ==
    ReviewInv /\ (\E r \in Reviewers : CommitReview(r)) => ReviewInv'
<1> SUFFICES ASSUME ReviewInv, NEW r \in Reviewers, CommitReview(r) PROVE ReviewInv'
    OBVIOUS
<1>1. UNCHANGED <<pc, lead, agent, steps, notified, loaded, deleted, crashes>>
    BY DEF CommitReview
<1>2. RunInv'
    BY <1>1, CommitReviewRow, RunStands DEF ReviewInv
<1>3. review \in [Reviewers -> Reviews] /\ review' = [review EXCEPT ![r].at = "settled"]
    BY DEF ReviewInv, ReviewTypeOK, CommitReview
<1>4. ReviewTypeOK'
    <2>1. review' \in [Reviewers -> Reviews]
        BY <1>3 DEF Reviews
    <2> QED
        BY <1>1, <1>2, <2>1 DEF ReviewInv, ReviewTypeOK, RunInv
<1>5. RequestsAreSound'
    BY <1>3, CommitReviewRow DEF ReviewInv, RequestsAreSound
<1>6. StatusIsOpen' /\ TrailIsStarted'
    BY <1>1, CommitReviewRow DEF ReviewInv, StatusIsOpen, TrailIsStarted
<1>7. FinishedIsExplained'
    <2>1. /\ Occurrences(Manual, row'.audit) > 0
          /\ Occurrences("STATE_TRANSITION", row.audit) > 0 =>
                Occurrences("STATE_TRANSITION", row'.audit) > 0
        BY CommitReviewRow, AppendedTrail DEF ReviewInv, RunInv
    <2>2. row'.status # "RECEIVED" => row.status # "RECEIVED"
        BY CommitReviewRow
    <2> QED
        BY <2>1, <2>2 DEF ReviewInv, FinishedIsExplained, Manual
<1> QED
    BY <1>2, <1>4, <1>5, <1>6, <1>7 DEF ReviewInv

\* Deleting the lead touches nothing the run or the requests hold.
LEMMA DeleteLeadKeepsInv == ReviewInv /\ DeleteLead => ReviewInv'
<1> SUFFICES ASSUME ReviewInv, DeleteLead PROVE ReviewInv'
    OBVIOUS
<1>1. UNCHANGED vars /\ deleted' = TRUE /\ UNCHANGED <<review, crashes>>
    BY DEF DeleteLead
<1>2. RequestsAreSound'
    BY <1>1 DEF ReviewInv, RequestsAreSound, vars
<1> QED
    BY <1>1, <1>2, WorkflowStands DEF ReviewInv, ReviewTypeOK, RunInv

\* A death ends the run where it stands and loses the requests under way.
LEMMA CrashKeepsInv == ReviewInv /\ Crash => ReviewInv'
<1> SUFFICES ASSUME ReviewInv, Crash PROVE ReviewInv'
    OBVIOUS
<1>1. /\ UNCHANGED <<lead, agent, steps, notified, row, loaded, deleted>>
      /\ pc' \in Ended /\ (pc' = pc \/ pc' = "dead")
    BY DEF Crash, Ended
<1>2. RunInv'
    <2>1. CASE pc' = "dead"
        BY <1>1, <2>1, RaiseKeepsInv DEF ReviewInv, Raise
    <2>2. CASE pc' = pc
        BY <1>1, <2>2, RunStands DEF ReviewInv, RunInv, TypeOK
    <2> QED
        BY <1>1, <2>1, <2>2
<1>3. review \in [Reviewers -> Reviews]
    BY DEF ReviewInv, ReviewTypeOK
<1>4. \A r \in Reviewers :
         /\ review'[r] \in Reviews
         /\ review'[r] = review[r] \/ review'[r].at = "lost"
    BY <1>3 DEF Crash, Reviews
<1>5. review' \in [Reviewers -> Reviews]
    BY <1>4 DEF Crash
<1>6. crashes' \in 0..MaxCrashes
    BY ReviewAssumption DEF ReviewInv, ReviewTypeOK, Crash
<1>7. RequestsAreSound'
    BY <1>1, <1>4 DEF ReviewInv, RequestsAreSound
<1>8. StatusIsOpen' /\ TrailIsStarted' /\ FinishedIsExplained'
    BY <1>1 DEF ReviewInv, StatusIsOpen, TrailIsStarted, FinishedIsExplained, Ended
<1> QED
    BY <1>1, <1>2, <1>5, <1>6, <1>7, <1>8 DEF ReviewInv, ReviewTypeOK, RunInv

\* Every step keeps the invariant.
LEMMA ReviewStepKeepsInv == ReviewInv /\ [ReviewNext]_allVars => ReviewInv'
<1> SUFFICES ASSUME ReviewInv, [ReviewNext]_allVars PROVE ReviewInv'
    OBVIOUS
<1>1. CASE WorkflowStep
    BY <1>1, WorkflowStepKeepsInv
<1>2. CASE DeleteLead \/ Crash
    BY <1>2, DeleteLeadKeepsInv, CrashKeepsInv
<1>3. CASE \E r \in Reviewers : Request(r)
    BY <1>3, ReadLeadKeepsInv, ReadStateKeepsInv, CommitReviewKeepsInv DEF Request
<1>4. CASE UNCHANGED allVars
    <2>1. UNCHANGED vars /\ UNCHANGED <<review, deleted, crashes>>
        BY <1>4 DEF allVars, reviewVars
    <2>2. RequestsAreSound'
        BY <2>1 DEF ReviewInv, RequestsAreSound, vars
    <2> QED
        BY <2>1, <2>2, WorkflowStands DEF ReviewInv, ReviewTypeOK, RunInv
<1> QED
    BY <1>1, <1>2, <1>3, <1>4 DEF ReviewNext

-----------------------------------------------------------------------------
(* The theorems                                                              *)

\* The invariant holds however reviewers, deletion and crashes interleave with the run.
THEOREM ReviewInvariant == ReviewSpec => []ReviewInv
<1>1. ReviewInit => ReviewInv
    <2> SUFFICES ASSUME ReviewInit PROVE ReviewInv
        OBVIOUS
    <2>1. RunInv
        BY InitEstablishesInv DEF ReviewInit, WorkflowInv
    <2>2. ReviewTypeOK /\ RequestsAreSound
        <3> DEFINE fresh == [at |-> "new", choice |-> None, read |-> None]
        <3>1. fresh \in Reviews
            BY DEF Reviews
        <3>2. review = [r \in Reviewers |-> fresh] /\ deleted = FALSE /\ crashes = 0
            BY DEF ReviewInit
        <3>3. RequestsAreSound
            BY <3>2 DEF RequestsAreSound
        <3>4. crashes \in 0..MaxCrashes
            BY <3>2, ReviewAssumption
        <3> HIDE DEF fresh
        <3>5. review \in [Reviewers -> Reviews]
            BY <3>1, <3>2
        <3> QED
            BY <2>1, <3>2, <3>3, <3>4, <3>5 DEF ReviewTypeOK, RunInv
    <2>3. StatusIsOpen /\ TrailIsStarted /\ FinishedIsExplained
        BY DEF ReviewInit, Init, StatusIsOpen, TrailIsStarted, FinishedIsExplained, Ended
    <2> QED
        BY <2>1, <2>2, <2>3 DEF ReviewInv
<1> QED
    BY <1>1, ReviewStepKeepsInv, PTL DEF ReviewSpec

\* Type correctness of the run and the requests together: the run's own bounds, its retry
\* ceiling among them, survive the reviewers and the crashes.
THEOREM ReviewTypeCorrect == ReviewSpec => []ReviewTypeOK
<1>1. ReviewInv => ReviewTypeOK
    BY DEF ReviewInv
<1> QED
    BY <1>1, ReviewInvariant, PTL

\* The gate and the other promises of a run hold under review as they do alone: neither a
\* reviewer nor a death makes the agent act below the gate, without contact data, for ever,
\* or on a class laxer than the model's.
THEOREM RunUnderReview ==
    ReviewSpec => [](/\ AutonomyIsGated /\ NoContactNoProcessing /\ EscalationIsJustified
                     /\ StepsAreBounded /\ PriorityOnlyTightens)
BY ReviewInvariant, RunIsSafe, PTL DEF ReviewInv

\* No request makes an unprocessed or dead workflow look finished (set_lead_priority).
THEOREM FinishedTheorem == ReviewSpec => []FinishedIsExplained
<1>1. ReviewInv => FinishedIsExplained
    BY DEF ReviewInv
<1> QED
    BY <1>1, ReviewInvariant, PTL

\* The stored status only moves forward, whoever writes it and whatever they had read.
THEOREM StatusTheorem == ReviewSpec => StatusOnlyAdvances
<1> DEFINE Advances ==
        \/ row'.status = row.status
        \/ row.status = "RECEIVED" /\ row'.status \in {"COMPLETED", "ESCALATED"}
        \/ row.status = "ESCALATED" /\ row'.status = "COMPLETED"
<1>1. ReviewInv /\ [ReviewNext]_allVars => [Advances]_row
    <2> SUFFICES ASSUME ReviewInv, [ReviewNext]_allVars, row' # row PROVE Advances
        OBVIOUS
    <2>1. CASE WorkflowStep
        <3>1. NodeAuditCommit
            BY <2>1, StepWritesOnce DEF ReviewInv, WorkflowStep
        <3> QED
            BY <3>1, AuditCommitStatus
    <2>2. CASE \E r \in Reviewers : CommitReview(r)
        BY <2>2, CommitReviewRow
    <2> QED
        BY <2>1, <2>2
           DEF ReviewNext, Request, ReadLead, ReadState, DeleteLead, Crash, allVars, vars
<1> QED
    BY <1>1, ReviewInvariant, PTL DEF ReviewSpec, StatusOnlyAdvances

\* Sales hears of a lead at most once: a run that notified has left the nodes for good, and
\* nothing but a new run could enter them again (node_notify, process_lead).
THEOREM NotifiedTheorem == ReviewSpec => SalesNotifiedAtMostOnce
<1>1. ReviewInv /\ [ReviewNext]_allVars =>
          [pc = "notify" /\ pc' = "audit" => ~notified]_allVars
    BY DEF ReviewInv, RunInv, ActsBehindGate, Saving, Ended
<1> QED
    BY <1>1, ReviewInvariant, PTL DEF ReviewSpec, SalesNotifiedAtMostOnce

-----------------------------------------------------------------------------
(* What the answers 200 amount to                                            *)

Settled == {r \in Reviewers : review[r].at = "settled"}

\* Every manual priority that was answered 200 left exactly one MANUAL_OVERRIDE row, and
\* no other row says so (set_lead_priority adds it in the commit of the priority).
AnsweredIsAudited ==
    IsFiniteSet(Settled) /\ Occurrences(Manual, row.audit) = Cardinality(Settled)

\* The run itself never writes a MANUAL_OVERRIDE.
LEMMA RunLogsNoOverride ==
    ASSUME ReviewInv, NodeAuditCommit
    PROVE  Occurrences(Manual, row'.audit) = Occurrences(Manual, row.audit)
<1> DEFINE a == row.audit
           b == agent.audit_logs
           c == ToolRows
<1>1. a \in Seq(Trail) /\ b \in Seq(Trail) /\ c \in Seq(Trail)
    BY TrailTypes DEF ReviewInv, RunInv
<1>2. b \in Seq(AuditTypes) /\ c \in Seq(AuditTypes) /\ Manual \notin AuditTypes
    BY TrailTypes, ToolRowsType DEF ReviewInv, RunInv, TypeOK, AgentStates, AuditTypes, Manual
<1>3. row'.audit = (a \o b) \o c
    BY DEF NodeAuditCommit
<1> HIDE DEF a, b, c
<1>4. Occurrences(Manual, b) = 0 /\ Occurrences(Manual, c) = 0
    <2>1. ASSUME NEW s \in Seq(AuditTypes) PROVE \A i \in DOMAIN s : s[i] # Manual
        BY <1>2, <2>1
    <2> QED
        BY <1>2, <2>1, NoOccurrence
<1>5. /\ Occurrences(Manual, a \o b) = Occurrences(Manual, a) + Occurrences(Manual, b)
      /\ a \o b \in Seq(Trail)
    BY <1>1, OccurrencesConcat, ConcatProperties
<1>6. Occurrences(Manual, (a \o b) \o c) =
          Occurrences(Manual, a \o b) + Occurrences(Manual, c)
    BY <1>1, <1>5, OccurrencesConcat
<1>7. Occurrences(Manual, a) \in Nat
    BY <1>1, OccurrencesType
<1>8. Occurrences(Manual, row'.audit) = Occurrences(Manual, a)
    BY <1>3, <1>4, <1>5, <1>6, <1>7
<1> QED
    BY <1>8 DEF a

\* Only a commit answers 200, and it answers one request.
LEMMA SettledSteps ==
    ASSUME ReviewInv, [ReviewNext]_allVars
    PROVE  \/ Settled' = Settled /\ (row' = row \/ NodeAuditCommit)
           \/ \E r \in Reviewers : CommitReview(r) /\ r \notin Settled
                                   /\ Settled' = Settled \union {r}
<1>1. review \in [Reviewers -> Reviews]
    BY DEF ReviewInv, ReviewTypeOK
<1>2. CASE WorkflowStep
    BY <1>2, StepWritesOnce DEF ReviewInv, WorkflowStep, reviewVars, Settled
<1>3. ASSUME NEW r \in Reviewers, CommitReview(r)
      PROVE  r \notin Settled /\ Settled' = Settled \union {r}
    BY <1>1, <1>3 DEF CommitReview, Settled
<1>4. ASSUME NEW r \in Reviewers, ReadLead(r) \/ ReadState(r)
      PROVE  Settled' = Settled /\ row' = row
    <2>1. review[r].at # "settled" /\ review'[r].at # "settled" /\ row' = row
        BY <1>1, <1>4 DEF ReadLead, ReadState, Reviews, vars
    <2>2. \A q \in Reviewers \ {r} : review'[q] = review[q]
        BY <1>1, <1>4 DEF ReadLead, ReadState
    <2> QED
        BY <2>1, <2>2 DEF Settled
<1>5. CASE Crash
    BY <1>1, <1>5 DEF Crash, Settled
<1>6. CASE DeleteLead \/ UNCHANGED allVars
    BY <1>6 DEF DeleteLead, Settled, allVars, reviewVars, vars
<1> QED
    BY <1>2, <1>3, <1>4, <1>5, <1>6 DEF ReviewNext, Request

\* The human's share of the audit trail is complete and holds nothing invented, whatever
\* the interleaving of the requests with the audit transaction, deletion and crashes.
THEOREM AnsweredTheorem == ReviewSpec => []AnsweredIsAudited
<1>1. ReviewInit => AnsweredIsAudited
    <2> SUFFICES ASSUME ReviewInit PROVE AnsweredIsAudited
        OBVIOUS
    <2>1. Settled = {}
        BY DEF ReviewInit, Settled
    <2>2. Occurrences(Manual, row.audit) = 0
        <3>1. row.audit = <<>>
            BY DEF ReviewInit, Init
        <3>2. \A i \in DOMAIN row.audit : row.audit[i] # Manual
            BY <3>1
        <3> QED
            BY <3>2, NoOccurrence
    <2> QED
        BY <2>1, <2>2, FS_EmptySet DEF AnsweredIsAudited
<1>2. ReviewInv /\ AnsweredIsAudited /\ [ReviewNext]_allVars => AnsweredIsAudited'
    <2> SUFFICES ASSUME ReviewInv, AnsweredIsAudited, [ReviewNext]_allVars
                 PROVE  AnsweredIsAudited'
        OBVIOUS
    <2>1. CASE Settled' = Settled /\ (row' = row \/ NodeAuditCommit)
        BY <2>1, RunLogsNoOverride DEF AnsweredIsAudited
    <2>2. ASSUME NEW r \in Reviewers, CommitReview(r), r \notin Settled,
                 Settled' = Settled \union {r}
          PROVE  AnsweredIsAudited'
        <3>1. row'.audit = Append(row.audit, Manual)
            BY <2>2, CommitReviewRow
        <3>2. row.audit \in Seq(Trail) /\ Manual \in Trail
            BY TrailTypes DEF ReviewInv, RunInv, Trail
        <3>3. Occurrences(Manual, row'.audit) = Occurrences(Manual, row.audit) + 1
            BY <3>1, <3>2, OccurrencesAppend
        <3>4. IsFiniteSet(Settled') /\ Cardinality(Settled') = Cardinality(Settled) + 1
            BY <2>2, FS_AddElement DEF AnsweredIsAudited
        <3> QED
            BY <3>3, <3>4 DEF AnsweredIsAudited
    <2> QED
        BY <2>1, <2>2, SettledSteps
<1> QED
    BY <1>1, <1>2, ReviewInvariant, PTL DEF ReviewSpec

\* The run is over, the lead has a class, and no request that read it UNASSIGNED is still
\* on its way to its commit.
Decided ==
    /\ pc \in Ended
    /\ row.priority \in Classified
    /\ \A r \in Reviewers : review[r].at \notin {"read_lead", "read_state"}

\* Once a lead is decided nothing changes its rows again: a class, the agent's or a
\* human's, can be overruled only by a request that was under way when it was stored
\* (set_lead_priority checks the priority it read and does not look again).
THEOREM DecidedTheorem ==
    ReviewSpec => [][Decided => Decided' /\ row' = row]_allVars
<1>1. ReviewInv /\ [ReviewNext]_allVars => [Decided => Decided' /\ row' = row]_allVars
    <2> SUFFICES ASSUME ReviewInv, [ReviewNext]_allVars, Decided
                 PROVE  Decided' /\ row' = row
        OBVIOUS
    <2>1. review \in [Reviewers -> Reviews]
        BY DEF ReviewInv, ReviewTypeOK
    <2>2. ~WorkflowStep
        BY GraphLeavesRows
           DEF ReviewInv, Decided, WorkflowStep, Next, Graph, ProcessLead, NodeAuditLoad,
               NodeAuditCommit, NodeAuditFails, Ended, Nodes
    <2>3. ASSUME NEW r \in Reviewers, ReadLead(r) PROVE Decided' /\ row' = row
        <3>1. review' = [review EXCEPT ![r].at = "refused"] /\ UNCHANGED <<pc, row>>
            BY <2>3 DEF Decided, ReadLead, Classified, vars
        <3> QED
            BY <2>1, <3>1 DEF Decided
    <2>4. ASSUME NEW r \in Reviewers PROVE ~ReadState(r) /\ ~CommitReview(r)
        BY DEF Decided, ReadState, CommitReview
    <2>5. CASE Crash
        BY <2>1, <2>5 DEF Decided, Crash, Ended
    <2>6. CASE DeleteLead \/ UNCHANGED allVars
        BY <2>6 DEF Decided, DeleteLead, allVars, reviewVars, vars
    <2> QED
        BY <2>2, <2>3, <2>4, <2>5, <2>6 DEF ReviewNext, Request
<1> QED
    BY <1>1, ReviewInvariant, PTL DEF ReviewSpec
=============================================================================
