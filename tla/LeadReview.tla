------------------------------ MODULE LeadReview ------------------------------
(***************************************************************************)
(* The lead workflow with the people and the platform around it: reviewers *)
(* calling PATCH /leads/{id}/priority (set_lead_priority in                *)
(* app/api/v1/leads.py), an Admin soft-deleting the lead, and the death of *)
(* the process that runs the background task.                              *)
(*                                                                         *)
(* A request reads the lead, then its workflow state, and writes at its    *)
(* commit (the request sessions do not autoflush).  The audit session does *)
(* autoflush: once it has assigned a changed priority it holds the row     *)
(* lock of the lead until it commits, and a reviewer's commit waits.       *)
(***************************************************************************)
EXTENDS LeadWorkflow

CONSTANTS Reviewers,   \* requests to set the priority, one each
          ReviewChoices, \* the priorities a reviewer may ask for
          MaxCrashes   \* bound on the deaths of the worker process

ASSUME ReviewAssumption ==
    /\ ReviewChoices \subseteq {"HIGH", "MEDIUM", "LOW"}
    /\ MaxCrashes \in Nat

VARIABLES review,  \* where each request stands, with what it read and asks for
          deleted, \* leads.is_deleted
          crashes

reviewVars == <<review, deleted, crashes>>
allVars    == <<vars, reviewVars>>

\* A request is "new", has read the lead, has read the workflow state too, was
\* answered ("settled" with 200, "refused" with 400 or 404), or "lost" its process.
Reviews == [at : {"new", "read_lead", "read_state", "settled", "refused", "lost"},
            choice : ReviewChoices \union {None},
            read : WorkflowStatuses \union {None}]

ReviewInit ==
    /\ Init
    /\ review = [r \in Reviewers |-> [at |-> "new", choice |-> None, read |-> None]]
    /\ deleted = FALSE
    /\ crashes = 0

-----------------------------------------------------------------------------
(* set_lead_priority                                                         *)

\* Mutant: only leads still in their workflow may be classified by hand.
ReadLeadOpenOnly(r) ==
    /\ review[r].at = "new"
    /\ IF deleted \/ row.priority # "UNASSIGNED" \/ row.status # "RECEIVED"
       THEN review' = [review EXCEPT ![r].at = "refused"]
       ELSE \E choice \in ReviewChoices :
               review' = [review EXCEPT ![r] = [at |-> "read_lead", choice |-> choice,
                                                read |-> None]]
    /\ UNCHANGED <<vars, deleted, crashes>>

\* The lead must exist, not be deleted and be UNASSIGNED.
ReadLead(r) ==
    /\ review[r].at = "new"
    /\ IF deleted \/ row.priority # "UNASSIGNED"
       THEN review' = [review EXCEPT ![r].at = "refused"]
       ELSE \E choice \in ReviewChoices :
               review' = [review EXCEPT ![r] = [at |-> "read_lead", choice |-> choice,
                                                read |-> None]]
    /\ UNCHANGED <<vars, deleted, crashes>>

ReadState(r) ==
    /\ review[r].at = "read_lead"
    /\ review' = [review EXCEPT ![r].at = "read_state", ![r].read = row.status]
    /\ UNCHANGED <<vars, deleted, crashes>>

\* node_audit flushed a changed priority and has not committed yet.
LeadLocked == pc = "audit_commit" /\ agent.priority # loaded.priority

\* Mutant: the human's decision completes the workflow whatever state it was in.
CommitReviewAlwaysCompleting(r) ==
    /\ review[r].at = "read_state"
    /\ ~LeadLocked
    /\ row' = [priority |-> review[r].choice, status |-> "COMPLETED",
               audit    |-> Append(row.audit, "MANUAL_OVERRIDE")]
    /\ review' = [review EXCEPT ![r].at = "settled"]
    /\ UNCHANGED <<pc, lead, agent, steps, notified, loaded, deleted, crashes>>

\* The priority is written over whatever the row holds by now; the status only
\* when the request read ESCALATED; the MANUAL_OVERRIDE row in the same commit.
CommitReview(r) ==
    /\ review[r].at = "read_state"
    /\ ~LeadLocked
    /\ row' = [priority |-> review[r].choice,
               status   |-> IF review[r].read = "ESCALATED" THEN "COMPLETED"
                            ELSE row.status,
               audit    |-> Append(row.audit, "MANUAL_OVERRIDE")]
    /\ review' = [review EXCEPT ![r].at = "settled"]
    /\ UNCHANGED <<pc, lead, agent, steps, notified, loaded, deleted, crashes>>

\* delete_lead: only the flag; the workflow and its writes go on regardless.
DeleteLead ==
    /\ ~deleted
    /\ deleted' = TRUE
    /\ UNCHANGED <<vars, review, crashes>>

\* Mutant: a second process resumes the task from its start.
CrashAndRerun ==
    /\ crashes < MaxCrashes
    /\ crashes' = crashes + 1
    /\ pc' = "receive_lead"
    /\ agent' = NewAgentState
    /\ steps' = 0
    /\ UNCHANGED <<lead, notified, row, loaded, review, deleted>>

\* The process dies: the queued or running task is gone (nothing stores it, nothing
\* resumes it), open transactions roll back, requests in flight are lost.
Crash ==
    /\ crashes < MaxCrashes
    /\ crashes' = crashes + 1
    /\ pc' = IF pc = "done" THEN pc ELSE "dead"
    /\ review' = [r \in Reviewers |->
                    IF review[r].at \in {"read_lead", "read_state"}
                    THEN [review[r] EXCEPT !.at = "lost"] ELSE review[r]]
    /\ UNCHANGED <<lead, agent, steps, notified, row, loaded, deleted>>

WorkflowStep == Next /\ UNCHANGED reviewVars

Request(r) == ReadLead(r) \/ ReadState(r) \/ CommitReview(r)

ReviewNext == WorkflowStep \/ DeleteLead \/ Crash \/ \E r \in Reviewers : Request(r)

\* The task's thread and the request threads run; nobody need delete or crash.
ReviewSpec ==
    /\ ReviewInit /\ [][ReviewNext]_allVars
    /\ WF_allVars(WorkflowStep)
    /\ \A r \in Reviewers : WF_allVars(Request(r))

-----------------------------------------------------------------------------
(* Properties                                                                *)

\* What the requests hold has its type.
ReviewTypeOK ==
    /\ TypeOK
    /\ review \in [Reviewers -> Reviews]
    /\ deleted \in BOOLEAN
    /\ crashes \in 0..MaxCrashes

\* Whatever the interleaving of the audit transaction with the requests, the stored
\* status only moves forward: a finished workflow is not reopened and one that a
\* human completed is not escalated again (node_audit, set_lead_priority).
StatusOnlyAdvances ==
    [][\/ row'.status = row.status
       \/ row.status = "RECEIVED" /\ row'.status \in {"COMPLETED", "ESCALATED"}
       \/ row.status = "ESCALATED" /\ row'.status = "COMPLETED"]_row

\* A lead shown as COMPLETED or ESCALATED has the agent's trail, and a COMPLETED one
\* was either sent to sales or taken over by a human, which left its own row: no
\* request makes an unprocessed or dead workflow look finished.
FinishedIsExplained ==
    row.status # "RECEIVED" =>
        /\ Occurrences("STATE_TRANSITION", row.audit) > 0
        /\ row.status = "COMPLETED" =>
              notified \/ Occurrences("MANUAL_OVERRIDE", row.audit) > 0

\* Through crashes, deletions and reviews, sales hears of a lead at most once
\* (node_notify has no record of earlier runs to check).
SalesNotifiedAtMostOnce ==
    [][pc = "notify" /\ pc' = "audit" => ~notified]_allVars

\* An escalated lead left UNASSIGNED is classified once somebody asks, unless it is
\* deleted or the process dies first (set_lead_priority).
ReviewResolves ==
    (/\ row.status = "ESCALATED" /\ row.priority = "UNASSIGNED"
     /\ \E r \in Reviewers : review[r].at = "new")
      ~> (row.priority \in Classified \/ deleted \/ crashes > 0)

\* leads.py, set_lead_priority: a manual priority never overrules a real decision of
\* the agent.  Once the run has stored a class, no request changes it.
AgentDecisionIsNotOverruled ==
    [][(pc = "done" /\ row.priority = agent.priority /\ row.priority \in Classified)
         => row'.priority = row.priority]_allVars

\* leads.py, set_lead_priority: reviewers resolve a lead the confidence gate escalated,
\* which moves to COMPLETED, even when all of them come after the escalation.
EscalatedIsResolved ==
    (row.status = "ESCALATED" /\ lead.email /\ \A r \in Reviewers : review[r].at = "new")
      ~> (row.status = "COMPLETED" \/ deleted \/ crashes > 0)
=============================================================================
