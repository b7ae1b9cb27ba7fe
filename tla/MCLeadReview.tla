----------------------------- MODULE MCLeadReview -----------------------------
(***************************************************************************)
(* Instances of LeadReview for TLC: two reviewers meet one lead, with or   *)
(* without contact data.  The workflow's own input space is small here     *)
(* (MCLeadWorkflow covers it): one retry, one budget and one reported      *)
(* confidence, at the gate; the fallback's lies below it.                  *)
(***************************************************************************)
EXTENDS LeadReview, TLC

CONSTANTS r1, r2

MCReviewers   == {r1, r2}
\* One choice, which the model's own verdicts can equal or not.
MCChoices     == {"LOW"}
MCBudgets     == {0}
MCConfidences == {70}
\* leads.email is UNIQUE and the query excludes the lead's own row.
MCCrmAnswers  == {FALSE}
=============================================================================
