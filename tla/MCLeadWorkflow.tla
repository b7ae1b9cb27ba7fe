---------------------------- MODULE MCLeadWorkflow ----------------------------
(***************************************************************************)
(* Instances of LeadWorkflow for TLC.  The policy is the shipped one scaled*)
(* down: gate 70 %, a budget threshold with a budget below it, at it and   *)
(* above it, and model confidences below zero, below the fallback's, at it,*)
(* just below the gate, at the gate, over 100 % and NaN.                   *)
(***************************************************************************)
EXTENDS LeadWorkflow

MCBudgets     == {0, 5, 6}
MCConfidences == {-5, 20, 50, 69, 70, 120, NaN}
\* leads.email is UNIQUE and the query excludes the lead's own row, so in this
\* deployment the duplicate query can only answer "no other row".
MCCrmAnswers  == {FALSE}
=============================================================================
