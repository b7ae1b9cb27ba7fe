------------------------------ MODULE EmailOutbox ------------------------------
(***************************************************************************)
(* What the scheduled_emails table promises whoever reads it, workers left *)
(* out: an e-mail being sent has at most one sender, a sender takes only a *)
(* PENDING row, every finished attempt is counted, and the row is retried  *)
(* while attempts are left and FAILED when they are used up.  A sender may *)
(* vanish and leave its row SENDING.  A cancellation overwrites the row,   *)
(* whatever its state.                                                     *)
(***************************************************************************)
EXTENDS Integers

CONSTANTS Emails, MaxAttempts

VARIABLES status,   \* status of each row, "ABSENT" before it is scheduled
          attempts, \* finished attempts
          owned     \* the e-mails some sender is working on

vars == <<status, attempts, owned>>

Init ==
    /\ status = [e \in Emails |-> "ABSENT"]
    /\ attempts = [e \in Emails |-> 0]
    /\ owned = {}

Enqueue(e) ==
    /\ status[e] = "ABSENT"
    /\ status' = [status EXCEPT ![e] = "PENDING"]
    /\ UNCHANGED <<attempts, owned>>

Take(e) ==
    /\ status[e] = "PENDING"
    /\ e \notin owned
    /\ status' = [status EXCEPT ![e] = "SENDING"]
    /\ owned' = owned \union {e}
    /\ UNCHANGED attempts

Finish(e) ==
    /\ e \in owned
    /\ owned' = owned \ {e}
    /\ attempts' = [attempts EXCEPT ![e] = @ + 1]
    /\ \E result \in {"SENT", IF attempts[e] + 1 < MaxAttempts THEN "PENDING" ELSE "FAILED"} :
          status' = [status EXCEPT ![e] = result]

Vanish(e) ==
    /\ e \in owned
    /\ owned' = owned \ {e}
    /\ UNCHANGED <<status, attempts>>

Cancel(e) ==
    /\ status[e] # "ABSENT"
    /\ status' = [status EXCEPT ![e] = "CANCELLED"]
    /\ UNCHANGED <<attempts, owned>>

Next == \E e \in Emails : Enqueue(e) \/ Take(e) \/ Finish(e) \/ Vanish(e) \/ Cancel(e)

Spec == Init /\ [][Next]_vars
=============================================================================
