----------------------------- MODULE EmailDispatch -----------------------------
(***************************************************************************)
(* Scheduled e-mails: the workers' dispatch ticks (app/core/scheduler.py), *)
(* the mailer they call (app/core/mailer.py) and the API requests that     *)
(* schedule and cancel e-mails (app/api/v1/leads.py).                      *)
(*                                                                         *)
(* Every gunicorn worker runs its own scheduler; max_instances=1 keeps one *)
(* tick per worker.  A tick loads a batch of due rows once and then, row by*)
(* row, claims, sends and records, each in its own transaction, so other   *)
(* workers, cancellations, database errors and the death of the process    *)
(* come in between.                                                        *)
(***************************************************************************)
EXTENDS Integers, Sequences, FiniteSets

CONSTANTS Emails, Workers,
          Cancellers,     \* cancellation requests, one e-mail each
          ScheduledAt,    \* scheduled_at of each e-mail
          Horizon,        \* bound on the clock
          MaxAttempts,    \* settings.EMAIL_MAX_ATTEMPTS
          BatchLimit,     \* the query's limit (50)
          EmailEnabled,   \* settings.EMAIL_ENABLED; FALSE is the dry run
          MaxLostReplies, MaxDbErrors, MaxCrashes \* bounds on the faults

ASSUME DispatchAssumption ==
    /\ ScheduledAt \in [Emails -> Nat]
    /\ Horizon \in Nat
    /\ MaxAttempts \in Nat \ {0}
    /\ BatchLimit \in Nat \ {0}
    /\ EmailEnabled \in BOOLEAN
    /\ MaxLostReplies \in Nat /\ MaxDbErrors \in Nat /\ MaxCrashes \in Nat

None == "none"
\* A cancellation is in the state "new" or "done", or it holds an e-mail.
ASSUME EmailsAssumption == Emails \intersect {"new", "done"} = {}

VARIABLES
    now,       \* the clock the due query compares with
    status,    \* scheduled_emails.status
    attempts,  \* scheduled_emails.attempts
    at,        \* where each worker's tick stands
    batch,     \* what is left of its due list, the current e-mail first
    attempt,   \* its local variable attempts (0 between rows)
    reply,     \* what send_email told it
    cancel,    \* each cancellation request: "new", the e-mail it read PENDING, "done"
    delivered, \* copies each recipient's server accepted
    lostReplies, dbErrors, \* faults met so far, per e-mail
    crashes

rows       == <<status, attempts>>
ticks      == <<at, batch, attempt, reply>>
outside    == <<delivered, lostReplies, dbErrors, crashes>>
vars       == <<now, rows, ticks, cancel, outside>>

Statuses == {"ABSENT", "PENDING", "SENDING", "SENT", "FAILED", "CANCELLED"}
Settled  == {"SENT", "FAILED", "CANCELLED"}

Init ==
    /\ now = 0
    /\ status = [e \in Emails |-> "ABSENT"]
    /\ attempts = [e \in Emails |-> 0]
    /\ at = [w \in Workers |-> "idle"]
    /\ batch = [w \in Workers |-> <<>>]
    /\ attempt = [w \in Workers |-> 0]
    /\ reply = [w \in Workers |-> None]
    /\ cancel = [c \in Cancellers |-> "new"]
    /\ delivered = [e \in Emails |-> 0]
    /\ lostReplies = [e \in Emails |-> 0]
    /\ dbErrors = [e \in Emails |-> 0]
    /\ crashes = 0

Advance ==
    /\ now < Horizon
    /\ now' = now + 1
    /\ UNCHANGED <<rows, ticks, cancel, outside>>

\* schedule_email inserts the row; scheduled_at may already have passed.
Schedule(e) ==
    /\ status[e] = "ABSENT"
    /\ status' = [status EXCEPT ![e] = "PENDING"]
    /\ UNCHANGED <<now, attempts, ticks, cancel, outside>>

-----------------------------------------------------------------------------
(* dispatch_due_emails                                                       *)

IsDue(e) == status[e] = "PENDING" /\ ScheduledAt[e] <= now

\* Mutant: the query selects the rows left SENDING as well.
DueOrSending == {e \in Emails : status[e] \in {"PENDING", "SENDING"} /\ ScheduledAt[e] <= now}

Due == {e \in Emails : IsDue(e)}

\* The query's results: the due rows in the order of scheduled_at, as many as the
\* limit lets through.
Batches ==
    {b \in UNION {[1..n -> Due] : n \in 1..BatchLimit} :
       LET taken == {b[i] : i \in DOMAIN b}
       IN  /\ Cardinality(taken) = Len(b)
           /\ Len(b) = BatchLimit \/ taken = Due
           /\ \A i, j \in DOMAIN b : i < j => ScheduledAt[b[i]] <= ScheduledAt[b[j]]
           /\ \A i \in DOMAIN b, e \in Due \ taken : ScheduledAt[b[i]] <= ScheduledAt[e]}

StartTick(w) ==
    /\ at[w] = "idle"
    /\ \E b \in Batches : batch' = [batch EXCEPT ![w] = b]
    /\ at' = [at EXCEPT ![w] = "loop"]
    /\ UNCHANGED <<now, rows, attempt, reply, cancel, outside>>

\* The loop goes on to the next row, or the tick is over.
NextRow(w) ==
    /\ batch' = [batch EXCEPT ![w] = Tail(batch[w])]
    /\ at' = [at EXCEPT ![w] = IF Tail(batch[w]) = <<>> THEN "idle" ELSE "loop"]
    /\ attempt' = [attempt EXCEPT ![w] = 0]
    /\ reply' = [reply EXCEPT ![w] = None]

\* The tick ends early: an exception leaves dispatch_due_emails, or the process dies.
EndTick(w) ==
    /\ batch' = [batch EXCEPT ![w] = <<>>]
    /\ at' = [at EXCEPT ![w] = "idle"]
    /\ attempt' = [attempt EXCEPT ![w] = 0]
    /\ reply' = [reply EXCEPT ![w] = None]

\* Mutant: the claim does not look at the status (no WHERE status = PENDING).
ClaimBlindly(w) ==
    LET e == Head(batch[w])
    IN  /\ at[w] = "loop"
        /\ status' = [status EXCEPT ![e] = "SENDING"]
        /\ attempt' = [attempt EXCEPT ![w] = attempts[e] + 1]
        /\ at' = [at EXCEPT ![w] = "send"]
        /\ UNCHANGED <<now, attempts, batch, reply, cancel, outside>>

\* Mutant: the attempt in progress is not counted.
ClaimUncounted(w) ==
    LET e == Head(batch[w])
    IN  /\ at[w] = "loop"
        /\ status[e] = "PENDING"
        /\ status' = [status EXCEPT ![e] = "SENDING"]
        /\ attempt' = [attempt EXCEPT ![w] = attempts[e]]
        /\ at' = [at EXCEPT ![w] = "send"]
        /\ UNCHANGED <<now, attempts, batch, reply, cancel, outside>>

\* The optimistic claim changed one row: this worker owns the e-mail.  The attempt
\* number is read back after the claim; only an owner writes the column.
Claim(w) ==
    LET e == Head(batch[w])
    IN  /\ at[w] = "loop"
        /\ status[e] = "PENDING"
        /\ status' = [status EXCEPT ![e] = "SENDING"]
        /\ attempt' = [attempt EXCEPT ![w] = attempts[e] + 1]
        /\ at' = [at EXCEPT ![w] = "send"]
        /\ UNCHANGED <<now, attempts, batch, reply, cancel, outside>>

\* It changed no row: another worker or a cancellation came first.
Skip(w) ==
    /\ at[w] = "loop"
    /\ status[Head(batch[w])] # "PENDING"
    /\ NextRow(w)
    /\ UNCHANGED <<now, rows, cancel, outside>>

\* send_email: a dry run sends nothing and reports success.  Otherwise the SMTP
\* server accepted the message, or the call raised (SMTP error, breaker open).  Every
\* try whose reply is lost has delivered a copy all the same.
Send(w) ==
    LET e == Head(batch[w])
    IN  /\ at[w] = "send"
        /\ \E r \in {"sent", "failed"}, lost \in 0..(MaxLostReplies - lostReplies[e]) :
              /\ ~EmailEnabled => r = "sent" /\ lost = 0
              /\ reply' = [reply EXCEPT ![w] = r]
              /\ lostReplies' = [lostReplies EXCEPT ![e] = @ + lost]
              /\ delivered' = [delivered EXCEPT
                    ![e] = @ + lost + IF EmailEnabled /\ r = "sent" THEN 1 ELSE 0]
        /\ at' = [at EXCEPT ![w] = "record"]
        /\ UNCHANGED <<now, rows, batch, attempt, cancel, dbErrors, crashes>>

\* Mutant: one attempt too many.
AfterFailureOnceMore(n) == IF n > MaxAttempts THEN "FAILED" ELSE "PENDING"

\* The status after a failed attempt number n.
AfterFailure(n) == IF n >= MaxAttempts THEN "FAILED" ELSE "PENDING"

\* The UPDATE by id, whatever the row holds by now.
Write(w, s) ==
    LET e == Head(batch[w])
    IN  /\ status' = [status EXCEPT ![e] = s]
        /\ attempts' = [attempts EXCEPT ![e] = attempt[w]]

RecordSent(w) ==
    /\ at[w] = "record" /\ reply[w] = "sent"
    /\ Write(w, "SENT")
    /\ NextRow(w)
    /\ UNCHANGED <<now, cancel, outside>>

\* Mutant: the exception of a failed send is swallowed.
RecordFailedAsSent(w) ==
    /\ at[w] = "record" /\ reply[w] = "failed"
    /\ Write(w, "SENT")
    /\ NextRow(w)
    /\ UNCHANGED <<now, cancel, outside>>

\* Mutant: only attempts and last_error are written, not the status.
RecordFailedHalf(w) ==
    /\ at[w] = "record" /\ reply[w] = "failed"
    /\ attempts' = [attempts EXCEPT ![Head(batch[w])] = attempt[w]]
    /\ NextRow(w)
    /\ UNCHANGED <<now, status, cancel, outside>>

RecordFailed(w) ==
    /\ at[w] = "record" /\ reply[w] = "failed"
    /\ Write(w, AfterFailure(attempt[w]))
    /\ NextRow(w)
    /\ UNCHANGED <<now, cancel, outside>>

\* A database call of the tick raised.
DatabaseError(w) ==
    LET e == Head(batch[w])
    IN  /\ at[w] # "idle"
        /\ dbErrors[e] < MaxDbErrors
        /\ dbErrors' = [dbErrors EXCEPT ![e] = @ + 1]
        /\ UNCHANGED <<now, cancel, delivered, lostReplies, crashes>>

\* Mutant: the handler rolls the session back and records a success as a failure.
TickRaisesAndRetries(w) ==
    /\ DatabaseError(w)
    /\ at[w] = "record"
    /\ Write(w, AfterFailure(attempt[w]))
    /\ NextRow(w)

\* Claiming the row, reading its attempts back or recording the result raised.  The
\* handler of failed sends does not roll the session back, so its own write raises as
\* well: nothing catches that, the tick is over and the row stays as it is.
TickRaises(w) ==
    /\ DatabaseError(w)
    /\ EndTick(w)
    /\ UNCHANGED rows

\* Mutant: restarting requeues what the dead worker was sending.
CrashAndRequeue(w) ==
    /\ crashes < MaxCrashes
    /\ at[w] \in {"send", "record"}
    /\ crashes' = crashes + 1
    /\ EndTick(w)
    /\ status' = [status EXCEPT ![Head(batch[w])] = "PENDING"]
    /\ UNCHANGED <<now, attempts, cancel, delivered, lostReplies, dbErrors>>

\* The worker process dies in a tick; the new one starts with nothing in memory.
Crash(w) ==
    /\ crashes < MaxCrashes
    /\ at[w] # "idle"
    /\ crashes' = crashes + 1
    /\ EndTick(w)
    /\ UNCHANGED <<now, rows, cancel, delivered, lostReplies, dbErrors>>

-----------------------------------------------------------------------------
(* cancel_scheduled_email: the status is read, then overwritten by id        *)

CancelRead(c, e) ==
    /\ cancel[c] = "new"
    /\ status[e] = "PENDING"
    /\ cancel' = [cancel EXCEPT ![c] = e]
    /\ UNCHANGED <<now, rows, ticks, outside>>

CancelCommit(c, e) ==
    /\ cancel[c] = e
    /\ status' = [status EXCEPT ![e] = "CANCELLED"]
    /\ cancel' = [cancel EXCEPT ![c] = "done"]
    /\ UNCHANGED <<now, attempts, ticks, outside>>

-----------------------------------------------------------------------------
Work(w) ==
    \/ StartTick(w) \/ Claim(w) \/ Skip(w) \/ Send(w)
    \/ RecordSent(w) \/ RecordFailed(w)
Fault(w) == TickRaises(w) \/ Crash(w)

Next ==
    \/ Advance
    \/ \E e \in Emails : Schedule(e)
    \/ \E w \in Workers : Work(w) \/ Fault(w)
    \/ \E c \in Cancellers, e \in Emails : CancelRead(c, e) \/ CancelCommit(c, e)

\* Time passes and every worker's scheduler keeps ticking (interval trigger); nobody
\* need schedule or cancel anything, and no fault need happen.
Spec == Init /\ [][Next]_vars /\ WF_vars(Advance) /\ \A w \in Workers : WF_vars(Work(w))

-----------------------------------------------------------------------------
(* Properties                                                                *)

\* The variables have their types; attempts never exceed the configured maximum.
TypeOK ==
    /\ now \in 0..Horizon
    /\ status \in [Emails -> Statuses]
    /\ attempts \in [Emails -> 0..MaxAttempts]
    /\ at \in [Workers -> {"idle", "loop", "send", "record"}]
    /\ batch \in [Workers -> Seq(Emails)]
    /\ \A w \in Workers : at[w] # "idle" => batch[w] # <<>>
    /\ attempt \in [Workers -> 0..MaxAttempts]
    /\ reply \in [Workers -> {None, "sent", "failed"}]
    /\ cancel \in [Cancellers -> {"new", "done"} \union Emails]
    /\ delivered \in [Emails -> Nat]
    /\ lostReplies \in [Emails -> 0..MaxLostReplies]
    /\ dbErrors \in [Emails -> 0..MaxDbErrors]
    /\ crashes \in 0..MaxCrashes

Owns(w, e) == at[w] \in {"send", "record"} /\ Head(batch[w]) = e

\* The point of the optimistic claim: no e-mail is in the hands of two workers, even
\* when a cancellation overwrites the claimed row (scheduler.py, MULTI-WORKER SAFETY).
SingleOwner ==
    \A v, w \in Workers : \A e \in Emails : Owns(v, e) /\ Owns(w, e) => v = w

\* A row that can still be claimed has attempts left, and FAILED means that all of
\* them were used (EMAIL_MAX_ATTEMPTS).
AttemptsAreCounted ==
    \A e \in Emails :
        /\ status[e] = "PENDING" => attempts[e] < MaxAttempts
        /\ status[e] = "FAILED"  => attempts[e] = MaxAttempts

\* A recipient gets a second copy only where a reply of the SMTP server was lost.
DuplicatesAreExplained ==
    \A e \in Emails : delivered[e] <= 1 + lostReplies[e]

\* SENT is not claimed for an e-mail no server accepted, except in the dry run.
SentWasDelivered ==
    EmailEnabled => \A e \in Emails : status[e] = "SENT" => delivered[e] > 0

\* The rows and the recipients' mailboxes agree as far as they can: SENT means at least
\* one copy, and workers, stale batches, crashes and database errors never duplicate one
\* (send_email, the success UPDATE, the optimistic claim).
CopiesAreExplained == DuplicatesAreExplained /\ SentWasDelivered

Orphaned(e) == status[e] = "SENDING" /\ \A w \in Workers : ~Owns(w, e)

\* A row is left SENDING with nobody sending it only by a crash or a database error.
OrphansAreFaults ==
    \A e \in Emails : Orphaned(e) => crashes > 0 \/ dbErrors[e] > 0

\* A due e-mail is sent, given up or cancelled, unless a fault orphans it: competing
\* workers do not starve it, nor do earlier e-mails that fail or are orphaned and would
\* fill every batch (order by scheduled_at, the batch limit).
DueIsSettledOrOrphaned ==
    \A e \in Emails : IsDue(e) ~> (status[e] \in Settled \/ Orphaned(e))

\* The workers together behave like the outbox: one owner per e-mail at a time,
\* attempts counted one by one.
Owned  == {e \in Emails : \E w \in Workers : Owns(w, e)}
Outbox == INSTANCE EmailOutbox WITH owned <- Owned
OutboxSpec == Outbox!Spec

\* leads.py, cancel_scheduled_email: only a PENDING e-mail is cancelled.
OnlyPendingIsCancelled ==
    [][\A e \in Emails :
         status[e] # "CANCELLED" /\ status'[e] = "CANCELLED" => status[e] = "PENDING"]_vars

\* scheduler.py: the queue lives in Postgres, so nothing is lost on a restart.
NothingIsLostOnRestart ==
    \A e \in Emails : IsDue(e) ~> status[e] \in Settled
=============================================================================
