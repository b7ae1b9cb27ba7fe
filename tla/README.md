# Lead management worker: TLA+ models, checks and proofs

The repository is a FastAPI service that takes in sales leads, runs each one through a LangGraph
workflow (validate, look up, enrich, score with an LLM, act or escalate) and stores the outcome in
PostgreSQL. Sales staff resolve what the agent could not decide, and schedule follow-up e-mails
that a background scheduler sends. This directory holds TLA+ modules translated from its source,
TLC configurations that check them on small instances, and TLAPS proofs of the properties that
matter most for every value of the constants. Paths below are relative to the repository root.

## 1. Inventory

| Part | State it keeps | Operations | What is hard |
|---|---|---|---|
| Rule engine, `app/agents/decision_engine.py`, `app/core/policy.py` | none | five rules in order, two of which halt; default priority; derived action | boundaries (`>` and `<`), order, halting, any gate in 0..1 |
| Workflow graph, `app/agents/graph.py`, `app/agents/state.py` | `AgentState` in memory | eleven nodes, five routing edges, `process_lead` | a retry loop with two counters, exceptions that escape nodes, one final transaction for everything |
| LLM scoring, `app/agents/llm_scorer.py`, breakers in `app/core/resilience.py` | per-model breakers in memory | model chain, self-correcting re-prompt, rule fallback | failure at each of several calls, breakers shared by threads, their cache without a lock |
| Enrichment client, `app/core/resilience.py` | breaker | `safe_enrich_domain` | retries, degradation |
| Manual review, `set_lead_priority` and `delete_lead` in `app/api/v1/leads.py` | `leads`, `workflow_states`, `audit_logs` | check, then write at the commit | races with the workflow of the same lead and with each other |
| E-mail dispatch, `app/core/scheduler.py`, `app/core/mailer.py`, e-mail endpoints of `leads.py` | `scheduled_emails` | due query, claim, send, record; schedule; cancel | several workers, crash between claim and record, lost SMTP replies, failing database calls, cancellations |
| Ingest, `_create_and_queue_lead`, `_bulk_ingest` | `leads`, in-memory background tasks | single, bulk, inbound e-mail | check-then-insert, commit before the task is queued |
| Accounts, `app/api/v1/users.py`, `auth.py`, `dependencies.py` | `users`, tokens held by clients | login, refresh, expiry, create, revoke, restore | check-then-act on the last admin, a role believed from the token, stale authorisation |
| Startup, `docker-entrypoint.sh`, `scripts/run_migrations.py`, `alembic/`, `app/main.py`, `app/core/seed.py` | schema, `alembic_version`, seed rows | stamp, upgrade, create tables, seed | a revision guessed from the tables, four processes at once, failures that restart the container |
| Graph singleton and checkpointer, `get_compiled_graph`, `app/core/memory.py` | module global | lazy build | double-checked locking; nothing resumes from a checkpoint |
| Frontend, `frontend/src` | browser state | polling, token refresh | answers out of order |

How they interact: a request commits a lead and its `RECEIVED` workflow state, then queues
`process_lead` as an in-memory background task of the same process. The task runs the graph in a
thread; its nodes call the enrichment API, the LLM and the rule engine, and only `node_audit`
writes to the database. Reviewers, deletions and the e-mail endpoints work on the same rows through
request sessions that read, check in Python and write at the commit (`autoflush=False`, no
`SELECT ... FOR UPDATE`, default isolation). Every one of the four Gunicorn workers runs its own
scheduler over the same `scheduled_emails` table.

What makes each part correct is stated by its properties (section 3); what could go wrong in each,
line by line, is the list of hazards in `PROJECT.json`.

## 2. Modules

**`DecisionEngine`** (no variables). One operator per rule, `Guarded` and `Routed` for the two
groups, `EvaluateRules` for `DecisionEngine.process_lead`. Confidences are whole percentages. A
job title counts only as "holds a decision-maker keyword", an address as present or not.

**`LeadWorkflow`** extends it: one background run. `pc` is the node about to run, `agent` the
`AgentState` (audit entries and tool calls by type), `row` what PostgreSQL holds for the lead. One
action per node; each includes its routing edge, because LangGraph runs the edge right after the
node on the updated state. The final transaction is two actions, `NodeAuditLoad` and
`NodeAuditCommit`, so that others can come in between; `Assigned` is SQLAlchemy's rule that a
column is updated only when the assigned value differs from the loaded one. Enrichment, duplicate
query, model and database answer nondeterministically. Exceptions that escape a node are
`NodeEnrichmentRaises` and `NodeLeadScoreRaises`; a failed final write is `NodeAuditFails`.
`draft_email` and `notified` are the effects the outside world could see.

**`LeadReview`** extends `LeadWorkflow` with its environment: each reviewer's
`set_lead_priority` in three steps (read the lead, read the workflow state, commit), `DeleteLead`,
and `Crash` of the process. `LeadLocked` is the row lock the audit session holds from its autoflush
of a changed priority to its commit. A crash ends the task for good: no code submits a workflow id
a second time, so the checkpointer never resumes anything.

**`EmailDispatch`**: per worker, the position in `dispatch_due_emails` (`at`), the rest of the
batch, the local `attempts` and the answer of `send_email`; per e-mail, the row and the number of
copies delivered. Claim, send and record are separate steps. `Send` sums up the three tries inside
`_smtp_send`: every try whose reply is lost delivers a copy. `TickRaises` is a database error: the
`except` clause of failed sends catches one that a record raises, but its own write goes through the
same session, which nobody has rolled back, and raises as well. The row keeps what it held,
`SENDING` once it was claimed. A cancellation reads and writes in two steps.

**`EmailOutbox`**: the abstract specification `EmailDispatch` implements: take, finish, vanish,
enqueue, cancel, with no workers.

**`LlmScoring`**: concurrent calls of `score_lead`, one `Jobs` element per call, and the breakers
they share. `Lookup` and `Store` are the two halves of `_get_llm_breaker`, which reads and writes
the cache without a lock; a breaker is named by its model and the job that made it, so two jobs
that both miss hold different ones. pybreaker is external: its lock is held from the check of the
state to the end of the call (`Busy`), a call past the reset time is the half-open trial, and the
lapse of the reset time is an action (`ResetElapses`) nobody is obliged to take. `TryAgain` is
tenacity's retry inside the breaker's call; `FailOver` the loop of `score_lead` with its fresh copy
of the base messages. What a model answers is a choice of four: usable, not JSON, JSON refused by
`_to_result`, JSON that is no object (`NotAnObject`, whose `AttributeError` leaves `score_lead` and
is the exception `NodeLeadScoreRaises` of `LeadWorkflow` stands for). `Init` allows for earlier
scorings: a model's breaker may exist, closed, with failures counted.

**`ScoreLead`**: the abstract specification `LlmScoring` implements, and what `NodeLeadScore` and
`NodeLeadScoreRaises` of `LeadWorkflow` rely on: the chain in order, a prompt and at most one
re-prompt per model, an honest source, the rules only at the end. Whether a model failed, was
refused by its breaker or was tried three times is not told apart.

**`LeadIngest`**: concurrent requests of three kinds, single (`ingest_lead`), bulk
(`_bulk_ingest`) and raw (`ingest_lead_raw`), each working through its rows. Lookup, insert, commit
and refresh are separate steps (`CheckPasses` or `CheckConflicts`, `Insert` or `InsertCollides`,
`Commit`, `Queue` or `RefreshFails`). An uncommitted insert is `pending`: a second insert of the
address waits for it, as PostgreSQL's unique index makes it wait. `tasks` are the request's
`BackgroundTasks`, which a refused response drops and a crash loses. The lookup compares the
address as typed, the table holds it in lowercase (`Stored`): another spelling passes the lookup
and meets the constraint.

**`Startup`**: the database a container meets (`Init`: any that a release of this service may have
left, as `ServiceDatabase` describes), the entrypoint's stamp and upgrade, and each worker's
lifespan. Tables are three classes: those of the leads, the users, and what later releases added.
PostgreSQL runs an upgrade or a `create_all` as a whole or not at all; `create_all` looks before it
creates, and so does the seeding, which is how workers collide. A worker that fails to start ends
gunicorn and so the container, which starts again. Killed workers and containers are bounded by
`MaxFaults`. The module has a specification of its own, `BootSpec`.

**`Accounts`** extends `Startup`: its workers serve the requests, and a worker that dies takes its
request along (`StartupStep`). `access` and `refresh` are the tokens in force, which the service
does not keep; `req` is the request each worker is serving and the statement it is at. The token
and account check (`Authorise`), the read of the target, the count of the admins and the commit are
separate steps. An update writes only columns that differ from what was read, so a revocation of a
user read as revoked changes nothing (`CommitRevoke`).

**`MC*`** modules give the constants of the runs. **`*Proofs`** modules hold the theorems.

## 3. Runs

| Run | Instance | Shows |
|---|---|---|
| `workflow` | gate 70, threshold 5 with budgets 0, 5, 6; answered confidences -5, 20, 50, 69, 70, 120 and NaN; three retries | see below |
| `review` | two reviewers, one crash, one retry, one confidence | see below |
| `dispatch` | two workers, batches of one, two e-mails due at 0 and 1, one cancellation, two attempts, one lost reply and one database error per e-mail, one crash | see below |
| `llm_scoring` | two jobs, a chain of two models, two failures trip a breaker, two tries per call, models switched on or off | see below |
| `ingest` | four requests, two addresses and another spelling of one, a file of five rows and one of six against a limit of five, one database error per request, one crash | see below |
| `accounts` | two workers, two usernames of which one is a demo admin, two roles, two faults, every database of `ServiceDatabase` | see below |

`workflow` checks `TypeOK`, the guardrails of `SOUL.md` (`AutonomyIsGated`,
`NoContactNoProcessing`, `EscalationIsJustified`, `PriorityOnlyTightens`, `OverridesAreAudited`),
the bound on the loop (`StepsAreBounded`), the final transaction (`RowsTellTheRun`,
`UnassignedOnlyWithoutContact`) and termination (`WorkflowEnds`). The budgets lie below, at and
above the threshold and the confidences around the fallback's 50 and the gate, so every comparison
of the rules is met on both sides; -5, 120 and NaN meet the clamping of `_to_result`, which makes 100
of NaN: `AutonomyIsGated` states that exception, since such an answer acts. Three retries are the
shipped ceiling.

`review` checks that what the rows say stays explained (`FinishedIsExplained`,
`StatusOnlyAdvances`), that sales hears of a lead once (`SalesNotifiedAtMostOnce`) and that a
question left to a human is answered (`ReviewResolves`). Two reviewers are enough for a race among
them; the workflow's own input space is reduced because `workflow` covers it.

`dispatch` checks one owner per e-mail (`SingleOwner`), the attempt counter
(`AttemptsAreCounted`), what explains a duplicate, a `SENT` and an abandoned row
(`CopiesAreExplained`, `OrphansAreFaults`), progress
(`DueIsSettledOrOrphaned`) and the refinement (`OutboxSpec`). Two workers make every race between a
stale batch and a claim, two attempts make a retry and a give-up; the faults are bounded per e-mail
so that each can meet any other. The batch limit of 50 is one here, less than the e-mails there are,
so that the limit cuts: the earlier e-mail fills the batch of every worker, again after a failure,
until it is settled or orphaned, and the later one has to get its turn all the same. Were rows left
`SENDING` selected as well, it would not (mutant `DueOrSending`). Batches of several rows, in which a
row waits while the one before it is sent, are the proofs' part: they cover all safety properties of
the run, the refinement included, for every limit (`cancel_race` and `lost_on_restart` have a limit
of two, but stop at their violation). The four workers are two.

`llm_scoring` checks that a model's breaker opens for that model's failures only
(`OpenIsEarned`), that it opens in time (`TripsInTime`, which names the one exception: a concurrent
first use replaced a breaker that had counted failures), that conversations do not leak from model
to model (`ConversationIsOwn`), that each caller sees the chain taken in order (`ScoreSpec`, the
refinement of `ScoreLead`) and that scoring ends (`ScoringEnds`). Two jobs are the smallest race on the cache and on a breaker, two models the
smallest chain with a successor, and limits of two tell the last try or failure from the one before.

`ingest` checks that a client is told the truth (`SummaryIsHonest`), that a stored lead is processed
at most once (`QueuedOnce`) and, unless a fault strands it, eventually
(`StoredIsProcessedOrStranded`), that only faults strand leads (`StrandedIsFault`), and that the
lookup catches a file's own repetitions (`OwnDuplicatesAreSkipped`). The five rows repeat an
address, spell it otherwise, hold a malformed one and end in a new one; the single and the raw
request compete with the file for one address each; the longer file is one row over the limit.

`accounts` checks what a worker that serves relies on (`ReadyIsComplete`), that the container comes
up in the end on every database that has been in use (`UsedDatabaseBoots`), that roles in tokens stay
true and only admins administer (`ClaimsAreTrue`), and the two halves of the last-admin question:
an active admin is always kept but for a revocation whose count was overtaken (`LockoutIsARace`),
and once the race has left none, nothing brings one back (`LockoutIsFinal`). Two workers are the
smallest collision in `create_all`, in the seeding and between two requests; with two usernames two
admins can revoke each other and a created account can compete with a seeded one; two faults let a
worker and the container die in one behaviour, or one of them twice. The empty database is among
those of `Init` and in the scope of every property but `UsedDatabaseBoots`; it is the subject of
`empty_boots` below.

Six runs end in a violation: the code does something else than a comment or a document says.

| Run | Property | The disagreement |
|---|---|---|
| `every_run_recorded` | `EveryRunIsRecorded` | DECISIONS.md promises a record for every execution; a raised exception or a failed final write leaves none |
| `review_race` | `AgentDecisionIsNotOverruled` | a stale check lets a manual priority overwrite the class the agent stored |
| `escalation_stays` | `EscalatedIsResolved` | leads escalated by the confidence gate carry a class, so the endpoint made to resolve them refuses |
| `cancel_race` | `OnlyPendingIsCancelled` | a stale check cancels an e-mail that is being sent or was sent |
| `lost_on_restart` | `NothingIsLostOnRestart` | a crash after the claim leaves the e-mail `SENDING` for ever |
| `empty_boots` | `FreshDatabaseBoots` | a fresh database "just runs every migration from scratch as usual" (`run_migrations.py:16-17`), but revision 0002 alters an enum that only a worker's `create_all` makes, and no worker starts before the upgrade |

`empty_boots` allows no faults, so that the code alone is to blame; `EmptyNeverBoots` proves for any
number of workers and faults that such a database stays empty and no worker gets ready.

A disagreement no run checks, because it shows within one node: SOUL.md guardrail 4 and
`graph.py:252-253` say that the rules never grant a more autonomous action than the model asked for,
but `node_lead_score` derives the action from the priority and the queue when no rule halts
(`NodeLeadScore`), so a model that asks for less, at a confidence over the gate, is overruled.

Deadlock is not checked: a workflow that has ended, or a table whose e-mails are all settled, has
nothing left to do, and an account service with no active admin, no token and no one to log in
really stops.

### Fairness

`LeadWorkflow`: weak fairness of the whole step relation, because the task runs in a thread of its
own and every call it makes has a time-out. `LeadReview`: weak fairness of the workflow and of each
request, none of deletions and crashes. `EmailDispatch`: the clock advances and each worker keeps
ticking (interval trigger, promptly at startup); none of scheduling, cancelling or faults.
`LlmScoring`: each job, whose thread is scheduled and whose requests time out
(`LLM_TIMEOUT_SECONDS`); none of `ResetElapses`. `LeadIngest`: the regular steps of each request
and its tasks; none of deletions, database errors and crashes. `Startup` and `Accounts`: the
entrypoint and each worker's lifespan keep running; none of faults, and none of requests, which
nobody need make.

## 4. Proofs

TLAPS checks every theorem for any constants that satisfy the named assumptions
(`PolicyAssumption`, `WorkflowAssumption`, `ReviewAssumption`, `DispatchAssumption`,
`EmailsAssumption`, `ScoringAssumption`, `NoBreakerAssumption`, `IngestAssumption`,
`NobodyAssumption`, `StartupAssumption`: the ranges `policy.py` and the settings allow, that a
reviewer may ask for HIGH, MEDIUM or LOW, that a chain names no model twice, that a request which is
not an import has one row and `ingest_lead`'s is well formed, that an address as stored is spelt as
stored, that "nobody" is not a request, "no breaker" not a breaker and an e-mail not one of the two
control states of a cancellation, and that the demo accounts have an admin among finitely many
usernames). Every safety property of a passing run is a theorem.

`LeadWorkflowProofs` proves `TypeOK`, `AutonomyIsGated`, `NoContactNoProcessing`,
`EscalationIsJustified`, `StepsAreBounded`, `PriorityOnlyTightens`, `RowsTellTheRun`,
`UnassignedOnlyWithoutContact` and `OverridesAreAudited`. None of them is inductive alone. Three
layers serve them. `RunInv` says what the run keeps in memory:

- `RetriesInLockstep`: at each location, how `retry_count` and `enrichment_retry_count` differ. The
  enrichment counter is ahead by one at the retry node and reaches the ceiling first; this is why
  the general breaker never trips and an outage never escalates.
- `StepsSoFar`: the number of nodes run, as a function of the location and the retry count.
- `ContactAndScore`: which locations presuppose an address and a score.
- `VerdictIsGuarded`: what the guardrail pass made of the score, and the clamping of what the model
  said, so that `AutonomyIsGated` reaches back to its own word; rests on the lemmas
  `EngineVerdict` and `GuardrailVerdict` about the rule engine.
- `ActsBehindGate`, `EscalatedOnce`: who may act, and the escalation's reason.

`WorkflowInv` adds `RowBeforeAudit`: the rows are untouched until the final transaction. `AuditInv`
adds `OverridesCounted`: from the scoring node on, the trail in memory holds one entry per change
of the guardrail; it rests on lemmas about `Occurrences` (of an empty, an appended and a joined
trail), which the proofs about reviewers use again.

The step proof has one lemma per node. `RaiseKeepsInv` serves all escaped exceptions,
`FinalizedKeepsRun` both ways out of the final transaction.

`LeadReviewProofs` proves `ReviewTypeOK`, `FinishedIsExplained`, `StatusOnlyAdvances` and
`SalesNotifiedAtMostOnce` for any number of reviewers and crashes. `RunInv` survives them, because
they touch nothing the run keeps in memory (`RunUnderReview`: the gate and the other guardrails
hold in this environment too); `WorkflowInv` does not, because a human writes the rows as well.
`ReviewInv` describes the rows anew: `StatusIsOpen` (while the run is on its way the stored status
is `RECEIVED`, and so is the one the audit transaction loaded), `RequestsAreSound` (a request that
read `ESCALATED` read it of a lead that is `ESCALATED` or `COMPLETED` now: why a stale read cannot
reopen anything) and `TrailIsStarted` (a run that reaches the final transaction has logged a
transition). Two theorems go beyond the run's properties. `AnsweredTheorem`: the stored trail holds
exactly one `MANUAL_OVERRIDE` for each request that was answered 200. `DecidedTheorem`: once the
run is over, the lead has a class and no request is between its read and its commit, the rows never
change again. The run `review_race` shows that a class can be overruled; this theorem says that
only a request already under way can do it.

`EmailDispatchProofs` proves all of the run's invariants for any number of workers, e-mails and
faults, and `Refinement`: every step of the dispatcher is a step of the outbox or leaves it alone.
`DispatchInv` strengthens them with `OwnedIsClaimed` (an owned row is `SENDING` or was cancelled
under its owner: so nobody else can claim it), `OwnerCountsOn` (the owner's local attempt is one
more than the column), `RepliesAreFresh`, `CopiesAreAccounted` and `RepliesAreDeliveries` (where a
delivered copy shows up before it is recorded), and `CancelledRowsExist`.
`ClosedTheorem` goes beyond the run's properties: an e-mail out of the queue that no worker has in
hand and no cancellation has read is final. For a settled one this bounds what `cancel_race` shows
(only a request that read it `PENDING` can overwrite it, and no further copy is ever sent); for one
orphaned in `SENDING` it is the reason behind `lost_on_restart`: nothing picks it up again.

`LlmScoringProofs` proves all safety properties of its run, for any number of concurrent scorings,
any chain and any breaker policy. `ScoringInv` adds:

- `BreakersAreFound`, `CacheIsKeyed`: a job in a call holds a breaker of the model it is trying, and
  the cache knows one of that model.
- `FreshIsUnused`: a breaker made and not yet stored is held by nobody else and has counted nothing.
  With it, storing over another job's breaker is the only way a count gets out of the cache.
- `CountersAreEarned`: a breaker counts its own model's failures and is closed only below
  `fail_max`.
- `StreaksAreCounted`: as long as no replaced breaker has counted a failure, the failures in a row
  of a model are at most what the cached breaker has counted.
- `ConversationsStartFresh`: what a job's conversation is before and after the chain.

`EarnedStep` and `StreakStep` rest on `RaiseEffect` and `ReturnEffect`, which say once what the end
of a call changes. `ScoreRefinement` is the implementation of `ScoreLead`: finding a breaker and
trying again are hidden, failing over is the next model's turn or the rules'. `ScoringIsBounded`
gives a scoring a measure, `StepsLeft`, of at most `2 * Len(Chain) * (MaxTries + 3) + 1`, of which
every own step uses up at least one and no other step any: `ScoringEnds` without the scheduling.

`LeadIngestProofs` proves `TypeOK`, `SummaryIsHonest`, `QueuedOnce`, `StrandedIsFault` and
`OwnDuplicatesAreSkipped` for any requests, files, spellings and faults. `IngestInv` adds:

- `RowsInHand`, `ToldAreTyped`: which rows a request may insert and count.
- `OneInserter`: an open insert belongs to a request about to commit, and its address to no
  committed row: what the unique index does for two requests that both passed the lookup.
- `CreatorIsKnown`: a lead has a creator once it is committed, and a request that has not begun none.
- `CommittedIsFresh`: between commit and queue the new lead is the request's own, neither queued nor
  counted, and short of a database error it is the only one of the request's not counted yet.

Beyond the run's properties: `CountTheorem` (the `created` count of an answer is the number of leads
stored, short of a database error, through a bijection of rows and leads), `WaitsTheorem` (who
waits on the index waits for a request that waits for nobody) and `RequestIsBounded` (a measure
bounded by five steps per row and two, as for the scorings): the safety half of
`StoredIsProcessedOrStranded`.

`StartupProofs` proves the inductive invariant `BootInv` of the start: `ServiceDatabase` again (the
start leaves the database one it could meet) and `StagesHold`, what each stage of the entrypoint and
of a lifespan knows of it, from "0001 is stamped or there are no users" to the demo accounts of a
ready worker. `AccountsProofs` carries it through the requests and adds `TokensAreTrue` and
`RequestsAreSound` (who asked, that its target exists once read, and that a revocation about to
take an admin away has counted more than one). From these
follow `ReadyIsComplete`, `ClaimsAreTrue`, `LockoutIsARace` and `LockoutIsFinal`, for any number of
workers, accounts and faults, and `EmptyNeverBoots`, the reason behind `empty_boots`.
`OnlyRevocationsRemove` and the set
cardinalities of the library give the race; `LockoutIsFinal` holds because seeding counts revoked
accounts and every administrative request starts from an active admin.

The inductive invariants were model-checked on the instances above before they were proved.

Only model-checked: liveness under fairness (`WorkflowEnds`, `ReviewResolves`,
`DueIsSettledOrOrphaned`, `ScoringEnds`, `StoredIsProcessedOrStranded`,
`UsedDatabaseBoots`), which is outside the prover's reach. For the workflow, the scorings and the
ingest the proofs bound the number of steps (`StepsAreBounded`, `ScoringIsBounded`,
`RequestIsBounded`), so that what TLC adds is that a step is always possible and taken.

## 5. What the models leave out

- Texts: audit messages, reasons, metadata, draft e-mails, notification payloads.
- `CrmAnswers` is `{FALSE}` in the runs: `leads.email` is unique and the query excludes the lead's
  own row, so the branch for a known lead is dead in this deployment. The proofs cover both answers.
- Two rows in `workflow_states` for one lead cannot exist (unique column); a missing one neither.
- The claim and the reading back of `attempts` are one step: only the owner writes that column.
- A commit whose acknowledgement is lost counts as one that failed.
- The SMTP breaker is one of the reasons a send fails, without a state of its own: one breaker per
  worker with its reset time would multiply the states of `dispatch`, the largest run.
- The double-checked locking of `get_compiled_graph`: `workflow` covers both of its results.
- Passwords: `Startup` and `Accounts` speak of usernames and roles, and nothing here says that the
  hash in revision 0001 is that of the password its comment names.
- `last_login_at`, `deleted_at`, the list of users, and what other endpoints do with a
  token; a worker has one account request in flight at a time.
- SQLite, which the container does not use; a database that is not this service's. On PostgreSQL a
  statement that raises aborts its transaction, which `TickRaises` rests on.
- The dashboard, the demo scripts, log formatting and read-only endpoints: they change no state of
  the service.
- LangGraph's recursion limit: `StepsAreBounded` gives the number of nodes to compare with it
  (17 for the shipped ceiling of three).
- The demo knobs `LLM_FORCE_CONFIDENCE`, `LLM_FORCE_MALFORMED`, which are inert outside development.
- Prompts and parsing in `llm_scorer.py`: an answer is one of the four kinds above, a confidence a
  number or NaN, which `json.loads` and `float` let through.
- File parsing, filenames and the inbound e-mail's body in the import endpoints: a row is an address.
- Leads in the database before the first request: a stored address is one another request stored.
- `update_crm` and `EnrichDomainTool`, which no node calls.

## 6. Plan

Modelled and checked: the modules of section 2, in the order workflow, review, dispatch, scoring,
ingest, startup, accounts. Proved: the safety of all of them, and the two refinements. Next:

1. `EmailDispatch`: a measure of a tick, as for the scorings and the ingest: the rows of a batch
   bound its steps, and a tick waits for nobody.
2. `Startup`: the number of restarts a start can need, the safety half of `UsedDatabaseBoots`.
3. `LeadReview`: the workflow under review as an implementation of `LeadWorkflow` for everything but
   the rows, instead of theorem by theorem.
