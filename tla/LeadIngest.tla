------------------------------ MODULE LeadIngest ------------------------------
(***************************************************************************)
(* Taking in leads: the single POST, the bulk imports and the demo's raw   *)
(* POST of app/api/v1/leads.py, and the background tasks they leave behind.*)
(*                                                                         *)
(* A request works through its rows in one session.  A row is looked up,   *)
(* inserted, committed and refreshed, and its workflow is queued in the    *)
(* request's BackgroundTasks, which live in memory and run one after the   *)
(* other once the response is out.  Other requests, deletions, database    *)
(* errors and the death of the process come in between.                    *)
(***************************************************************************)
EXTENDS Integers, Sequences

CONSTANTS Requests,
          Kind,      \* of each request: "single", "bulk" or "raw"
          Rows,      \* the addresses of each request, as typed
          Addresses, \* addresses as the table stores them: lowercase
          Variants,  \* other spellings of them
          Stored,    \* what Lead.validate_email makes of an address
          MaxRows,   \* settings.MAX_IMPORT_ROWS
          MaxDbErrors, MaxCrashes \* bounds on the faults

Malformed == "malformed"  \* an address LeadCreateRequest or Lead.validate_email refuses
Typed == Addresses \union Variants

ASSUME IngestAssumption ==
    /\ Kind \in [Requests -> {"single", "bulk", "raw"}]
    /\ Rows \in [Requests -> Seq(Typed \union {Malformed})]
    /\ \A r \in Requests : Kind[r] # "bulk" => Len(Rows[r]) = 1
    /\ \A r \in Requests : Kind[r] = "single" => Rows[r][1] # Malformed
    /\ Stored \in [Typed -> Addresses]
    /\ \A a \in Addresses : Stored[a] = a
    /\ Malformed \notin Typed
    /\ MaxRows \in Nat /\ MaxDbErrors \in Nat /\ MaxCrashes \in Nat

Nobody == "nobody"
ASSUME NobodyAssumption == Nobody \notin Requests

VARIABLES
    lead,     \* leads: "absent", "active" or "deleted"; the address is UNIQUE
    creator,  \* history: the request that committed the row
    pending,  \* the request whose open transaction has inserted the address
    at,       \* where each request stands
    row,      \* the row of the import it is working on
    outcome,  \* what the summary will say of the rows done so far
    tasks,    \* its BackgroundTasks: addresses whose workflow is to run
    runs,     \* history: workflows started, per address
    dbErrors, crashes \* faults met so far, the former per request

table   == <<lead, creator, pending>>
request == <<at, row, outcome, tasks>>
vars    == <<table, request, runs, dbErrors, crashes>>

Init ==
    /\ lead = [a \in Addresses |-> "absent"]
    /\ creator = [a \in Addresses |-> Nobody]
    /\ pending = [a \in Addresses |-> Nobody]
    /\ at = [r \in Requests |-> "new"]
    /\ row = [r \in Requests |-> 1]
    /\ outcome = [r \in Requests |-> <<>>]
    /\ tasks = [r \in Requests |-> <<>>]
    /\ runs = [a \in Addresses |-> 0]
    /\ dbErrors = [r \in Requests |-> 0]
    /\ crashes = 0

Goto(r, l) == at' = [at EXCEPT ![r] = l]
TypedNow(r) == Rows[r][row[r]]
Address(r) == Stored[TypedNow(r)]

-----------------------------------------------------------------------------
(* The outcome of a row                                                      *)

\* A row of an import is done: the summary notes it and the loop goes on.
Note(r, o) ==
    /\ outcome' = [outcome EXCEPT ![r] = Append(@, o)]
    /\ row' = [row EXCEPT ![r] = @ + 1]
    /\ Goto(r, "row")

\* A response other than 202 carries no background tasks.
Refuse(r, status) ==
    /\ Goto(r, status)
    /\ tasks' = [tasks EXCEPT ![r] = <<>>]
    /\ UNCHANGED <<row, outcome>>

\* The row's code raised, after the transaction was rolled back: an import notes an
\* error, the other requests end in a 500.
RowRaises(r) ==
    \/ Kind[r] = "bulk" /\ Note(r, "error") /\ UNCHANGED tasks
    \/ Kind[r] # "bulk" /\ Refuse(r, "500")

DatabaseError(r) ==
    /\ dbErrors[r] < MaxDbErrors
    /\ dbErrors' = [dbErrors EXCEPT ![r] = @ + 1]
    /\ UNCHANGED <<runs, crashes>>

-----------------------------------------------------------------------------
(* _bulk_ingest, ingest_lead, ingest_lead_raw, _create_and_queue_lead        *)

TooManyRows(r) ==
    /\ at[r] = "new"
    /\ Kind[r] = "bulk" /\ Len(Rows[r]) > MaxRows
    /\ Refuse(r, "413")
    /\ UNCHANGED <<table, runs, dbErrors, crashes>>

Begin(r) ==
    /\ at[r] = "new"
    /\ ~(Kind[r] = "bulk" /\ Len(Rows[r]) > MaxRows)
    /\ Goto(r, "row")
    /\ UNCHANGED <<table, row, outcome, tasks, runs, dbErrors, crashes>>

HasRow(r) == at[r] = "row" /\ row[r] \in DOMAIN Rows[r]

\* Mutant: a refused row is left out of the summary.
InvalidUnnoted(r) ==
    /\ HasRow(r)
    /\ TypedNow(r) = Malformed
    /\ row' = [row EXCEPT ![r] = @ + 1]
    /\ UNCHANGED <<table, at, outcome, tasks, runs, dbErrors, crashes>>

\* The address is refused before the database sees it: by LeadCreateRequest in an
\* import, by the model's validator in the raw endpoint.
Invalid(r) ==
    /\ HasRow(r)
    /\ TypedNow(r) = Malformed
    /\ RowRaises(r)
    /\ UNCHANGED <<table, runs, dbErrors, crashes>>

\* Mutant: the query sees the rows of other requests only.
DuplicateOfOthers(r) ==
    TypedNow(r) \in Addresses /\ lead[TypedNow(r)] = "active" /\ creator[TypedNow(r)] # r

\* The query compares with the address as typed and sees committed rows that are not
\* deleted.
Duplicate(r) == TypedNow(r) \in Addresses /\ lead[TypedNow(r)] = "active"

\* Mutant: the workflow of the duplicate is queued again.
CheckConflictsRequeue(r) ==
    /\ HasRow(r)
    /\ Kind[r] = "bulk"
    /\ TypedNow(r) # Malformed /\ Duplicate(r)
    /\ Note(r, "skipped")
    /\ tasks' = [tasks EXCEPT ![r] = Append(@, Address(r))]
    /\ UNCHANGED <<table, runs, dbErrors, crashes>>

CheckConflicts(r) ==
    /\ HasRow(r)
    /\ Kind[r] # "raw"
    /\ TypedNow(r) # Malformed /\ Duplicate(r)
    /\ \/ Kind[r] = "bulk" /\ Note(r, "skipped") /\ UNCHANGED tasks
       \/ Kind[r] = "single" /\ Refuse(r, "409")
    /\ UNCHANGED <<table, runs, dbErrors, crashes>>

\* No conflict, or no check at all in the raw endpoint.
CheckPasses(r) ==
    /\ HasRow(r)
    /\ TypedNow(r) # Malformed
    /\ Kind[r] = "raw" \/ ~Duplicate(r)
    /\ Goto(r, "insert")
    /\ UNCHANGED <<table, row, outcome, tasks, runs, dbErrors, crashes>>

\* Mutant: the summary counts the row before it is committed.
InsertAndNote(r) ==
    /\ at[r] = "insert"
    /\ pending[Address(r)] = Nobody
    /\ Note(r, "created")
    /\ UNCHANGED <<table, tasks, runs, dbErrors, crashes>>

\* The flush inserts the row.  The unique index makes it wait for another transaction
\* that has inserted the address.
Insert(r) ==
    /\ at[r] = "insert"
    /\ pending[Address(r)] = Nobody
    /\ lead[Address(r)] = "absent"
    /\ pending' = [pending EXCEPT ![Address(r)] = r]
    /\ Goto(r, "commit")
    /\ UNCHANGED <<lead, creator, row, outcome, tasks, runs, dbErrors, crashes>>

\* Mutant: a collision ends the whole import, not only its row.
InsertCollidesFatally(r) ==
    /\ at[r] = "insert"
    /\ pending[Address(r)] = Nobody
    /\ lead[Address(r)] # "absent"
    /\ Refuse(r, "500")
    /\ UNCHANGED <<table, runs, dbErrors, crashes>>

\* The unique index has the address already: IntegrityError.
InsertCollides(r) ==
    /\ at[r] = "insert"
    /\ pending[Address(r)] = Nobody
    /\ lead[Address(r)] # "absent"
    /\ RowRaises(r)
    /\ UNCHANGED <<table, runs, dbErrors, crashes>>

Commit(r) ==
    /\ at[r] = "commit"
    /\ lead' = [lead EXCEPT ![Address(r)] = "active"]
    /\ creator' = [creator EXCEPT ![Address(r)] = r]
    /\ pending' = [pending EXCEPT ![Address(r)] = Nobody]
    /\ Goto(r, "queue")
    /\ UNCHANGED <<row, outcome, tasks, runs, dbErrors, crashes>>

\* The row is read back (refresh) and its workflow queued.
Queue(r) ==
    /\ at[r] = "queue"
    /\ tasks' = [tasks EXCEPT ![r] = Append(@, Address(r))]
    /\ Note(r, "created")
    /\ UNCHANGED <<table, runs, dbErrors, crashes>>

\* Mutant: a failed row is not rolled back.
StoreFailsOpen(r) ==
    /\ at[r] \in {"insert", "commit"}
    /\ DatabaseError(r)
    /\ RowRaises(r)
    /\ UNCHANGED table

\* The duplicate query, the insert or the commit raised: nothing is stored.
StoreFails(r) ==
    /\ \/ HasRow(r) /\ Kind[r] # "raw" /\ TypedNow(r) # Malformed
       \/ at[r] \in {"insert", "commit"}
    /\ DatabaseError(r)
    /\ pending' = [a \in Addresses |-> IF pending[a] = r THEN Nobody ELSE pending[a]]
    /\ RowRaises(r)
    /\ UNCHANGED <<lead, creator>>

\* The refresh after the commit raised: the row is stored, its workflow not queued.
RefreshFails(r) ==
    /\ at[r] = "queue"
    /\ DatabaseError(r)
    /\ RowRaises(r)
    /\ UNCHANGED table

\* All rows are done: the response goes out.
Respond(r) ==
    /\ at[r] = "row"
    /\ row[r] \notin DOMAIN Rows[r]
    /\ Goto(r, "accepted")
    /\ UNCHANGED <<table, row, outcome, tasks, runs, dbErrors, crashes>>

\* BackgroundTasks runs the workflows in turn; process_lead lets no exception out.
RunTask(r) ==
    /\ at[r] = "accepted"
    /\ tasks[r] # <<>>
    /\ runs' = [runs EXCEPT ![Head(tasks[r])] = @ + 1]
    /\ tasks' = [tasks EXCEPT ![r] = Tail(@)]
    /\ UNCHANGED <<table, at, row, outcome, dbErrors, crashes>>

-----------------------------------------------------------------------------
(* The environment                                                           *)

\* delete_lead: the row stays, marked deleted.
DeleteLead(a) ==
    /\ lead[a] = "active"
    /\ lead' = [lead EXCEPT ![a] = "deleted"]
    /\ UNCHANGED <<creator, pending, request, runs, dbErrors, crashes>>

\* The process dies: the open transaction is rolled back, the tasks are gone.
Crash(r) ==
    /\ crashes < MaxCrashes
    /\ crashes' = crashes + 1
    /\ \/ at[r] \in {"row", "insert", "commit", "queue"}
       \/ at[r] = "accepted" /\ tasks[r] # <<>>
    /\ Refuse(r, "dead")
    /\ pending' = [a \in Addresses |-> IF pending[a] = r THEN Nobody ELSE pending[a]]
    /\ UNCHANGED <<lead, creator, runs, dbErrors>>

Step(r) ==
    \/ TooManyRows(r) \/ Begin(r) \/ Invalid(r) \/ CheckConflicts(r) \/ CheckPasses(r)
    \/ Insert(r) \/ InsertCollides(r) \/ Commit(r) \/ Queue(r)
    \/ Respond(r) \/ RunTask(r)
Fault(r) == StoreFails(r) \/ RefreshFails(r) \/ Crash(r)

Next ==
    \/ \E r \in Requests : Step(r) \/ Fault(r)
    \/ \E a \in Addresses : DeleteLead(a)

\* Requests and tasks run in threads that are scheduled; nobody need delete anything
\* and no fault need happen.
Spec == Init /\ [][Next]_vars /\ \A r \in Requests : WF_vars(Step(r))

-----------------------------------------------------------------------------
(* Properties                                                                *)

Elements(s) == {s[i] : i \in DOMAIN s}
Refused == {"409", "413", "500"}

\* The variables have their types, and the summary has one outcome per row done.
TypeOK ==
    /\ lead \in [Addresses -> {"absent", "active", "deleted"}]
    /\ creator \in [Addresses -> Requests \union {Nobody}]
    /\ pending \in [Addresses -> Requests \union {Nobody}]
    /\ at \in [Requests -> {"new", "row", "insert", "commit", "queue", "accepted", "dead"}
                              \union Refused]
    /\ row \in [Requests -> Nat \ {0}]
    /\ outcome \in [Requests -> Seq({"created", "skipped", "error"})]
    /\ \A r \in Requests : Len(outcome[r]) = row[r] - 1 /\ row[r] <= Len(Rows[r]) + 1
    /\ tasks \in [Requests -> Seq(Addresses)]
    /\ runs \in [Addresses -> Nat]
    /\ dbErrors \in [Requests -> 0..MaxDbErrors]
    /\ crashes \in 0..MaxCrashes

StoredBy(r) == {a \in Addresses : creator[a] = r}
Told(r) == {i \in DOMAIN outcome[r] : outcome[r][i] = "created"}

\* What a client is told is what happened: each row counted as created is a lead of its
\* own, and unless the database failed there is no other; a refused request has stored
\* nothing (_bulk_ingest's summary; 409 and 500 of the single requests).
SummaryIsHonest ==
    \A r \in Requests :
        /\ \A i \in Told(r) : creator[Stored[Rows[r][i]]] = r
        /\ \A i, k \in Told(r) : Stored[Rows[r][i]] = Stored[Rows[r][k]] => i = k
        /\ at[r] \in {"row", "insert", "commit", "accepted"} /\ dbErrors[r] = 0 =>
              \A a \in StoredBy(r) : \E i \in Told(r) : Stored[Rows[r][i]] = a
        /\ at[r] \in Refused /\ dbErrors[r] = 0 => StoredBy(r) = {}

\* The workflow of a lead is queued by the request that stored it, and started once:
\* duplicates within and among requests never process a lead again.
QueuedOnce ==
    /\ \A a \in Addresses : runs[a] <= 1 /\ (runs[a] = 1 => lead[a] # "absent")
    /\ \A r \in Requests :
         /\ \A a \in Elements(tasks[r]) : creator[a] = r /\ runs[a] = 0
         /\ \A i, k \in DOMAIN tasks[r] : tasks[r][i] = tasks[r][k] => i = k

Stranded(a) ==
    LET r == creator[a]
    IN  /\ r # Nobody
        /\ runs[a] = 0
        /\ a \notin Elements(tasks[r])
        /\ ~(at[r] = "queue" /\ Address(r) = a)

\* A stored lead is never processed only where its process died or the database failed
\* its request: no row of an import costs the other rows their workflows.
StrandedIsFault ==
    \A a \in Addresses :
        Stranded(a) => at[creator[a]] = "dead" \/ dbErrors[creator[a]] > 0

\* A repeated address costs an IntegrityError only when another request stored it in
\* between, the spelling differs, the lead is deleted, or the endpoint does not check:
\* a file's own repetitions are skipped (_create_and_queue_lead's query).
OwnDuplicatesAreSkipped ==
    \A r \in Requests :
        at[r] = "insert" /\ Kind[r] # "raw" /\ TypedNow(r) \in Addresses
            /\ lead[Address(r)] = "active"
        => creator[Address(r)] # r

\* A stored lead is processed, unless a fault strands it: no request waits for ever for
\* another's transaction, and every background task gets its turn.
StoredIsProcessedOrStranded ==
    \A a \in Addresses : lead[a] = "active" ~> runs[a] = 1 \/ Stranded(a)
=============================================================================
