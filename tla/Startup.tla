------------------------------- MODULE Startup -------------------------------
(***************************************************************************)
(* How the container comes up: docker-entrypoint.sh applies the migrations *)
(* (scripts/run_migrations.py, alembic/) and starts gunicorn, whose worker *)
(* processes each run the lifespan of app/main.py before they serve:       *)
(* create the tables that are missing, seed the demo accounts if there are *)
(* no accounts, start the scheduler.                                       *)
(*                                                                         *)
(* PostgreSQL's DDL is transactional: an upgrade takes effect as a whole or*)
(* not at all, and so does each worker's create_all.  A worker that fails  *)
(* to start makes gunicorn give up, and Docker starts the container again. *)
(***************************************************************************)
EXTENDS Naturals, FiniteSets

CONSTANTS Workers,     \* gunicorn -w 4
          Usernames,   \* the usernames in play
          Demo,        \* those of DEMO_ACCOUNTS
          DemoRole,    \* and their roles
          Roles,       \* "Admin" and the others
          MaxFaults    \* bound on processes killed and databases lost

None == "none"

ASSUME StartupAssumption ==
    /\ IsFiniteSet(Usernames)
    /\ Demo \subseteq Usernames
    /\ DemoRole \in [Demo -> Roles]
    /\ \E u \in Demo : DemoRole[u] = "Admin"
    /\ None \notin Roles
    /\ MaxFaults \in Nat

VARIABLES
    tables,   \* the tables there are: "leads", "users", and "newer" ones of later releases
    enum,     \* audit_action_type_enum: "absent", "old", or "new" with MANUAL_OVERRIDE
    version,  \* the row of alembic_version; None: no such table
    role,     \* users.role per username; None: no such row
    active,   \* the usernames with is_deleted = FALSE
    boot,     \* the entrypoint: "migrate", "upgrade", "serve"
    at,       \* each worker's lifespan: "off", "tables", "create", "count", "insert", "ready"
    missing,  \* the tables create_all found missing
    faults

schema   == <<tables, enum, version>>
accounts == <<role, active>>
procs    == <<boot, at, missing>>
bootVars == <<schema, accounts, procs, faults>>

Tables   == {"leads", "users", "newer"}
Accounts == {u \in Usernames : role[u] # None}
Seeded   == [u \in Usernames |-> IF u \in Demo THEN DemoRole[u] ELSE role[u]]

-----------------------------------------------------------------------------
(* The databases a container can meet                                        *)

\* A database of this service: empty, of a release before the users table, of one
\* before Alembic, or tracked.  Accounts begin with the demo ones, and no table is
\* older than the leads, whose audit trail has the enum.
ServiceDatabase ==
    /\ tables # {} => "leads" \in tables
    /\ enum = "absent" <=> tables = {}
    /\ version # None => "users" \in tables
    /\ version = "0002" => enum = "new"
    /\ "users" \notin tables => Accounts = {}
    /\ Accounts # {} => \A u \in Demo : role[u] = DemoRole[u]

Init ==
    /\ tables \in SUBSET Tables
    /\ enum \in {"absent", "old", "new"}
    /\ version \in {None, "0001", "0002"}
    /\ role \in [Usernames -> Roles \union {None}]
    /\ active = Accounts
    /\ ServiceDatabase
    /\ boot = "migrate"
    /\ at = [w \in Workers |-> "off"]
    /\ missing = [w \in Workers |-> {}]
    /\ faults = 0

-----------------------------------------------------------------------------
(* The container: every way out starts it anew (restart: unless-stopped)     *)

ContainerRestarts ==
    /\ boot' = "migrate"
    /\ at' = [w \in Workers |-> "off"]
    /\ missing' = [w \in Workers |-> {}]

\* A database without alembic_version that has the users already.
PredatesAlembic == version = None /\ "users" \in tables

\* Mutant: stamped with the newest revision instead of the first.
StampHead ==
    /\ boot = "migrate"
    /\ version' = IF PredatesAlembic THEN "0002" ELSE version
    /\ boot' = "upgrade"
    /\ UNCHANGED <<tables, enum, accounts, at, missing, faults>>

\* run_migrations.main inspects the database and stamps it, in a transaction of its own.
Stamp ==
    /\ boot = "migrate"
    /\ version' = IF PredatesAlembic THEN "0001" ELSE version
    /\ boot' = "upgrade"
    /\ UNCHANGED <<tables, enum, accounts, at, missing, faults>>

\* Revision 0001 creates the users table, 0002 alters an enum that has to exist.
Upgradable ==
    /\ version = None => "users" \notin tables
    /\ version # "0002" => enum # "absent"

\* upgrade head: the pending revisions in one transaction; then gunicorn forks.
Upgrade ==
    /\ boot = "upgrade" /\ Upgradable
    /\ tables' = tables \union {"users"}
    /\ enum' = IF version = "0002" THEN enum ELSE "new"
    /\ version' = "0002"
    /\ IF version = None
       THEN role' = Seeded /\ active' = active \union Demo
       ELSE UNCHANGED accounts
    /\ boot' = "serve"
    /\ at' = [w \in Workers |-> "tables"]
    /\ UNCHANGED <<missing, faults>>

\* The statement fails, everything is rolled back and the script ends (set -e).
UpgradeFails ==
    /\ boot = "upgrade" /\ ~Upgradable
    /\ ContainerRestarts
    /\ UNCHANGED <<schema, accounts, faults>>

-----------------------------------------------------------------------------
(* A worker's lifespan                                                       *)

Goes(w, here, there) ==
    /\ boot = "serve"
    /\ at[w] = here
    /\ at' = [at EXCEPT ![w] = there]
    /\ UNCHANGED <<boot, faults>>

\* create_all looks up every table first,
InspectTables(w) ==
    /\ Goes(w, "tables", "create")
    /\ missing' = [missing EXCEPT ![w] = Tables \ tables]
    /\ UNCHANGED <<schema, accounts>>

\* and creates what was missing, with the enum if it has to, in one transaction.
CreateTables(w) ==
    /\ Goes(w, "create", "count")
    /\ missing[w] \intersect tables = {}
    /\ tables' = tables \union missing[w]
    /\ enum' = IF enum = "absent" /\ "leads" \in missing[w] THEN "new" ELSE enum
    /\ missing' = [missing EXCEPT ![w] = {}]
    /\ UNCHANGED <<version, accounts>>

\* Another worker has created one of them: CREATE TABLE raises.
CreateCollides(w) ==
    /\ boot = "serve"
    /\ at[w] = "create"
    /\ missing[w] \intersect tables # {}
    /\ ContainerRestarts
    /\ UNCHANGED <<schema, accounts, faults>>

\* Mutant: revoked accounts are not counted.
CountActiveUsers(w) ==
    /\ Goes(w, "count", IF active = {} THEN "insert" ELSE "ready")
    /\ UNCHANGED <<schema, accounts, missing>>

\* seed_demo_users counts the accounts, the revoked ones included.
CountUsers(w) ==
    /\ Goes(w, "count", IF Accounts = {} THEN "insert" ELSE "ready")
    /\ UNCHANGED <<schema, accounts, missing>>

SeedUsers(w) ==
    /\ Goes(w, "insert", "ready")
    /\ Accounts \intersect Demo = {}
    /\ role' = Seeded
    /\ active' = active \union Demo
    /\ UNCHANGED <<schema, missing>>

\* Another worker has seeded them: the username is unique.
SeedCollides(w) ==
    /\ boot = "serve"
    /\ at[w] = "insert"
    /\ Accounts \intersect Demo # {}
    /\ ContainerRestarts
    /\ UNCHANGED <<schema, accounts, faults>>

-----------------------------------------------------------------------------
(* Faults                                                                    *)

\* The container is stopped, or a step of its start loses the database.
ContainerDies ==
    /\ faults < MaxFaults
    /\ faults' = faults + 1
    /\ ContainerRestarts
    /\ UNCHANGED <<schema, accounts>>

\* gunicorn replaces a worker that was killed.
WorkerDies(w) ==
    /\ faults < MaxFaults
    /\ faults' = faults + 1
    /\ at[w] # "off"
    /\ at' = [at EXCEPT ![w] = "tables"]
    /\ missing' = [missing EXCEPT ![w] = {}]
    /\ UNCHANGED <<schema, accounts, boot>>

-----------------------------------------------------------------------------
Migrate == Stamp \/ Upgrade \/ UpgradeFails
Lifespan(w) ==
    \/ InspectTables(w) \/ CreateTables(w) \/ CreateCollides(w)
    \/ CountUsers(w) \/ SeedUsers(w) \/ SeedCollides(w)

BootNext ==
    \/ Migrate
    \/ \E w \in Workers : Lifespan(w) \/ WorkerDies(w)
    \/ ContainerDies

\* The script and each worker keep running; nobody need stop them.
BootFairness == WF_bootVars(Migrate) /\ \A w \in Workers : WF_bootVars(Lifespan(w))

BootSpec == Init /\ [][BootNext]_bootVars /\ BootFairness

-----------------------------------------------------------------------------
(* Properties                                                                *)

BootTypeOK ==
    /\ tables \subseteq Tables
    /\ enum \in {"absent", "old", "new"}
    /\ version \in {None, "0001", "0002"}
    /\ role \in [Usernames -> Roles \union {None}]
    /\ active \subseteq Accounts
    /\ boot \in {"migrate", "upgrade", "serve"}
    /\ at \in [Workers -> {"off", "tables", "create", "count", "insert", "ready"}]
    /\ missing \in [Workers -> SUBSET Tables]
    /\ faults \in 0..MaxFaults

Ready(w) == at[w] = "ready"

\* A worker that takes requests finds what its code relies on, whatever database the
\* container met and however the workers collided: every table, the enum value that
\* set_lead_priority writes, the migrations on record and the demo accounts
\* (docker-entrypoint.sh: "before serving traffic").
ReadyIsComplete ==
    \A w \in Workers : Ready(w) =>
        /\ tables = Tables
        /\ enum = "new"
        /\ version = "0002"
        /\ \A u \in Demo : role[u] = DemoRole[u]

\* Collisions and faults only delay the start: on a database that has been in use all
\* workers come up, again and again (restart: unless-stopped).
UsedDatabaseBoots == tables # {} ~> \A w \in Workers : Ready(w)

\* run_migrations.py: a genuinely fresh database just runs every migration from scratch,
\* so the container comes up on it.
FreshDatabaseBoots == tables = {} ~> \A w \in Workers : Ready(w)
=============================================================================
