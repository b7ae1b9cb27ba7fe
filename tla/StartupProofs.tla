---------------------------- MODULE StartupProofs ----------------------------
(***************************************************************************)
(* Proofs about Startup, for any number of workers, accounts and faults.   *)
(* BootInv is the inductive invariant: that the database always looks like *)
(* one of this service's, and what each stage of the start has achieved.   *)
(* It bounds what the steps of Accounts may do as well.                    *)
(***************************************************************************)
EXTENDS Startup, TLAPS

-----------------------------------------------------------------------------
(* The inductive invariant                                                   *)

\* What each stage of the entrypoint and of a lifespan has made sure of.
StagesHold ==
    /\ boot # "serve" => \A w \in Workers : at[w] = "off"
    /\ boot = "upgrade" /\ version = None => "users" \notin tables
    /\ boot = "serve" => version = "0002"
    /\ \A w \in Workers :
          /\ at[w] = "create" => Tables \ tables \subseteq missing[w]
          /\ at[w] \in {"count", "insert", "ready"} => tables = Tables
          /\ at[w] = "ready" => Accounts # {}

BootInv == BootTypeOK /\ ServiceDatabase /\ StagesHold

\* Nobody has an account before the demo accounts have.
LEMMA DemoFirst ==
    ASSUME BootTypeOK, ServiceDatabase, Accounts # {} \/ Accounts \intersect Demo # {}
    PROVE  Demo # {} /\ Demo \subseteq Accounts
<1>1. Demo # {} /\ Demo \subseteq Usernames /\ \A u \in Demo : DemoRole[u] \in Roles
    BY StartupAssumption
<1>2. Accounts # {}
    OBVIOUS
<1>3. \A u \in Demo : role[u] # None
    BY <1>1, <1>2, StartupAssumption DEF ServiceDatabase
<1> QED
    BY <1>1, <1>3 DEF Accounts

\* Seeding a database without accounts makes exactly the demo accounts.
LEMMA SeededAccounts ==
    ASSUME BootTypeOK, Accounts = {}, role' = Seeded, active' = active \union Demo
    PROVE  /\ role' \in [Usernames -> Roles \union {None}]
           /\ Accounts' = Demo
           /\ active' = Demo
           /\ \A u \in Demo : role'[u] = DemoRole[u]
<1>1. Demo \subseteq Usernames /\ DemoRole \in [Demo -> Roles] /\ None \notin Roles
    BY StartupAssumption
<1>2. role \in [Usernames -> Roles \union {None}] /\ active = {}
    BY DEF BootTypeOK
<1>3. role' \in [Usernames -> Roles \union {None}]
    BY <1>1, <1>2 DEF Seeded
<1>4. \A u \in Demo : role'[u] = DemoRole[u]
    BY <1>1 DEF Seeded
<1>5. \A u \in Usernames : role'[u] # None <=> u \in Demo
    BY <1>1 DEF Seeded, Accounts
<1> QED
    BY <1>1, <1>2, <1>3, <1>4, <1>5 DEF Accounts

\* Every exit of the container leaves the database as it is.
LEMMA RestartKeepsInv ==
    ASSUME BootInv, ContainerRestarts, UNCHANGED <<schema, accounts>>, faults' \in 0..MaxFaults
    PROVE  BootInv'
<1> USE DEF ContainerRestarts, schema, accounts
<1>1. BootTypeOK'
    BY DEF BootInv, BootTypeOK, Accounts
<1>2. ServiceDatabase'
    BY DEF BootInv, ServiceDatabase, Accounts
<1>3. StagesHold'
    BY DEF StagesHold
<1> QED
    BY <1>1, <1>2, <1>3 DEF BootInv

-----------------------------------------------------------------------------
(* The initial state and the steps                                           *)

LEMMA BootInit == Init => BootInv
<1> SUFFICES ASSUME Init PROVE BootInv
    OBVIOUS
<1>1. BootTypeOK
    BY StartupAssumption DEF Init, BootTypeOK, Accounts
<1>2. ServiceDatabase
    BY DEF Init
<1>3. StagesHold
    BY DEF Init, StagesHold
<1> QED
    BY <1>1, <1>2, <1>3 DEF BootInv

LEMMA StampKeepsInv ==
    ASSUME BootInv, Stamp
    PROVE  BootInv'
<1> USE DEF Stamp, PredatesAlembic, accounts
<1>1. BootTypeOK'
    BY DEF BootInv, BootTypeOK, Accounts
<1>2. ServiceDatabase'
    BY DEF BootInv, ServiceDatabase, Accounts, None
<1>3. StagesHold'
    BY DEF BootInv, StagesHold, None
<1> QED
    BY <1>1, <1>2, <1>3 DEF BootInv

LEMMA UpgradeKeepsInv ==
    ASSUME BootInv, Upgrade
    PROVE  BootInv'
<1> USE DEF BootInv
<1>1. "leads" \in tables /\ enum' = "new" /\ version' = "0002"
    BY DEF Upgrade, Upgradable, ServiceDatabase, BootTypeOK
<1>2. /\ role' \in [Usernames -> Roles \union {None}]
      /\ active' \subseteq Accounts'
      /\ Accounts' # {} => \A u \in Demo : role'[u] = DemoRole[u]
    <2>1. CASE version = None
        <3>1. Accounts = {} /\ role' = Seeded /\ active' = active \union Demo
            BY <2>1 DEF Upgrade, Upgradable, ServiceDatabase
        <3> QED
            BY <3>1, SeededAccounts
    <2>2. CASE version # None
        BY <2>2 DEF Upgrade, accounts, Accounts, BootTypeOK, ServiceDatabase
    <2> QED
        BY <2>1, <2>2
<1>3. BootTypeOK'
    BY <1>1, <1>2 DEF Upgrade, BootTypeOK, Tables
<1>4. ServiceDatabase'
    BY <1>1, <1>2 DEF Upgrade, ServiceDatabase, None
<1>5. StagesHold'
    BY <1>1 DEF Upgrade, StagesHold
<1> QED
    BY <1>3, <1>4, <1>5

LEMMA InspectKeepsInv ==
    ASSUME BootInv, NEW w \in Workers, InspectTables(w)
    PROVE  BootInv'
<1> USE DEF InspectTables, Goes, schema, accounts
<1>1. BootTypeOK'
    BY DEF BootInv, BootTypeOK, Accounts
<1>2. ServiceDatabase'
    BY DEF BootInv, ServiceDatabase, Accounts
<1>3. StagesHold'
    BY DEF BootInv, BootTypeOK, StagesHold, Accounts
<1> QED
    BY <1>1, <1>2, <1>3 DEF BootInv

LEMMA CreateKeepsInv ==
    ASSUME BootInv, NEW w \in Workers, CreateTables(w)
    PROVE  BootInv'
<1> USE DEF BootInv
<1>1. tables' = Tables
    BY DEF CreateTables, Goes, StagesHold, BootTypeOK
<1>2. version = "0002" /\ enum = "new" /\ enum' = "new"
    BY DEF CreateTables, Goes, StagesHold, ServiceDatabase
<1>3. BootTypeOK'
    BY <1>1, <1>2 DEF CreateTables, Goes, accounts, BootTypeOK, Accounts
<1>4. ServiceDatabase'
    BY <1>1, <1>2 DEF CreateTables, accounts, ServiceDatabase, Tables, Accounts
<1>5. StagesHold'
    BY <1>1 DEF CreateTables, Goes, accounts, StagesHold, BootTypeOK, Accounts
<1> QED
    BY <1>3, <1>4, <1>5

LEMMA CountKeepsInv ==
    ASSUME BootInv, NEW w \in Workers, CountUsers(w)
    PROVE  BootInv'
<1> USE DEF CountUsers, Goes, schema, accounts
<1>1. BootTypeOK'
    BY DEF BootInv, BootTypeOK, Accounts
<1>2. ServiceDatabase'
    BY DEF BootInv, ServiceDatabase, Accounts
<1>3. StagesHold'
    BY DEF BootInv, BootTypeOK, StagesHold, Accounts
<1> QED
    BY <1>1, <1>2, <1>3 DEF BootInv

LEMMA SeedKeepsInv ==
    ASSUME BootInv, NEW w \in Workers, SeedUsers(w)
    PROVE  BootInv'
<1> USE DEF BootInv
<1>1. Accounts = {}
    BY DemoFirst DEF SeedUsers
<1>2. /\ role' \in [Usernames -> Roles \union {None}]
      /\ Accounts' = Demo /\ active' = Demo
      /\ \A u \in Demo : role'[u] = DemoRole[u]
    BY <1>1, SeededAccounts DEF SeedUsers
<1>3. Demo # {}
    BY StartupAssumption
<1>4. BootTypeOK'
    BY <1>2 DEF SeedUsers, Goes, schema, BootTypeOK
<1>5. ServiceDatabase'
    BY <1>2 DEF SeedUsers, Goes, schema, ServiceDatabase, StagesHold, Tables
<1>6. StagesHold'
    BY <1>2, <1>3 DEF SeedUsers, Goes, schema, StagesHold, BootTypeOK
<1> QED
    BY <1>4, <1>5, <1>6

LEMMA WorkerDiesKeepsInv ==
    ASSUME BootInv, NEW w \in Workers, WorkerDies(w)
    PROVE  BootInv'
<1> USE DEF WorkerDies, schema, accounts
<1>1. BootTypeOK'
    BY StartupAssumption DEF BootInv, BootTypeOK, Accounts
<1>2. ServiceDatabase'
    BY DEF BootInv, ServiceDatabase, Accounts
<1>3. StagesHold'
    BY DEF BootInv, BootTypeOK, StagesHold, Accounts
<1> QED
    BY <1>1, <1>2, <1>3 DEF BootInv

LEMMA BootStepKeepsInv ==
    ASSUME BootInv, BootNext
    PROVE  BootInv'
<1>1. CASE Migrate
    <2>1. CASE UpgradeFails
        BY <2>1, RestartKeepsInv DEF UpgradeFails, BootInv, BootTypeOK
    <2> QED
        BY <1>1, <2>1, StampKeepsInv, UpgradeKeepsInv DEF Migrate
<1>2. ASSUME NEW w \in Workers, Lifespan(w) \/ WorkerDies(w)
      PROVE  BootInv'
    <2>1. CASE CreateCollides(w) \/ SeedCollides(w)
        BY <2>1, RestartKeepsInv DEF CreateCollides, SeedCollides, BootInv, BootTypeOK
    <2> QED
        BY <1>2, <2>1, InspectKeepsInv, CreateKeepsInv, CountKeepsInv, SeedKeepsInv,
           WorkerDiesKeepsInv DEF Lifespan
<1>3. CASE ContainerDies
    <2>1. faults' \in 0..MaxFaults
        BY <1>3, StartupAssumption DEF ContainerDies, BootInv, BootTypeOK
    <2> QED
        BY <1>3, <2>1, RestartKeepsInv DEF ContainerDies
<1> QED
    BY <1>1, <1>2, <1>3 DEF BootNext

LEMMA BootStutterKeepsInv ==
    ASSUME BootInv, UNCHANGED bootVars
    PROVE  BootInv'
<1> USE DEF bootVars, schema, accounts, procs
<1> QED
    BY DEF BootInv, BootTypeOK, ServiceDatabase, StagesHold, Accounts

-----------------------------------------------------------------------------
(* What follows                                                              *)

\* The inductive invariant of the start, when nobody uses the service.
THEOREM BootInvariant == BootSpec => []BootInv
<1>1. BootInv /\ [BootNext]_bootVars => BootInv'
    BY BootStepKeepsInv, BootStutterKeepsInv
<1> QED
    BY <1>1, BootInit, PTL DEF BootSpec

\* A worker that takes requests finds every table, the enum value, the migrations on
\* record and the demo accounts (main.py, lifespan).
LEMMA InvMakesComplete == BootInv => ReadyIsComplete
<1> SUFFICES ASSUME BootInv, NEW w \in Workers, Ready(w)
             PROVE  /\ tables = Tables
                    /\ enum = "new"
                    /\ version = "0002"
                    /\ \A u \in Demo : role[u] = DemoRole[u]
    BY DEF ReadyIsComplete
<1>1. boot = "serve"
    BY DEF BootInv, BootTypeOK, StagesHold, Ready
<1> QED
    BY <1>1 DEF BootInv, ServiceDatabase, StagesHold, Ready

\* An empty database stays empty and no worker is ever ready: revision 0002 fails on it,
\* and the revision before it is rolled back with it (alembic/env.py).
LEMMA EmptyStaysEmpty ==
    ASSUME BootInv, BootNext, tables = {}
    PROVE  tables' = {}
<1>1. version = None /\ enum = "absent"
    BY DEF BootInv, ServiceDatabase
<1>2. boot # "serve" /\ ~Upgradable
    BY <1>1 DEF BootInv, StagesHold, Upgradable, None
<1>3. ASSUME NEW w \in Workers, Lifespan(w) \/ WorkerDies(w)
      PROVE  tables' = {}
    BY <1>2, <1>3 DEF Lifespan, InspectTables, CreateTables, CreateCollides, CountUsers,
       SeedUsers, SeedCollides, Goes, WorkerDies, schema
<1> QED
    BY <1>2, <1>3 DEF BootNext, Migrate, Stamp, Upgrade, UpgradeFails, ContainerDies, schema

\* No step of the start touches the accounts once there are any.
LEMMA BootKeepsAccounts ==
    ASSUME BootInv, BootNext, Accounts # {}
    PROVE  UNCHANGED accounts
<1>1. ~\E w \in Workers : SeedUsers(w)
    BY DemoFirst DEF SeedUsers, BootInv
<1>2. Upgrade => UNCHANGED accounts
    BY DEF Upgrade, Upgradable, BootInv, ServiceDatabase
<1> QED
    BY <1>1, <1>2 DEF BootNext, Migrate, Stamp, UpgradeFails, ContainerDies, Lifespan,
       InspectTables, CreateTables, CreateCollides, CountUsers, SeedCollides, WorkerDies

\* A change of accounts that respects the rows there are leaves the start's invariant
\* alone.
LEMMA AccountsChangeKeepsInv ==
    ASSUME BootInv, UNCHANGED <<schema, procs, faults>>,
           role' \in [Usernames -> Roles \union {None}], active' \subseteq Accounts',
           Accounts # {}, \A u \in Accounts : role'[u] = role[u]
    PROVE  BootInv'
<1>1. Demo \subseteq Accounts /\ Accounts \subseteq Accounts'
    BY DemoFirst DEF BootInv, Accounts
<1>2. BootTypeOK'
    BY DEF BootInv, BootTypeOK, schema, procs
<1>3. ServiceDatabase'
    BY <1>1 DEF BootInv, ServiceDatabase, schema
<1>4. StagesHold'
    BY <1>1 DEF BootInv, StagesHold, schema, procs
<1> QED
    BY <1>2, <1>3, <1>4 DEF BootInv

LEMMA EmptyIsNotReady == BootInv /\ tables = {} => \A w \in Workers : ~Ready(w)
    BY DEF BootInv, StagesHold, Ready, Tables
=============================================================================
