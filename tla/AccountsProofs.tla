--------------------------- MODULE AccountsProofs ---------------------------
(***************************************************************************)
(* Proofs about Accounts, for any number of workers, usernames and faults: *)
(* the invariants of the run, how the last admin can go, and that no admin *)
(* ever comes back after that.  The start's part of the argument is        *)
(* BootInv of StartupProofs.                                               *)
(***************************************************************************)
EXTENDS Accounts, StartupProofs, FiniteSetTheorems

-----------------------------------------------------------------------------
(* The inductive invariant                                                   *)

\* What a request has established so far, given the roles of the rows.
Sound(roles, r) ==
    /\ r.op = "login" => r.by \in Usernames /\ roles[r.by] # None
    /\ r.op \in AdminOps => r.by \in Usernames /\ roles[r.by] = "Admin" /\ r.on \in Usernames
    /\ r.op = "create" => r.as \in Roles
    /\ r.op \in {"revoke", "restore"} /\ r.step # "read" => roles[r.on] # None
    /\ r.step = "count" => r.op = "revoke"
    /\ r.op = "revoke" /\ r.step = "commit" /\ r.seen /\ roles[r.on] = "Admin"
          => r.counted > 1

RequestsAreSound == \A w \in Workers : Sound(role, req[w])
TokensAreTrue    == \A t \in access : role[t.sub] = t.role

AccountsInv ==
    /\ BootInv
    /\ TypeOK
    /\ TokensAreTrue
    /\ RequestsAreSound

-----------------------------------------------------------------------------
(* Requests and roles                                                        *)

\* "Admin" is a role and None is not.
LEMMA AdminIsRole == "Admin" \in Roles /\ None \notin Roles /\ "Admin" # None
    BY StartupAssumption DEF None

LEMMA NoRequestIsSound ==
    /\ NoRequest \in Requests
    /\ \A roles : Sound(roles, NoRequest)
<1>1. Cardinality(Usernames) \in Nat
    BY FS_CardinalityType, StartupAssumption
<1> QED
    BY <1>1 DEF NoRequest, Requests, Sound, AdminOps

\* Rows are added and never change their role: what a request knows stays true.
LEMMA SoundStays ==
    ASSUME NEW roles, NEW later, NEW r, Sound(roles, r),
           \A u \in Usernames : roles[u] # None => later[u] = roles[u]
    PROVE  Sound(later, r)
    BY AdminIsRole DEF Sound, AdminOps

\* The number of active admins is a number no larger than that of the usernames.
LEMMA AdminsAreFew ==
    ASSUME BootTypeOK
    PROVE  /\ IsFiniteSet(ActiveAdmins)
           /\ Cardinality(ActiveAdmins) \in 0..Cardinality(Usernames)
<1>1. ActiveAdmins \subseteq Usernames
    BY DEF ActiveAdmins, BootTypeOK, Accounts
<1> QED
    BY <1>1, FS_Subset, FS_CardinalityType, StartupAssumption

\* There are accounts wherever a request is served.
LEMMA ServedHaveAccounts ==
    ASSUME AccountsInv, NEW w \in Workers, req[w] # NoRequest \/ Ready(w)
    PROVE  Ready(w) /\ Accounts # {}
    BY DEF AccountsInv, BootInv, TypeOK, StagesHold, Ready

-----------------------------------------------------------------------------
(* Steps                                                                     *)

\* A request of w that goes on or ends, and a database that keeps its rows.
LEMMA RequestKeepsInv ==
    ASSUME AccountsInv, BootInv', NEW w \in Workers, NEW r, Ready(w), UNCHANGED procs,
           req' = [req EXCEPT ![w] = r], r \in Requests, Sound(role', r),
           \A u \in Accounts : role'[u] = role[u],
           access' \subseteq Tokens, refresh' \subseteq Accounts',
           \A t \in access' : role'[t.sub] = t.role
    PROVE  AccountsInv'
<1>1. TypeOK'
    BY DEF AccountsInv, BootInv, TypeOK, Ready, procs
<1>2. RequestsAreSound'
    <2> SUFFICES ASSUME NEW v \in Workers PROVE Sound(role', req'[v])
        BY DEF RequestsAreSound
    <2>1. CASE v = w
        BY <2>1 DEF AccountsInv, TypeOK
    <2>2. CASE v # w
        <3>1. req'[v] = req[v] /\ Sound(role, req[v])
            BY <2>2 DEF AccountsInv, TypeOK, RequestsAreSound
        <3>2. \A u \in Usernames : role[u] # None => role'[u] = role[u]
            BY DEF Accounts
        <3> QED
            BY <3>1, <3>2, SoundStays
    <2> QED
        BY <2>1, <2>2
<1> QED
    BY <1>1, <1>2 DEF AccountsInv, TokensAreTrue

\* The case of a step that leaves the database and the tokens alone.
LEMMA PlainRequestKeepsInv ==
    ASSUME AccountsInv, NEW w \in Workers, NEW r, req[w] # NoRequest \/ Ready(w),
           UNCHANGED <<bootVars, access, refresh>>,
           req' = [req EXCEPT ![w] = r], r \in Requests, Sound(role, r)
    PROVE  AccountsInv'
<1> USE DEF bootVars, accounts, procs
<1>1. BootInv'
    BY BootStutterKeepsInv DEF AccountsInv
<1>2. Ready(w)
    BY ServedHaveAccounts
<1>3. /\ access' \subseteq Tokens
      /\ refresh' \subseteq Accounts'
      /\ \A t \in access' : role'[t.sub] = t.role
    BY DEF AccountsInv, TypeOK, TokensAreTrue, Accounts
<1> QED
    BY <1>1, <1>2, <1>3, RequestKeepsInv

LEMMA StartupStepKeepsInv ==
    ASSUME AccountsInv, StartupStep
    PROVE  AccountsInv'
<1>1. BootInv' /\ BootTypeOK'
    BY BootStepKeepsInv DEF StartupStep, AccountsInv, BootInv
<1>2. \A u \in Accounts : role'[u] = role[u]
    BY BootKeepsAccounts DEF StartupStep, AccountsInv, accounts
<1>3. refresh' \subseteq Accounts' /\ access' \subseteq Tokens
    BY <1>1, <1>2 DEF StartupStep, AccountsInv, TypeOK, Accounts
<1>4. TokensAreTrue'
    <2> SUFFICES ASSUME NEW t \in access PROVE role'[t.sub] = t.role
        BY DEF StartupStep, TokensAreTrue
    <2>1. t.sub \in Usernames /\ t.role \in Roles /\ role[t.sub] = t.role
        BY DEF AccountsInv, TypeOK, Tokens, TokensAreTrue
    <2>2. t.sub \in Accounts
        BY <2>1, AdminIsRole DEF Accounts
    <2> QED
        BY <2>1, <2>2, <1>2
<1>5. ASSUME NEW w \in Workers
      PROVE  /\ req'[w] \in Requests /\ Sound(role', req'[w])
             /\ ~Ready(w)' => req'[w] = NoRequest
    <2>1. req'[w] = IF Ready(w)' THEN req[w] ELSE NoRequest
        BY DEF StartupStep
    <2>2. req[w] \in Requests /\ Sound(role, req[w])
        BY DEF AccountsInv, TypeOK, RequestsAreSound
    <2>3. Sound(role', req[w])
        BY <1>2, <2>2, SoundStays DEF Accounts
    <2> QED
        BY <2>1, <2>2, <2>3, NoRequestIsSound
<1>6. req' \in [Workers -> Requests]
    BY <1>5 DEF StartupStep
<1> QED
    BY <1>1, <1>3, <1>4, <1>5, <1>6 DEF AccountsInv, TypeOK, RequestsAreSound

LEMMA LoginKeepsInv ==
    ASSUME AccountsInv, NEW w \in Workers, NEW u \in Usernames, Login(w, u)
    PROVE  AccountsInv'
<1> DEFINE r == [NoRequest EXCEPT !.op = "login", !.by = u, !.step = "commit"]
<1>1. u \in Accounts
    BY DEF Login, AccountsInv, BootInv, BootTypeOK
<1>2. r \in Requests
    BY NoRequestIsSound DEF Requests
<1>3. Sound(role, r)
    BY <1>1 DEF Sound, NoRequest, AdminOps, Accounts
<1> QED
    BY <1>2, <1>3, PlainRequestKeepsInv DEF Login, Idle

\* The tokens made for the row of an account.
LEMMA NewTokenIsTrue ==
    ASSUME AccountsInv, NEW u \in Accounts
    PROVE  LET more == access \union {[sub |-> u, role |-> role[u]]}
           IN  more \subseteq Tokens /\ \A t \in more : role[t.sub] = t.role
<1>1. u \in Usernames /\ role[u] \in Roles
    BY DEF Accounts, AccountsInv, BootInv, BootTypeOK
<1> QED
    BY <1>1 DEF AccountsInv, TypeOK, Tokens, TokensAreTrue

LEMMA IssueTokensKeepsInv ==
    ASSUME AccountsInv, NEW w \in Workers, IssueTokens(w)
    PROVE  AccountsInv'
<1> USE DEF IssueTokens
<1>1. Ready(w)
    BY ServedHaveAccounts DEF NoRequest
<1>2. req[w].by \in Accounts
    BY DEF AccountsInv, RequestsAreSound, Sound, Accounts
<1>3. BootInv' /\ UNCHANGED <<role, procs>> /\ Accounts' = Accounts
    BY BootStutterKeepsInv DEF AccountsInv, bootVars, accounts, Accounts
<1>4. access' \subseteq Tokens /\ \A t \in access' : role'[t.sub] = t.role
    BY <1>2, <1>3, NewTokenIsTrue
<1>5. refresh' \subseteq Accounts'
    BY <1>2, <1>3 DEF AccountsInv, TypeOK
<1> QED
    BY <1>1, <1>3, <1>4, <1>5, NoRequestIsSound, RequestKeepsInv DEF Answered

\* A step that only changes the tokens.
LEMMA TokensKeepInv ==
    ASSUME AccountsInv, UNCHANGED <<bootVars, req>>, access' \subseteq Tokens,
           refresh' \subseteq Accounts,
           \A t \in access' : role[t.sub] = t.role
    PROVE  AccountsInv'
<1> USE DEF bootVars, accounts, procs
<1>1. BootInv'
    BY BootStutterKeepsInv DEF AccountsInv
<1>2. TypeOK'
    BY <1>1 DEF BootInv, AccountsInv, TypeOK, Accounts, Ready
<1> QED
    BY <1>1, <1>2 DEF AccountsInv, RequestsAreSound, TokensAreTrue

LEMMA RefreshKeepsInv ==
    ASSUME AccountsInv, NEW w \in Workers, NEW u \in Usernames, Refresh(w, u)
    PROVE  AccountsInv'
<1>1. u \in Accounts
    BY DEF Refresh, AccountsInv, TypeOK
<1> QED
    BY <1>1, NewTokenIsTrue, TokensKeepInv DEF Refresh, AccountsInv, TypeOK

LEMMA TokenExpiresKeepsInv ==
    ASSUME AccountsInv, NEW t \in access, TokenExpires(t)
    PROVE  AccountsInv'
    BY TokensKeepInv DEF TokenExpires, AccountsInv, TypeOK, TokensAreTrue

LEMMA RefreshExpiresKeepsInv ==
    ASSUME AccountsInv, NEW u \in refresh, RefreshExpires(u)
    PROVE  AccountsInv'
    BY TokensKeepInv DEF RefreshExpires, AccountsInv, TypeOK, TokensAreTrue

LEMMA AuthoriseKeepsInv ==
    ASSUME AccountsInv, NEW w \in Workers, NEW t \in access, NEW op \in AdminOps,
           NEW on \in Usernames, NEW as \in Roles \union {None},
           Authorise(w, t, op, on, as)
    PROVE  AccountsInv'
<1> DEFINE r == [NoRequest EXCEPT !.op = op, !.by = t.sub, !.on = on, !.as = as]
<1>1. t.sub \in Usernames /\ role[t.sub] = "Admin"
    BY DEF Authorise, AccountsInv, TypeOK, Tokens, TokensAreTrue
<1>2. r \in Requests
    BY <1>1, NoRequestIsSound DEF Requests
<1>3. Sound(role, r)
    BY <1>1 DEF Sound, NoRequest, AdminOps, Authorise
<1> QED
    BY <1>2, <1>3, PlainRequestKeepsInv DEF Authorise, Idle

LEMMA ReadUserKeepsInv ==
    ASSUME AccountsInv, NEW w \in Workers, ReadUser(w)
    PROVE  AccountsInv'
<1> DEFINE old == req[w]
           step == IF old.op = "revoke" /\ old.on \in ActiveAdmins THEN "count" ELSE "commit"
           seen == old.on \in active
           r == [old EXCEPT !.step = step, !.seen = seen]
<1>1. old \in Requests /\ Sound(role, old) /\ old.op \in AdminOps /\ ~Refused(old)
    BY DEF ReadUser, AccountsInv, TypeOK, RequestsAreSound
<1>2. r \in Requests
    <2>1. step \in {"read", "count", "commit"} /\ seen \in BOOLEAN
        OBVIOUS
    <2> HIDE DEF step, seen
    <2> QED
        BY <1>1, <2>1 DEF Requests
<1>3. Sound(role, r)
    <2>1. /\ r.op = old.op /\ r.by = old.by /\ r.on = old.on /\ r.as = old.as
          /\ r.step = step /\ (r.seen <=> seen)
        BY <1>1 DEF Requests
    <2>2. old.op \in {"revoke", "restore"} => role[old.on] # None
        BY <1>1 DEF Refused
    <2>3. step = "count" => old.op = "revoke"
        OBVIOUS
    <2>4. old.op = "revoke" /\ step = "commit" /\ seen => role[old.on] # "Admin"
        BY DEF ActiveAdmins
    <2> HIDE DEF step, seen, r, old
    <2> QED
        BY <1>1, <2>1, <2>2, <2>3, <2>4 DEF Sound, AdminOps
<1>4. req' = [req EXCEPT ![w] = r]
    BY <1>1 DEF ReadUser, AccountsInv, TypeOK, Requests
<1>5. req[w] # NoRequest
    BY <1>1 DEF NoRequest, AdminOps
<1> QED
    BY <1>2, <1>3, <1>4, <1>5, PlainRequestKeepsInv DEF ReadUser

LEMMA CountAdminsKeepsInv ==
    ASSUME AccountsInv, NEW w \in Workers, CountAdmins(w)
    PROVE  AccountsInv'
<1> DEFINE old == req[w]
           r == [old EXCEPT !.step = "commit", !.counted = Cardinality(ActiveAdmins)]
<1>1. old \in Requests /\ Sound(role, old) /\ old.step = "count"
    BY DEF CountAdmins, AccountsInv, TypeOK, RequestsAreSound
<1>2. Cardinality(ActiveAdmins) \in 0..Cardinality(Usernames)
    BY AdminsAreFew DEF AccountsInv, BootInv
<1>3. r \in Requests
    BY <1>1, <1>2 DEF Requests
<1>4. Sound(role, r)
    <2>1. /\ r.op = old.op /\ r.by = old.by /\ r.on = old.on /\ r.as = old.as
          /\ r.step = "commit" /\ r.counted = Cardinality(ActiveAdmins)
        BY <1>1 DEF Requests
    <2> QED
        BY <1>1, <2>1 DEF Sound, AdminOps, CountAdmins
<1>5. req' = [req EXCEPT ![w] = r]
    BY <1>1 DEF CountAdmins, AccountsInv, TypeOK, Requests
<1>6. req[w] # NoRequest
    BY <1>1 DEF NoRequest
<1> QED
    BY <1>3, <1>4, <1>5, <1>6, PlainRequestKeepsInv DEF CountAdmins

LEMMA RefusalKeepsInv ==
    ASSUME AccountsInv, NEW w \in Workers,
           Refuse(w) \/ RefuseLastAdmin(w) \/ InsertCollides(w)
    PROVE  AccountsInv'
<1>1. Answered(w) /\ req[w] # NoRequest /\ UNCHANGED <<bootVars, access, refresh>>
    BY DEF Refuse, RefuseLastAdmin, InsertCollides, NoRequest, AdminOps
<1> QED
    BY <1>1, NoRequestIsSound, PlainRequestKeepsInv DEF Answered

\* The commits: of a new row, or of a new value of is_deleted.
LEMMA CommitKeepsInv ==
    ASSUME AccountsInv, NEW w \in Workers,
           InsertUser(w) \/ CommitRevoke(w) \/ CommitRestore(w)
    PROVE  AccountsInv'
<1> DEFINE old == req[w]
<1>1. /\ Answered(w) /\ req[w] # NoRequest
      /\ UNCHANGED <<schema, procs, faults, access, refresh>>
    BY DEF InsertUser, CommitRevoke, CommitRestore, NoRequest
<1>2. Ready(w) /\ Accounts # {}
    BY <1>1, ServedHaveAccounts
<1>3. /\ old \in Requests /\ Sound(role, old)
      /\ role \in [Usernames -> Roles \union {None}] /\ active \subseteq Accounts
    BY DEF AccountsInv, BootInv, BootTypeOK, TypeOK, RequestsAreSound
<1>4. /\ role' \in [Usernames -> Roles \union {None}]
      /\ active' \subseteq Accounts'
      /\ \A u \in Accounts : role'[u] = role[u]
    <2>1. CASE InsertUser(w)
        <3>1. old.on \in Usernames /\ old.as \in Roles /\ role[old.on] = None
            BY <1>3, <2>1 DEF InsertUser, Sound, AdminOps
        <3> QED
            BY <1>3, <2>1, <3>1, AdminIsRole DEF InsertUser, Accounts
    <2>2. CASE CommitRevoke(w)
        BY <1>3, <2>2 DEF CommitRevoke, Accounts
    <2>3. CASE CommitRestore(w)
        <3>1. old.on \in Accounts
            BY <1>3, <2>3 DEF CommitRestore, Sound, AdminOps, Accounts
        <3> QED
            BY <1>3, <2>3, <3>1 DEF CommitRestore, Accounts
    <2> QED
        BY <2>1, <2>2, <2>3
<1>5. BootInv'
    BY <1>1, <1>2, <1>4, AccountsChangeKeepsInv DEF AccountsInv
<1>6. access' \subseteq Tokens /\ refresh' \subseteq Accounts'
    BY <1>1, <1>4 DEF AccountsInv, TypeOK, Accounts
<1>7. \A t \in access' : role'[t.sub] = t.role
    <2> SUFFICES ASSUME NEW t \in access PROVE role'[t.sub] = t.role
        BY <1>1
    <2>1. t.sub \in Usernames /\ t.role \in Roles /\ role[t.sub] = t.role
        BY DEF AccountsInv, TypeOK, Tokens, TokensAreTrue
    <2>2. t.sub \in Accounts
        BY <2>1, AdminIsRole DEF Accounts
    <2> QED
        BY <2>1, <2>2, <1>4
<1> QED
    BY <1>1, <1>2, <1>4, <1>5, <1>6, <1>7, NoRequestIsSound, RequestKeepsInv DEF Answered

LEMMA StepKeepsInv ==
    ASSUME AccountsInv, Next
    PROVE  AccountsInv'
<1>1. ASSUME NEW w \in Workers, Serve(w)
      PROVE  AccountsInv'
    BY <1>1, LoginKeepsInv, RefreshKeepsInv, IssueTokensKeepsInv, AuthoriseKeepsInv,
       ReadUserKeepsInv, CountAdminsKeepsInv, RefusalKeepsInv, CommitKeepsInv DEF Serve
<1> QED
    BY <1>1, StartupStepKeepsInv, TokenExpiresKeepsInv, RefreshExpiresKeepsInv DEF Next

LEMMA StutterKeepsInv ==
    ASSUME AccountsInv, UNCHANGED vars
    PROVE  AccountsInv'
    BY TokensKeepInv DEF vars, AccountsInv, TypeOK, TokensAreTrue

LEMMA InitInv == AccountsInit => AccountsInv
<1> SUFFICES ASSUME AccountsInit PROVE AccountsInv
    OBVIOUS
<1>1. BootInv
    BY BootInit DEF AccountsInit
<1>2. TypeOK
    BY <1>1, NoRequestIsSound DEF AccountsInit, BootInv, TypeOK
<1> QED
    BY <1>1, <1>2, NoRequestIsSound DEF AccountsInit, AccountsInv, TokensAreTrue, RequestsAreSound

-----------------------------------------------------------------------------
(* The theorems                                                              *)

\* The inductive invariant of the accounts holds in every reachable state.
THEOREM AccountsInvariant == Spec => []AccountsInv
<1>1. AccountsInv /\ [Next]_vars => AccountsInv'
    BY StepKeepsInv, StutterKeepsInv
<1> QED
    BY <1>1, InitInv, PTL DEF Spec

\* Type correctness of both modules; only ready workers serve requests.
THEOREM TypeCorrect == Spec => []TypeOK
<1>1. AccountsInv => TypeOK
    BY DEF AccountsInv
<1> QED
    BY <1>1, AccountsInvariant, PTL

\* A worker that takes requests finds every table, the enum value, the migrations on
\* record and the demo accounts (main.py, lifespan; docker-entrypoint.sh).
THEOREM ReadyTheorem == Spec => []ReadyIsComplete
<1>1. AccountsInv => ReadyIsComplete
    BY InvMakesComplete DEF AccountsInv
<1> QED
    BY <1>1, AccountsInvariant, PTL

\* The role in a token is the row's, and whoever administers is an admin
\* (dependencies.py, RoleChecker).
THEOREM ClaimsTheorem == Spec => []ClaimsAreTrue
<1>1. AccountsInv => ClaimsAreTrue
    BY DEF AccountsInv, ClaimsAreTrue, TokensAreTrue, RequestsAreSound, Sound
<1> QED
    BY <1>1, AccountsInvariant, PTL

\* An empty database stays empty, and no worker is ever ready on it, fault or no fault: the
\* reason why FreshDatabaseBoots fails (alembic revision 0002 needs an enum that only a
\* worker's create_all would create).
THEOREM EmptyNeverBoots == Spec => (tables = {} => [](\A w \in Workers : ~Ready(w)))
<1> DEFINE Empty == tables = {}
           NoneReady == \A w \in Workers : ~Ready(w)
<1>1. AccountsInv /\ Empty => NoneReady
    BY EmptyIsNotReady DEF AccountsInv
<1>2. AccountsInv /\ Empty /\ [Next]_vars => Empty'
    <2> SUFFICES ASSUME AccountsInv, Empty, [Next]_vars PROVE Empty'
        OBVIOUS
    <2>1. CASE StartupStep
        BY <2>1, EmptyStaysEmpty DEF StartupStep, AccountsInv
    <2>2. ASSUME NEW w \in Workers, Serve(w)
          PROVE  tables' = tables
        BY <2>2 DEF Serve, Login, Refresh, IssueTokens, Authorise, ReadUser, Refuse,
           CountAdmins, RefuseLastAdmin, InsertUser, InsertCollides, CommitRevoke,
           CommitRestore, bootVars, schema
    <2>3. ASSUME NEW t \in access, TokenExpires(t)
          PROVE  tables' = tables
        BY <2>3 DEF TokenExpires, bootVars, schema
    <2>4. ASSUME NEW u \in refresh, RefreshExpires(u)
          PROVE  tables' = tables
        BY <2>4 DEF RefreshExpires, bootVars, schema
    <2>5. CASE UNCHANGED vars
        BY <2>5 DEF vars, bootVars, schema
    <2> QED
        BY <2>1, <2>2, <2>3, <2>4, <2>5 DEF Next
<1> QED
    BY <1>1, <1>2, AccountsInvariant, PTL DEF Spec

\* Only the commit of a revocation takes an active admin away.
LEMMA OnlyRevocationsRemove ==
    ASSUME AccountsInv, [Next]_vars,
           ~\E w \in Workers : CommitRevoke(w)
    PROVE  ActiveAdmins \subseteq ActiveAdmins'
<1> SUFFICES ASSUME NEW u \in ActiveAdmins PROVE u \in ActiveAdmins'
    OBVIOUS
<1>1. u \in active /\ u \in Accounts /\ role[u] = "Admin"
    BY DEF ActiveAdmins, AccountsInv, BootInv, BootTypeOK
<1>2. role'[u] = role[u] /\ u \in active'
    <2>1. CASE StartupStep
        BY <1>1, <2>1, BootKeepsAccounts DEF StartupStep, AccountsInv, accounts
    <2>2. ASSUME NEW w \in Workers, InsertUser(w)
          PROVE  role'[u] = role[u] /\ u \in active'
        BY <1>1, <2>2 DEF InsertUser, Accounts, AccountsInv, BootInv, BootTypeOK
    <2>3. ASSUME NEW w \in Workers, CommitRestore(w)
          PROVE  role'[u] = role[u] /\ u \in active'
        BY <1>1, <2>3 DEF CommitRestore
    <2>4. CASE /\ ~StartupStep
               /\ ~\E w \in Workers : InsertUser(w) \/ CommitRestore(w)
        BY <1>1, <2>4 DEF Next, Serve, Login, Refresh, IssueTokens, Authorise, ReadUser,
           Refuse, CountAdmins, RefuseLastAdmin, InsertCollides, TokenExpires,
           RefreshExpires, vars, bootVars, accounts
    <2> QED
        BY <2>1, <2>2, <2>3, <2>4
<1> QED
    BY <1>1, <1>2 DEF ActiveAdmins

\* The last active admin goes only with a revocation that counted more admins than there
\* are by now (users.py, revoke_user): two revocations that do not overlap keep one.
THEOREM LockoutTheorem == Spec => LockoutIsARace
<1> DEFINE Race ==
        ActiveAdmins # {} /\ ActiveAdmins' = {}
        => \E w \in Workers :
              /\ req[w].op = "revoke" /\ req'[w] = NoRequest
              /\ req[w].counted > Cardinality(ActiveAdmins)
<1>1. AccountsInv /\ [Next]_vars => Race
    <2> SUFFICES ASSUME AccountsInv, [Next]_vars, ActiveAdmins # {}, ActiveAdmins' = {}
                 PROVE  \E w \in Workers :
                            /\ req[w].op = "revoke" /\ req'[w] = NoRequest
                            /\ req[w].counted > Cardinality(ActiveAdmins)
        OBVIOUS
    <2>1. PICK w \in Workers : CommitRevoke(w)
        BY OnlyRevocationsRemove
    <2> DEFINE r == req[w]
    <2>2. /\ r.op = "revoke" /\ r.step = "commit" /\ req'[w] = NoRequest
          /\ role' = role /\ active' = IF r.seen THEN active \ {r.on} ELSE active
        BY <2>1 DEF CommitRevoke, Answered, AccountsInv, TypeOK
    <2>3. r.seen /\ ActiveAdmins = {r.on}
        BY <2>2 DEF ActiveAdmins
    <2>4. role[r.on] = "Admin"
        BY <2>3 DEF ActiveAdmins
    <2>5. r.counted > 1
        BY <2>2, <2>3, <2>4 DEF AccountsInv, RequestsAreSound, Sound
    <2>6. Cardinality(ActiveAdmins) = 1
        BY <2>3, FS_Singleton
    <2> QED
        BY <2>2, <2>5, <2>6
<1>2. Spec => [][Race]_vars
    BY <1>1, AccountsInvariant, PTL DEF Spec
<1> QED
    BY <1>2 DEF LockoutIsARace

\* Once the race has left no active admin and nobody's request is in flight, there is
\* never one again: tokens in force are no way in (get_current_user_claims), and a
\* restart does not seed (seed_demo_users).
THEOREM LockoutFinalTheorem == Spec => LockoutIsFinal
<1>1. AccountsInv /\ LockedOut /\ [Next]_vars => LockedOut'
    <2> SUFFICES ASSUME AccountsInv, LockedOut, [Next]_vars PROVE LockedOut'
        OBVIOUS
    <2> USE DEF LockedOut
    <2>1. CASE StartupStep
        <3>1. role' = role /\ active' = active
            BY <2>1, BootKeepsAccounts DEF StartupStep, AccountsInv, accounts
        <3>2. \A w \in Workers : req'[w].op = req[w].op \/ req'[w] = NoRequest
            BY <2>1 DEF StartupStep
        <3> QED
            BY <3>1, <3>2 DEF Accounts, ActiveAdmins, NoRequest, AdminOps
    <2>2. ASSUME NEW w \in Workers, Serve(w)
          PROVE  LockedOut'
        <3>1. CASE \E u \in Usernames : Login(w, u)
            BY <3>1 DEF Login, bootVars, accounts, Accounts, ActiveAdmins, NoRequest, AdminOps,
               AccountsInv, TypeOK
        <3>2. CASE IssueTokens(w)
            BY <3>2 DEF IssueTokens, Answered, bootVars, accounts, Accounts, ActiveAdmins,
               NoRequest, AdminOps, AccountsInv, TypeOK
        <3>3. CASE \E u \in Usernames : Refresh(w, u)
            BY <3>3 DEF Refresh, bootVars, accounts, Accounts, ActiveAdmins
        <3>4. ASSUME NEW t \in access, t.sub \in active, t.role = "Admin" PROVE FALSE
            BY <3>4 DEF AccountsInv, TokensAreTrue, ActiveAdmins
        <3>5. req[w].op \notin AdminOps /\ req[w].step # "count"
            BY DEF AccountsInv, RequestsAreSound, Sound, AdminOps
        <3> QED
            BY <2>2, <3>1, <3>2, <3>3, <3>4, <3>5 DEF Serve, Authorise, ReadUser, Refuse,
               CountAdmins, RefuseLastAdmin, InsertUser, InsertCollides, CommitRevoke,
               CommitRestore, AdminOps
    <2>3. CASE \E t \in access : TokenExpires(t)
        BY <2>3 DEF TokenExpires, bootVars, accounts, Accounts, ActiveAdmins
    <2>4. CASE \E u \in refresh : RefreshExpires(u)
        BY <2>4 DEF RefreshExpires, bootVars, accounts, Accounts, ActiveAdmins
    <2>5. CASE UNCHANGED vars
        BY <2>5 DEF vars, bootVars, accounts, Accounts, ActiveAdmins
    <2> QED
        BY <2>1, <2>2, <2>3, <2>4, <2>5 DEF Next
<1> QED
    BY <1>1, AccountsInvariant, PTL DEF Spec, LockoutIsFinal
=============================================================================
