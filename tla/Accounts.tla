------------------------------ MODULE Accounts ------------------------------
(***************************************************************************)
(* User accounts: login and refresh (app/api/v1/auth.py), the check of the *)
(* bearer token (app/api/dependencies.py) and the administration of users  *)
(* (app/api/v1/users.py), served by the workers of Startup, which lose     *)
(* their requests when they die.                                           *)
(*                                                                         *)
(* Each request uses one session: its queries are separate statements at   *)
(* PostgreSQL's default isolation, and what it changes is written at the   *)
(* commit.  Here a worker has one request in flight at a time.             *)
(***************************************************************************)
EXTENDS Startup

VARIABLES
    access,   \* the access tokens in force: [sub, role]
    refresh,  \* whose refresh tokens are in force
    req       \* the request each worker is serving

vars == <<bootVars, access, refresh, req>>

\* by: sub of the token; on, as: the username and role the request is about; step: its
\* next statement; seen: was the user read as active; counted: remaining_admins.
NoRequest ==
    [op |-> "none", by |-> None, on |-> None, as |-> None, step |-> "read",
     seen |-> FALSE, counted |-> 0]
AdminOps == {"create", "revoke", "restore"}
Requests ==
    [op : AdminOps \union {"login", "none"}, by : Usernames \union {None},
     on : Usernames \union {None}, as : Roles \union {None},
     step : {"read", "count", "commit"}, seen : BOOLEAN,
     counted : 0..Cardinality(Usernames)]
Tokens   == [sub : Usernames, role : Roles]

ActiveAdmins == {u \in active : role[u] = "Admin"}
Idle(w)      == Ready(w) /\ req[w] = NoRequest
Answered(w)  == req' = [req EXCEPT ![w] = NoRequest]

AccountsInit ==
    /\ Init
    /\ access = {}
    /\ refresh = {}
    /\ req = [w \in Workers |-> NoRequest]

-----------------------------------------------------------------------------
(* auth.py                                                                   *)

\* login: the password is right and the account not revoked; last_login_at is committed
Login(w, u) ==
    /\ Idle(w)
    /\ u \in active
    /\ req' = [req EXCEPT ![w] = [NoRequest EXCEPT !.op = "login", !.by = u, !.step = "commit"]]
    /\ UNCHANGED <<bootVars, access, refresh>>

\* and the tokens are made for the row as it is then.
IssueTokens(w) ==
    LET u == req[w].by
    IN  /\ req[w].op = "login"
        /\ access' = access \union {[sub |-> u, role |-> role[u]]}
        /\ refresh' = refresh \union {u}
        /\ Answered(w)
        /\ UNCHANGED bootVars

\* refresh: one query, and an access token with the role of the row.
Refresh(w, u) ==
    /\ Idle(w)
    /\ u \in refresh \intersect active
    /\ access' = access \union {[sub |-> u, role |-> role[u]]}
    /\ UNCHANGED <<bootVars, refresh, req>>

TokenExpires(t) ==
    /\ t \in access
    /\ access' = access \ {t}
    /\ UNCHANGED <<bootVars, refresh, req>>

RefreshExpires(u) ==
    /\ u \in refresh
    /\ refresh' = refresh \ {u}
    /\ UNCHANGED <<bootVars, access, req>>

-----------------------------------------------------------------------------
(* dependencies.py: get_current_user_claims and allow_admin_only             *)

\* Mutant: the token alone decides, without the look into the users table.
AuthoriseByToken(w, t, op, on, as) ==
    /\ Idle(w)
    /\ t.role = "Admin"
    /\ as = None <=> op # "create"
    /\ req' = [req EXCEPT
          ![w] = [NoRequest EXCEPT !.op = op, !.by = t.sub, !.on = on, !.as = as]]
    /\ UNCHANGED <<bootVars, access, refresh>>

\* An administrative request with a valid token of a user who is not revoked.
Authorise(w, t, op, on, as) ==
    /\ Idle(w)
    /\ t.sub \in active
    /\ t.role = "Admin"
    /\ as = None <=> op # "create"
    /\ req' = [req EXCEPT
          ![w] = [NoRequest EXCEPT !.op = op, !.by = t.sub, !.on = on, !.as = as]]
    /\ UNCHANGED <<bootVars, access, refresh>>

-----------------------------------------------------------------------------
(* users.py                                                                  *)

\* Mutant: no 404 for a user there is not.
RefusedIfTaken(r) ==
    \/ r.op = "create" /\ role[r.on] # None
    \/ r.op = "revoke" /\ r.on = r.by

\* 409 for a username that is taken, 404 for a user there is not, 400 for oneself.
Refused(r) ==
    \/ r.op = "create" /\ role[r.on] # None
    \/ r.op \in {"revoke", "restore"} /\ role[r.on] = None
    \/ r.op = "revoke" /\ r.on = r.by

ReadUser(w) ==
    LET r == req[w]
    IN  /\ r.op \in AdminOps /\ r.step = "read"
        /\ ~Refused(r)
        /\ req' = [req EXCEPT
              ![w].step = IF r.op = "revoke" /\ r.on \in ActiveAdmins THEN "count" ELSE "commit",
              ![w].seen = r.on \in active]
        /\ UNCHANGED <<bootVars, access, refresh>>

Refuse(w) ==
    /\ req[w].op \in AdminOps /\ req[w].step = "read"
    /\ Refused(req[w])
    /\ Answered(w)
    /\ UNCHANGED <<bootVars, access, refresh>>

\* Mutant: the last active admin may go.
CountAnyAdmins(w) ==
    /\ req[w].step = "count"
    /\ req' = [req EXCEPT ![w].step = "commit", ![w].counted = Cardinality(ActiveAdmins)]
    /\ UNCHANGED <<bootVars, access, refresh>>

\* revoke_user counts the remaining admins,
CountAdmins(w) ==
    /\ req[w].step = "count"
    /\ Cardinality(ActiveAdmins) > 1
    /\ req' = [req EXCEPT ![w].step = "commit", ![w].counted = Cardinality(ActiveAdmins)]
    /\ UNCHANGED <<bootVars, access, refresh>>

\* and keeps the last one.
RefuseLastAdmin(w) ==
    /\ req[w].step = "count"
    /\ Cardinality(ActiveAdmins) <= 1
    /\ Answered(w)
    /\ UNCHANGED <<bootVars, access, refresh>>

\* Mutant: the username is not unique in the table, the newer row is the one found.
InsertAnyway(w) ==
    LET r == req[w]
    IN  /\ r.op = "create" /\ r.step = "commit"
        /\ role' = [role EXCEPT ![r.on] = r.as]
        /\ active' = active \union {r.on}
        /\ Answered(w)
        /\ UNCHANGED <<schema, procs, faults, access, refresh>>

InsertUser(w) ==
    LET r == req[w]
    IN  /\ r.op = "create" /\ r.step = "commit"
        /\ role[r.on] = None
        /\ role' = [role EXCEPT ![r.on] = r.as]
        /\ active' = active \union {r.on}
        /\ Answered(w)
        /\ UNCHANGED <<schema, procs, faults, access, refresh>>

\* The username was taken in the meantime: IntegrityError, answered with 500.
InsertCollides(w) ==
    /\ req[w].op = "create" /\ req[w].step = "commit"
    /\ role[req[w].on] # None
    /\ Answered(w)
    /\ UNCHANGED <<bootVars, access, refresh>>

\* The UPDATE by id sets the columns that differ from what was read: is_deleted is not
\* among them when a user read as revoked is revoked, or one read as active restored.
CommitRevoke(w) ==
    LET r == req[w]
    IN  /\ r.op = "revoke" /\ r.step = "commit"
        /\ active' = IF r.seen THEN active \ {r.on} ELSE active
        /\ Answered(w)
        /\ UNCHANGED <<schema, role, procs, faults, access, refresh>>

CommitRestore(w) ==
    LET r == req[w]
    IN  /\ r.op = "restore" /\ r.step = "commit"
        /\ active' = IF r.seen THEN active ELSE active \union {r.on}
        /\ Answered(w)
        /\ UNCHANGED <<schema, role, procs, faults, access, refresh>>

-----------------------------------------------------------------------------
\* A step of the start; a worker that dies with it takes its request along.
StartupStep ==
    /\ BootNext
    /\ req' = [w \in Workers |-> IF Ready(w)' THEN req[w] ELSE NoRequest]
    /\ UNCHANGED <<access, refresh>>

Serve(w) ==
    \/ \E u \in Usernames : Login(w, u) \/ Refresh(w, u)
    \/ IssueTokens(w)
    \/ \E t \in access, op \in AdminOps, on \in Usernames, as \in Roles \union {None} :
          Authorise(w, t, op, on, as)
    \/ ReadUser(w) \/ Refuse(w)
    \/ CountAdmins(w) \/ RefuseLastAdmin(w)
    \/ InsertUser(w) \/ InsertCollides(w)
    \/ CommitRevoke(w) \/ CommitRestore(w)

Next ==
    \/ StartupStep
    \/ \E w \in Workers : Serve(w)
    \/ \E t \in access : TokenExpires(t)
    \/ \E u \in refresh : RefreshExpires(u)

\* The start is fair; nobody need ask for anything.
Spec == AccountsInit /\ [][Next]_vars /\ BootFairness

-----------------------------------------------------------------------------
(* Properties                                                                *)

\* The variables of both modules have their types; only a ready worker serves requests.
TypeOK ==
    /\ BootTypeOK
    /\ access \subseteq Tokens
    /\ refresh \subseteq Accounts
    /\ req \in [Workers -> Requests]
    /\ \A w \in Workers : ~Ready(w) => req[w] = NoRequest

\* The role in a token is believed without a look at the row (RoleChecker), for as long
\* as the token lives: it stays the row's role, and whoever administers is an admin,
\* although names are checked before they are inserted and creations overlap.
ClaimsAreTrue ==
    /\ \A t \in access : role[t.sub] = t.role
    /\ \A w \in Workers : req[w].op \in AdminOps => role[req[w].by] = "Admin"

\* revoke_user keeps the last active admin unless it is overtaken: the last one goes only
\* with a request whose remaining_admins is no longer the number of active admins.
LockoutIsARace ==
    [][ActiveAdmins # {} /\ ActiveAdmins' = {}
       => \E w \in Workers :
             /\ req[w].op = "revoke" /\ req'[w] = NoRequest
             /\ req[w].counted > Cardinality(ActiveAdmins)]_vars

\* No active admin, and no request of one in flight.
LockedOut ==
    /\ Accounts # {} /\ ActiveAdmins = {}
    /\ \A w \in Workers : req[w].op \notin AdminOps

\* Once the race has left no active admin and the requests in flight have ended, none
\* ever comes back: not by tokens still in force, nor by a restart, whose seeding counts
\* the revoked accounts.
LockoutIsFinal == [][LockedOut => LockedOut']_vars
=============================================================================
