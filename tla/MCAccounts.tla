----------------------------- MODULE MCAccounts -----------------------------
(***************************************************************************)
(* Instance of Accounts for TLC: two workers of the four, the admin of the *)
(* demo accounts and one more username, for which the database or a request*)
(* chooses the role; two faults.                                           *)
(***************************************************************************)
EXTENDS Accounts, TLC

CONSTANTS admin_user, bob, w1, w2

MCWorkers   == {w1, w2}
MCUsernames == {admin_user, bob}
MCDemo      == {admin_user}
MCDemoRole  == admin_user :> "Admin"
MCRoles     == {"Admin", "Sales"}
=============================================================================
