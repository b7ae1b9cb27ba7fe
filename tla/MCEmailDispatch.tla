--------------------------- MODULE MCEmailDispatch ---------------------------
(***************************************************************************)
(* Instances of EmailDispatch for TLC: two workers of the four, two e-mails*)
(* of which the second falls due later, two attempts, and one fault of each*)
(* kind at most.  The batch limit cuts when it is one.                     *)
(***************************************************************************)
EXTENDS EmailDispatch, TLC

CONSTANTS e1, e2, w1, w2, c1

MCEmails      == {e1, e2}
MCWorkers     == {w1, w2}
MCCancellers  == {c1}
MCScheduledAt == (e1 :> 0) @@ (e2 :> 1)
=============================================================================
