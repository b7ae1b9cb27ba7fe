---------------------------- MODULE MCLlmScoring ----------------------------
(***************************************************************************)
(* Two concurrent scorings over a chain of two models whose breakers trip  *)
(* after two failures, one of which may have been counted before.          *)
(***************************************************************************)
EXTENDS LlmScoring

CONSTANTS m1, m2, j1, j2

MCModels == {m1, m2}
MCJobs   == {j1, j2}
MCChain  == <<m1, m2>>
=============================================================================
