----------------------------- MODULE MCRateLimit -----------------------------
(***************************************************************************)
(* Instance of RateLimit for TLC: a clock that crosses windows, requests   *)
(* enough to exceed both budgets and to come again afterwards.             *)
(***************************************************************************)
EXTENDS RateLimit, TLC

RequestSymmetry == Permutations(Requests)
==============================================================================
