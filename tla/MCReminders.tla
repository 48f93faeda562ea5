----------------------------- MODULE MCReminders -----------------------------
(***************************************************************************)
(* Instances of Reminders for TLC.  The clock's unit is the day: a         *)
(* deadline passes from "a week ahead" to "a day ahead" to past.           *)
(***************************************************************************)
EXTENDS Reminders, TLC

Symmetry ==
  Permutations(Runs) \cup Permutations(Opportunities) \cup Permutations(Users)
==============================================================================
