----------------------------- MODULE MCUserData -----------------------------
(***************************************************************************)
(* Instances of UserData for TLC.  Skill names come in two spellings that  *)
(* sorted() puts in opposite orders: "Go" before "ai", "AI" before "go".   *)
(***************************************************************************)
EXTENDS UserData, TLC

CONSTANTS u1, u2, o1, o2

MCSkillNames == {"AI", "Go", "ai", "go"}
MCFold == [n \in MCSkillNames |->
             CASE n = "AI" -> "ai" [] n = "Go" -> "go" [] OTHER -> n]
MCRank == [n \in MCSkillNames |->
             CASE n = "AI" -> 0 [] n = "Go" -> 1 [] n = "ai" -> 2 [] n = "go" -> 3]

Me(u) == [kind |-> "me", user |-> u, value |-> Unset]
Add(u, o) == [kind |-> "add", user |-> u, opp |-> o, value |-> Unset]
Remove(u, o) == [kind |-> "remove", user |-> u, opp |-> o, value |-> Unset]
Patch(u, value, names) ==
  [kind |-> "patch", user |-> u, value |-> value, replaces |-> TRUE,
   skills |-> names]
Rename(u, value) ==
  [kind |-> "patch", user |-> u, value |-> value, replaces |-> FALSE,
   skills |-> {}]

\* One user, one listed opportunity and one that is not.
MarkOps ==
  {Me(u1), Rename(u1, 1), Add(u1, o1), Remove(u1, o1), Add(u1, o2)}

\* One pair, added and removed.
OnePairOps == {Add(u1, o1), Remove(u1, o1)}

\* Two users, names that meet in one order, in both, and up to case.
SkillOps ==
  {Patch(u1, 1, {"AI", "go"}), Patch(u1, Unset, {"Go", "ai"}),
   Patch(u2, Unset, {"AI", "go"})}

RequestSymmetry == Permutations(Requests)
=============================================================================
