---------------------------- MODULE MCConnectors ----------------------------
(***************************************************************************)
(* Instance of Connectors for TLC: two boards that keep one posting each,  *)
(* pages of one posting, two of a kind of Unstop's and three of the rest,  *)
(* and postings that are fine, for interns by commitment only, remote in   *)
(* other words, passed over, and malformed.                                *)
(***************************************************************************)
EXTENDS Connectors, TLC

Role ==
  [key |-> 1, id |-> "given", url |-> "https", tech |-> TRUE, title |-> {"senior"},
   place |-> {"remotely"}, workplace |-> "unspecified", internship |-> FALSE,
   country |-> None]

MCPostings ==
  {Role,
   [Role EXCEPT !.key = 2, !.title = {"graduate"}, !.place = {"online"},
                !.workplace = "remote", !.internship = TRUE],
   [Role EXCEPT !.key = 3, !.tech = FALSE, !.title = {"intern", "senior"},
                !.place = {"india", "remote"}, !.country = "France"],
   [Role EXCEPT !.key = 4, !.url = "other scheme"]}

MCUnstopPages == <<2, 3, 3>>

MCCurated ==
  ("company-hackathons" :>
     {[in |-> 1, key |-> 1,
       is |-> Item("hackathon", "unspecified", "remote", "Global")]}) @@
  ("early-career" :>
     {[in |-> 1, key |-> 1,
       is |-> Item("internship", "fresher", "onsite", "Global")]})
=============================================================================
