------------------------------ MODULE MCCatalog ------------------------------
(***************************************************************************)
(* Instance of Catalog for TLC: three rows on pages of one or two, written *)
(* by three runs that overlap, so that rows tie and old rows appear late.  *)
(***************************************************************************)
EXTENDS Catalog

CONSTANT build

Hackathon ==
  [type |-> "hackathon", status |-> "active", country |-> "USA",
   remote_type |-> "onsite", tags |-> {"Go", "AI", "ML"}, words |-> {build}, rank |-> 1]
Job ==
  [type |-> "internship", status |-> "active", country |-> "Global",
   remote_type |-> "remote", tags |-> {"Go"}, words |-> {build}, rank |-> 2]
Closed == [Hackathon EXCEPT !.status = "closed", !.tags = {}]

MCContents  == {Hackathon, Job, Closed}
MCCanonical == [USA |-> "united states", Global |-> "global", US |-> "united states"]
MCFold      == [Go |-> "go", AI |-> "ai", ML |-> "ml"]

AnyFilter == [type |-> None, category |-> None, status |-> None, country |-> None,
              remote_type |-> None, tag |-> None, q |-> None]
MCFilters ==
  {[AnyFilter EXCEPT !.type = "hackathon", !.category = "jobs", !.tag = "Go"],
   [AnyFilter EXCEPT !.category = "hackathons", !.status = "active", !.q = build]}

MCProfiles ==
  {[skills |-> {"go", "ai", "ml"}, countries |-> {"US"}, remote |-> "unspecified"],
   [skills |-> {}, countries |-> {"US"}, remote |-> "remote"]}
==============================================================================
