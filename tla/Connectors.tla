----------------------------- MODULE Connectors -----------------------------
(***************************************************************************)
(* How a connector's fetch() builds the batch that run_connector stores    *)
(* (see Ingestion).  A fetch is a loop of HTTP requests: one per company   *)
(* board (greenhouse.py, lever.py), one per page of each kind (unstop.py), *)
(* one per page (devpost.py); the curated connectors make none.            *)
(*                                                                         *)
(* The listings belong to others: they change between two requests, a      *)
(* request may fail, an answer may not have the expected shape, and a      *)
(* posting may be malformed.  Which of these costs one posting, one board  *)
(* or the whole batch differs from connector to connector.                 *)
(***************************************************************************)
EXTENDS Integers, Sequences, FiniteSets

CONSTANTS
  Postings,      \* what a source may list
  Curated,       \* source |-> the items its module lists
  Companies,     \* boards a board connector asks
  UnstopPages,   \* pages at most, by kind ...
  DevpostPages,  \* ... and of the only one
  PageSize, PER_COMPANY,
  MaxListed,     \* bound on a listing ...
  MaxChanges,    \* ... and on its changes during a fetch
  None

ASSUME ConnectorsAssumption ==
  /\ Companies \in Nat \ {0} /\ UnstopPages \in [1 .. 3 -> Nat \ {0}]
  /\ DevpostPages \in Nat \ {0} /\ PageSize \in Nat \ {0}
  /\ PER_COMPANY \in Nat \ {0}
  /\ MaxListed \in Nat /\ MaxChanges \in Nat

Items ==
  [type : {"hackathon", "internship", "full_time_job"},
   experience_level : {"intern", "fresher", "mid", "senior", "unspecified"},
   remote_type : {"remote", "hybrid", "onsite", "unspecified"},
   country : {"India", "Global", None} \cup {p.country : p \in Postings}]

Boards == {"greenhouse", "lever"}
Paged  == {"unstop", "devpost"}

ASSUME NoneAssumption == None \notin {"India", "Global"}

\* A posting is known by its key.
ASSUME PostingsAssumption ==
  /\ \A p \in Postings : p.workplace \in {"remote", "hybrid", "onsite", "unspecified"}
  /\ \A p, q \in Postings : p.key = q.key => p = q

\* The curated lists give every item country="Global".
ASSUME CuratedAssumption ==
  /\ DOMAIN Curated \cap (Boards \cup Paged) = {}
  /\ \A c \in DOMAIN Curated : \A i \in Curated[c] :
       i.is \in Items /\ i.is.country = "Global"

CONNECTOR_REGISTRY == Boards \cup Paged \cup DOMAIN Curated

VARIABLES
  source,    \* whose fetch it is
  state,     \* idle, fetching, done, raised
  group,     \* the board, or the kind of opportunity
  next,      \* the page to ask for
  batch,     \* items, by group and posting
  repeated,  \* the batch has one of them twice
  asked,     \* groups that were asked
  \* the source, from outside
  listing,   \* what it lists in that group now
  steady,    \* what it has listed since the group was begun
  changes, removals

loop    == <<source, state, group, next, batch, repeated, asked>>
outside == <<listing, steady, changes, removals>>
vars    == <<loop, outside>>

\* Operators named Mutant... are not the code: each is a plausible mistake in
\* the definition after it, which the properties must be able to tell from it.

-----------------------------------------------------------------------------
(* Normalising: a title, a place and the like are sets of the words that   *)
(* the regular expressions look for.                                       *)

\* The first of these that the title shows.
classify_experience(title) ==
  IF "intern" \in title THEN "intern"
  ELSE IF "senior" \in title THEN "senior"
  ELSE IF "graduate" \in title THEN "fresher" ELSE "mid"

\* "remotely" holds "remote", but not as a word.
infer_country(place) ==
  IF "india" \in place THEN "India"
  ELSE IF place \cap {"remote", "worldwide"} # {} THEN "Global" ELSE None

Or(country, other) == IF country # None THEN country ELSE other

TypeFor(experience) ==
  IF experience = "intern" THEN "internship" ELSE "full_time_job"

Item(type, experience, remote, country) ==
  [type |-> type, experience_level |-> experience,
   remote_type |-> remote, country |-> country]

Greenhouse(p) ==
  LET exp == classify_experience(p.title)
      remote == p.place \cap {"remote", "remotely"} # {}
  IN  Item(TypeFor(exp), exp, IF remote THEN "remote" ELSE "onsite",
           Or(infer_country(p.place), IF remote THEN "Global" ELSE None))

MutantLever(p) ==
  Item(TypeFor(classify_experience(p.title)),
       IF p.internship THEN "intern" ELSE classify_experience(p.title),
       p.workplace,
       Or(infer_country(p.place),
          IF p.workplace = "remote" THEN "Global" ELSE p.country))

\* The commitment of a posting overrules its title.
Lever(p) ==
  LET exp == IF p.internship THEN "intern" ELSE classify_experience(p.title)
  IN  Item(TypeFor(exp), exp, p.workplace,
           Or(infer_country(p.place),
              IF p.workplace = "remote" THEN "Global" ELSE p.country))

Kinds == <<[type |-> "hackathon", experience |-> "unspecified"],
           [type |-> "internship", experience |-> "intern"],
           [type |-> "full_time_job", experience |-> None]>>

Online(p) == "online" \in p.place

Unstop(kind, p) ==
  Item(kind.type, Or(kind.experience, classify_experience(p.title)),
       IF Online(p) THEN "remote" ELSE "onsite", "India")

Devpost(p) ==
  Item("hackathon", "unspecified", IF Online(p) THEN "remote" ELSE "onsite",
       IF Online(p) THEN "Global" ELSE None)

Normalized(p) ==
  CASE source = "greenhouse" -> Greenhouse(p)
    [] source = "lever"      -> Lever(p)
    [] source = "unstop"     -> Unstop(Kinds[group], p)
    [] source = "devpost"    -> Devpost(p)

\* Postings a connector passes over: off its subject, or without what it
\* needs.  An id is missed by the paged connectors only when they use it.
Passed(p) ==
  \/ p.url = "missing"
  \/ source \in Boards /\ (~p.tech \/ p.id = "missing")

\* Reading it raises: KeyError for the id, ValidationError for a scheme that
\* validate_url_scheme refuses.
Raises(p) == p.id = "missing" \/ p.url = "other scheme"

-----------------------------------------------------------------------------
(* The shape of each loop                                                  *)

Groups == IF source \in Boards THEN Companies
          ELSE IF source = "unstop" THEN Len(Kinds) ELSE 1
Pages  == IF source = "unstop" THEN UnstopPages[group]
          ELSE IF source = "devpost" THEN DevpostPages ELSE 1

MutantPageOf(n) ==
  {k \in DOMAIN listing : n * PageSize < k /\ k <= (n + 1) * PageSize}

\* The positions on the n-th page; a board lists everything at once.
PageOf(n) ==
  IF source \in Boards THEN DOMAIN listing
  ELSE {k \in DOMAIN listing : (n - 1) * PageSize < k /\ k <= n * PageSize}

\* What is not passed over, and of a board the first few of it.
Kept(page) ==
  LET wanted == {k \in page : ~Passed(listing[k])}
      first  == {k \in wanted : Cardinality({j \in wanted : j <= k}) <= PER_COMPANY}
  IN  {listing[k] : k \in IF source \in Boards THEN first ELSE wanted}

Members(s) == {s[k] : k \in DOMAIN s}
Listings ==
  UNION {{s \in [1 .. n -> Postings] : \A j, k \in 1 .. n : s[j] = s[k] => j = k} :
           n \in 0 .. MaxListed}

-----------------------------------------------------------------------------
Init ==
  /\ source = None
  /\ state = "idle"
  /\ group = 0 /\ next = 0
  /\ batch = {}
  /\ repeated = FALSE
  /\ asked = {}
  /\ listing = <<>>
  /\ steady = {}
  /\ changes = 0 /\ removals = 0

\* Whatever the source lists when its group is begun.
Encounter ==
  /\ listing' \in Listings
  /\ steady' = Members(listing')
  /\ changes' = 0 /\ removals' = 0

Forget ==
  /\ listing' = <<>>
  /\ steady' = {}
  /\ changes' = 0 /\ removals' = 0

Start(c) ==
  /\ state = "idle"
  /\ source' = c
  /\ state' = "fetching"
  /\ group' = 1 /\ next' = 1
  /\ batch' = {} /\ repeated' = FALSE /\ asked' = {}
  /\ Encounter

\* The curated connectors: the list of the module.
FetchCurated(c) ==
  /\ state = "idle"
  /\ source' = c
  /\ state' = "done"
  /\ batch' = Curated[c]
  /\ repeated' = FALSE /\ asked' = {1}
  /\ UNCHANGED <<group, next, outside>>

MutantNextGroup == state' = "done" /\ UNCHANGED <<group, next>> /\ Forget

\* On to the next board or kind, or out of the loop.
NextGroup ==
  IF group < Groups
  THEN group' = group + 1 /\ next' = 1 /\ Encounter /\ UNCHANGED state
  ELSE state' = "done" /\ UNCHANGED <<group, next>> /\ Forget

MutantOnePageMore ==
  IF next <= Pages
  THEN next' = next + 1 /\ UNCHANGED <<state, group, outside>>
  ELSE NextGroup

MutantNextPage ==
  IF next < Pages THEN UNCHANGED <<state, group, next, outside>> ELSE NextGroup
NextPage ==
  IF next < Pages
  THEN next' = next + 1 /\ UNCHANGED <<state, group, outside>>
  ELSE NextGroup

Raise == state' = "raised" /\ UNCHANGED <<group, next>> /\ Forget

\* HTTPError or ValueError: the timeout, the status or the JSON.  Devpost's
\* loop has no try.
RequestFails ==
  /\ state = "fetching"
  /\ asked' = asked \cup {group}
  /\ IF source = "devpost" THEN Raise ELSE NextGroup
  /\ UNCHANGED <<source, batch, repeated>>

\* JSON that is not what it should be: only Lever looks, .get() of the
\* others raises AttributeError outside what they catch.
OddAnswer ==
  /\ state = "fetching"
  /\ asked' = asked \cup {group}
  /\ IF source = "lever" THEN NextGroup ELSE Raise
  /\ UNCHANGED <<source, batch, repeated>>

Answer ==
  /\ state = "fetching"
  /\ asked' = asked \cup {group}
  /\ LET kept == Kept(PageOf(next))
         new  == {[in |-> group, key |-> p.key, is |-> Normalized(p)] : p \in kept}
     IN  IF \E p \in kept : Raises(p)
         THEN Raise /\ UNCHANGED <<batch, repeated>>
         ELSE /\ batch' = batch \cup new
              /\ repeated' = (repeated \/ \E i \in new, j \in batch :
                                            <<i.in, i.key>> = <<j.in, j.key>>)
              /\ IF PageOf(next) = {} THEN NextGroup ELSE NextPage
  /\ UNCHANGED source

\* run_connector goes on with the batch, or records the failure.
Return ==
  /\ state \in {"done", "raised"}
  /\ state' = "idle"
  /\ source' = None
  /\ group' = 0 /\ next' = 0
  /\ batch' = {} /\ repeated' = FALSE /\ asked' = {}
  /\ UNCHANGED outside

-----------------------------------------------------------------------------
(* The source changes between two requests.                                *)

\* s with p after its first k, and s without its k-th.
With(s, k, p) ==
  [j \in 1 .. Len(s) + 1 |->
     IF j <= k THEN s[j] ELSE IF j = k + 1 THEN p ELSE s[j - 1]]
Without(s, k) == [j \in 1 .. Len(s) - 1 |-> IF j < k THEN s[j] ELSE s[j + 1]]

Changes == state = "fetching" /\ changes < MaxChanges /\ changes' = changes + 1

Post ==
  /\ Changes
  /\ Len(listing) < MaxListed
  /\ \E p \in Postings \ Members(listing), k \in 0 .. Len(listing) :
       listing' = With(listing, k, p)
  /\ UNCHANGED <<loop, steady, removals>>

Withdraw ==
  /\ Changes
  /\ \E k \in DOMAIN listing :
       /\ listing' = Without(listing, k)
       /\ steady' = steady \ {listing[k]}
  /\ removals' = removals + 1
  /\ UNCHANGED loop

Next ==
  \/ \E c \in CONNECTOR_REGISTRY \ DOMAIN Curated : Start(c)
  \/ \E c \in DOMAIN Curated : FetchCurated(c)
  \/ RequestFails \/ OddAnswer \/ Answer
  \/ Return
  \/ Post \/ Withdraw

Spec == Init /\ [][Next]_vars

-----------------------------------------------------------------------------
(* Properties                                                              *)

TypeOK ==
  /\ source \in CONNECTOR_REGISTRY \cup {None}
  /\ state \in {"idle", "fetching", "done", "raised"}
  /\ state = "fetching" => group \in 1 .. Groups /\ next \in 1 .. Pages
  /\ \A i \in batch : i.is \in Items
  /\ repeated \in BOOLEAN
  /\ asked \subseteq 1 .. group \cup {1}
  /\ listing \in Listings /\ steady \subseteq Members(listing)
  /\ changes \in 0 .. MaxChanges /\ removals \in 0 .. MaxChanges

\* "Unknown/blocked ones are skipped at runtime" (greenhouse.py 14, lever.py
\* 14): a fetch that returns has asked every board or kind, whichever failed.
EveryGroupIsAsked ==
  state = "done" /\ source \notin DOMAIN Curated => asked = 1 .. Groups

\* Within reach: on one of the pages asked for, among the first of a board.
Reach ==
  IF source \in Boards THEN Kept(DOMAIN listing)
  ELSE {listing[k] : k \in {j \in DOMAIN listing : j <= Pages * PageSize}}

Leaves == group' # group \/ state' = "done"

\* What a source has listed all the time its pages were fetched, and has not
\* pushed past the last, is in the batch, if no request failed and nothing was
\* withdrawn: postings that come meanwhile push others down, never away
\* (unstop.py 54-76, devpost.py 47-64).
WhatStaysIsFetched ==
  [][Answer /\ Leaves /\ removals = 0 =>
       \A p \in (steady \cap Reach) :
         Passed(p) \/ \E i \in batch' : i.in = group /\ i.key = p.key]_vars

\* An item twice in a batch ends the whole ingestion (see Ingestion): only a
\* listing that changed between two of its pages can do that.
OnlyChangesRepeat ==
  [][~repeated /\ repeated' => changes > 0]_vars

\* Listing and filters rely on it: a job board's internships are exactly the
\* postings for interns, and whatever is remote has a country to be found by.
ItemsAreConsistent ==
  \A i \in batch :
    /\ source \in Boards =>
         (i.is.type = "internship" <=> i.is.experience_level = "intern")
    /\ i.is.remote_type = "remote" => i.is.country # None
==============================================================================
