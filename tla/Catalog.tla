------------------------------- MODULE Catalog -------------------------------
(***************************************************************************)
(* The readers of the opportunities table: the paged listing               *)
(* (opportunity_repository.py, opportunity_service.py), full-text search,  *)
(* recommendations (recommendation_service.py) and the dashboard's counts  *)
(* (admin_service.py), while connector runs go on inserting and updating.  *)
(*                                                                         *)
(* What makes reading hard: created_at defaults to now(), the START of the *)
(* run's transaction.  All rows of a run share it, and they appear when    *)
(* the run commits, long after younger rows of quicker runs.  Each SELECT  *)
(* reads what is committed at that moment, and several requests, or        *)
(* several SELECTs of one, make up what a reader is told.                  *)
(*                                                                         *)
(* There is one reader, which does one thing after the other: readers      *)
(* change nothing, so they do not meet.  Ingestion is modelled in module   *)
(* Ingestion; here a run is its start and its commit.                      *)
(***************************************************************************)
EXTENDS Integers, FiniteSets

CONSTANTS
  Rows,          \* ids of opportunities; uuids are compared like numbers
  MaxRuns,       \* bound on the transactions of connector runs
  MaxBatch,      \* bound on the rows one of them writes
  Contents,      \* what the columns and tags of a row may be
  Filters,       \* queries of the listing
  Profiles,      \* whom to recommend to
  Canonical,     \* country |-> lower case, aliases resolved
  Fold,          \* tag |-> lower case
  PageSizes, PoolSize, AnswerSize,
  SKILL_CAP,
  MaxTime,       \* bound on the clock
  None           \* no row, no filter, no cursor, SQL null

ASSUME CatalogAssumption ==
  /\ Rows \subseteq Nat /\ IsFiniteSet(Rows)
  /\ PageSizes \subseteq Nat \ {0}
  /\ PoolSize \in Nat \ {0} /\ AnswerSize \in Nat \ {0}
  /\ SKILL_CAP \in Nat \ {0}
  /\ MaxTime \in Nat /\ MaxRuns \in Nat /\ MaxBatch \in Nat
  /\ None \notin Nat \cup Contents \cup Filters \cup Profiles

SKILL_WEIGHT   == 60
COUNTRY_WEIGHT == 20
REMOTE_WEIGHT  == 20
GLOBAL_COUNTRIES ==
  {"global", "worldwide", "remote", "anywhere", "international", "online"}

Types == {"hackathon", "competition", "internship", "full_time_job",
          "research_program"}
CATEGORY_TYPES ==
  [hackathons |-> {"hackathon", "competition"},
   jobs |-> {"internship", "full_time_job", "research_program"}]

\* Columns a filter compares with one value, countries without case;
\* remote_type stands for difficulty and experience_level too.
Columns == {"status", "country", "remote_type"}

ASSUME ContentsAssumption ==
  \A c \in Contents : c.type \in Types /\ IsFiniteSet(c.tags) /\ c.rank \in 0 .. 100

Versions == [at : 0 .. MaxTime, is : Contents]
Cursors  == [at : 0 .. MaxTime, id : Rows]

ASSUME NoneAssumption == None \notin Versions \cup Cursors

VARIABLES
  now,
  table,     \* committed rows: created_at and content
  open,      \* open transactions, by the time they began at
  runs,      \* transactions so far
  \* the reader
  doing,     \* what it asked for, or what it was last answered
  query,     \* the filter, the searched word or the profile
  cursor,    \* of the next page
  size,      \* limit
  seen,      \* rows of the pages before the last ...
  page,      \* ... and of the last one
  pool,      \* candidates, with the columns as they were read
  answer,    \* search and recommendations: row |-> its score
  counts,    \* by type, and in all
  steady     \* rows that were there when it asked and still fit since

base   == <<now, table, open, runs>>
reader == <<doing, query, cursor, size, seen, page, pool, answer, counts>>
vars   == <<base, reader, steady>>

There   == {r \in Rows : table[r] # None}
At(r)   == table[r].at
Is(r)   == table[r].is

\* Operators named Mutant... are not the code: each is a plausible mistake in
\* the definition after it, which the properties must be able to tell from it.

-----------------------------------------------------------------------------
(* Order by ... limit n: n of S, none left out that is ahead of one taken. *)
(* Rows that tie come in any order.                                        *)

Least(m, n) == IF m < n THEN m ELSE n

First(S, n, Ahead(_, _)) ==
  {T \in SUBSET S : /\ Cardinality(T) = Least(n, Cardinality(S))
                    /\ \A t \in T, s \in S \ T : ~Ahead(s, t)}

MutantNewer(r, q) == At(r) > At(q)
\* created_at desc, id desc
Newer(r, q) == At(r) > At(q) \/ (At(r) = At(q) /\ r > q)
Later(r, q) == At(r) > At(q)

-----------------------------------------------------------------------------
(* The listing                                                             *)

MutantBeyond(c, r) == At(r) <= c.at
\* The keyset predicate.
Beyond(c, r) == At(r) < c.at \/ (At(r) = c.at /\ r < c.id)

\* A type given with a category replaces it.
TypesOf(f) ==
  IF f.type # None THEN {f.type}
  ELSE IF f.category # None THEN CATEGORY_TYPES[f.category] ELSE Types

Matches(f, c) ==
  /\ c.type \in TypesOf(f)
  /\ \A k \in Columns : f[k] \in {None, c[k]}
  /\ f.tag \in {None} \cup c.tags
  /\ f.q \in {None} \cup c.words

-----------------------------------------------------------------------------
(* Scoring                                                                 *)

Matched(p, tags) == {t \in tags : Fold[t] \in p.skills}

CountryMatches(p, c) ==
  /\ p.countries # {} /\ c.country # None
  /\ Canonical[c.country] \in
       GLOBAL_COUNTRIES \cup {Canonical[k] : k \in p.countries}

RemoteMatches(p, c) ==
  p.remote \notin {None, "unspecified"} /\ c.remote_type = p.remote

MutantScore(p, c, tags) ==
  (Cardinality(Matched(p, tags)) * SKILL_WEIGHT) \div SKILL_CAP
  + (IF CountryMatches(p, c) THEN COUNTRY_WEIGHT ELSE 0)
  + (IF RemoteMatches(p, c) THEN REMOTE_WEIGHT ELSE 0)

\* Columns and tags of an opportunity may have been read one after the other.
Score(p, c, tags) ==
  (Least(Cardinality(Matched(p, tags)), SKILL_CAP) * SKILL_WEIGHT) \div SKILL_CAP
  + (IF CountryMatches(p, c) THEN COUNTRY_WEIGHT ELSE 0)
  + (IF RemoteMatches(p, c) THEN REMOTE_WEIGHT ELSE 0)

-----------------------------------------------------------------------------
Init ==
  /\ now = 0
  /\ table = [r \in Rows |-> None]
  /\ open = [t \in 0 .. MaxTime |-> 0]
  /\ runs = 0
  /\ doing = "nothing"
  /\ query = None
  /\ cursor = None
  /\ size = 0
  /\ seen = {} /\ page = {}
  /\ pool = <<>> /\ answer = <<>>
  /\ counts = [types |-> [t \in Types |-> 0], total |-> 0]
  /\ steady = {}

-----------------------------------------------------------------------------
(* Connector runs, from outside                                            *)

Begin ==
  /\ runs < MaxRuns
  /\ runs' = runs + 1
  /\ open' = [open EXCEPT ![now] = @ + 1]
  /\ UNCHANGED <<now, table, reader, steady>>

\* Inserted rows get the transaction's time; updated ones keep theirs.
After(w, t) ==
  [r \in Rows |->
     IF r \notin DOMAIN w THEN table[r]
     ELSE [at |-> IF r \in There THEN At(r) ELSE t, is |-> w[r]]]

\* A listed row fits while it matches, a candidate while it is unchanged.
Fits(r, c) == IF doing = "listing" THEN Matches(query, c) ELSE c = Is(r)

Commit(t) ==
  /\ open[t] > 0
  /\ \E S \in SUBSET Rows : \E w \in [S -> Contents] :
       /\ Cardinality(S) \in 1 .. MaxBatch
       /\ table' = After(w, t)
       /\ steady' = {r \in steady : r \in S => Fits(r, w[r])}
  /\ open' = [open EXCEPT ![t] = @ - 1]
  /\ UNCHANGED <<now, runs, reader>>

Tick ==
  /\ now < MaxTime
  /\ now' = now + 1
  /\ UNCHANGED <<table, open, runs, reader, steady>>

-----------------------------------------------------------------------------
(* The reader                                                              *)

Ask(what, q, n, fitting) ==
  /\ doing = "nothing"
  /\ doing' = what
  /\ query' = q
  /\ size' = n
  /\ steady' = fitting
  /\ UNCHANGED <<base, cursor, seen, page, pool, answer, counts>>

AskListing ==
  \E f \in Filters, n \in PageSizes :
    Ask("listing", f, n, {r \in There : Matches(f, Is(r))})

Found == {r \in There : /\ Matches(query, Is(r))
                        /\ cursor = None \/ Beyond(cursor, r)}

MutantFetched(n) == n
\* One row more than the page holds tells whether there are more.
Fetched(n) == n + 1

\* The request for the next page: one SELECT, its first rows and the cursor.
ListPage ==
  /\ doing = "listing"
  /\ \E rows \in First(Found, Fetched(size), Newer) :
     \E data \in First(rows, size, Newer) :
       /\ seen' = seen \cup page
       /\ page' = data
       /\ IF Cardinality(rows) > size
          THEN /\ \E last \in data :
                    /\ \A r \in data \ {last} : Newer(r, last)
                    /\ cursor' = [at |-> At(last), id |-> last]
               /\ UNCHANGED doing
          ELSE cursor' = None /\ doing' = "listed"
  /\ UNCHANGED <<base, query, size, pool, answer, counts, steady>>

\* Ranked by relevance, then recent first.
Relevant(r, q) ==
  \/ Is(r).rank > Is(q).rank
  \/ Is(r).rank = Is(q).rank /\ Later(r, q)

\* One SELECT: search_vector is kept in step with the row by a trigger.
Search ==
  /\ doing = "nothing"
  /\ \E word \in UNION {c.words : c \in Contents} :
     \E rows \in First({r \in There : word \in Is(r).words}, AnswerSize, Relevant) :
       /\ query' = word
       /\ answer' = [r \in rows |-> Is(r).rank]
  /\ doing' = "searched"
  /\ steady' = There
  /\ size' = AnswerSize
  /\ UNCHANGED <<base, cursor, seen, page, pool, counts>>

\* get_or_create has returned the profile (see UserData).
AskRecommendations ==
  \E p \in Profiles : Ask("scoring", p, AnswerSize, There)

Active == {r \in There : Is(r).status = "active"}

FetchForScoring ==
  /\ doing = "scoring"
  /\ \E rows \in First(Active, PoolSize, Later) :
       pool' = [r \in rows |-> Is(r)]
  /\ doing' = "ranking"
  /\ UNCHANGED <<base, query, cursor, size, seen, page, answer, counts, steady>>

\* The tags of the pool are a second SELECT.
Scored(r) == Score(query, pool[r], Is(r).tags)

MutantBetter(r, q) == Later(r, q)
\* A stable sort by score of a pool ordered by created_at.
Better(r, q) ==
  Scored(r) > Scored(q) \/ (Scored(r) = Scored(q) /\ Later(r, q))

Recommend ==
  /\ doing = "ranking"
  /\ \E rows \in First(DOMAIN pool, size, Better) :
       answer' = [r \in rows |-> Scored(r)]
  /\ doing' = "recommended"
  /\ UNCHANGED <<base, query, cursor, size, seen, page, pool, counts, steady>>

OfType(t) == {r \in There : Is(r).type = t}

AskAnalytics == Ask("counting", None, 0, {})

MutantOrder == <<"total", "types">>
\* analytics: the SELECT by type is made first, the keyword arguments after it.
Order == <<"types", "total">>

Count(step, next) ==
  /\ counts' = IF Order[step] = "types"
               THEN [counts EXCEPT !.types = [t \in Types |-> Cardinality(OfType(t))]]
               ELSE [counts EXCEPT !.total = Cardinality(There)]
  /\ doing' = next
  /\ UNCHANGED <<base, query, cursor, size, seen, page, pool, answer, steady>>

CountFirst  == doing = "counting" /\ Count(1, "totalling")
CountSecond == doing = "totalling" /\ Count(2, "counted")

\* Nothing of a request is left for the next.
Leave ==
  /\ doing \in {"listed", "searched", "recommended", "counted"}
  /\ doing' = "nothing"
  /\ query' = None
  /\ cursor' = None
  /\ size' = 0
  /\ seen' = {} /\ page' = {}
  /\ pool' = <<>> /\ answer' = <<>>
  /\ counts' = [types |-> [t \in Types |-> 0], total |-> 0]
  /\ steady' = {}
  /\ UNCHANGED base

Next ==
  \/ Begin \/ \E t \in 0 .. MaxTime : Commit(t)
  \/ Tick
  \/ AskListing \/ ListPage
  \/ Search
  \/ AskRecommendations \/ FetchForScoring \/ Recommend
  \/ AskAnalytics \/ CountFirst \/ CountSecond
  \/ Leave

Spec == Init /\ [][Next]_vars

-----------------------------------------------------------------------------
(* Properties                                                              *)

TypeOK ==
  /\ now \in 0 .. MaxTime
  /\ table \in [Rows -> Versions \cup {None}]
  /\ open \in [0 .. MaxTime -> Nat] /\ runs \in 0 .. MaxRuns
  /\ doing \in {"nothing", "listing", "listed", "searched", "scoring", "ranking",
                "recommended", "counting", "totalling", "counted"}
  /\ cursor \in Cursors \cup {None}
  /\ size \in Nat
  /\ seen \subseteq There /\ page \subseteq There
  /\ DOMAIN pool \subseteq There
  /\ DOMAIN answer \subseteq There /\ \A r \in DOMAIN answer : answer[r] \in 0 .. 100
  /\ counts.types \in [Types -> Nat] /\ counts.total \in Nat
  /\ steady \subseteq There

\* README 294: paging "doesn't skip/duplicate rows when data is inserted
\* mid-scroll".  No duplicates: what a page shows is older, or of a smaller id
\* at the same time, than all of the pages before it, whatever is committed in
\* between (opportunity_repository.py 65-78).
NoRowTwice == \A r \in seen, q \in page : Newer(r, q)

\* ... and no skips: a row that was there when the first page was asked for,
\* and has matched since, is on a page when there is no next one
\* (opportunity_repository.py 65-82, opportunity_service.py 27).
NothingOldIsSkipped == doing = "listed" => steady \subseteq seen \cup page

Full == Cardinality(DOMAIN answer) = AnswerSize

\* "Highest score first": an opportunity that was active and the same since
\* the request began is left out only for as many as asked for that score at
\* least as high, or for a pool of as recent ones (opportunity_repository.py
\* 101-110, recommendation_service.py 64-87).
RecommendsTheBest ==
  doing = "recommended" =>
    \A r \in (steady \cap Active) \ DOMAIN answer :
      \/ /\ Full
         /\ \A q \in DOMAIN answer :
              answer[q] >= Score(query, Is(r), Is(r).tags)
      \/ /\ r \notin DOMAIN pool /\ Cardinality(DOMAIN pool) = PoolSize
         /\ \A q \in DOMAIN pool : At(q) >= At(r)

\* The dashboard never shows more opportunities by type than in all, although
\* runs commit between the two SELECTs (admin_service.py 28-38).
TotalsCoverTypes ==
  doing = "counted" =>
    counts.types["hackathon"] + counts.types["competition"]
    + counts.types["internship"] + counts.types["full_time_job"]
    + counts.types["research_program"] <= counts.total
==============================================================================
