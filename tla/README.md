# OpportunityHub in TLA+

Specifications of OpportunityHub's backend beside its code: what the modules model, what TLC
checks of them, and what TLAPS proves. Paths are relative to the repository; `backend/app/` and
`frontend/src/` are left out where they are clear.

OpportunityHub collects hackathons, internships and jobs from several sources (connectors), shows
them to users, and reminds users of the deadlines of what they bookmarked. It is a FastAPI backend
over PostgreSQL and Redis, a Next.js frontend that talks to it and to Supabase Auth, and a GitHub
Actions cron that calls the backend's two jobs every six hours.

## 1. Inventory

What each part keeps and does, how it meets the others, what is hard about it, and what makes it
correct.

| part | state | operations | meets | hard | correct when |
|---|---|---|---|---|---|
| Ingestion (`connectors/service.py`, `pipeline.py`) | `sources`, `opportunities`, `tags`, `opportunity_tags`, `connector_runs` | `run_all` over the registry, `run_connector`: ensure source, fetch, upsert by `(source_id, external_id)`, sync tags, one commit per connector | called by cron (`/ingest/run`) and admin (`/admin/ingest/run`); moves the deadlines the reminders read | overlapping requests on the same rows and tags, repeated items in a batch, a stale loaded copy, lock cycles, an exception or crash in mid-connector | links resolve, tags are unique up to case, hash, columns and tags of a row agree, runs and rows match, every request is answered |
| Connectors (`connectors/*.py`) | none | fetch and normalise one source: boards, kinds, pages | supply the pipeline's batches | a listing that changes between pages, failed requests, odd answers, malformed postings | what stays listed is fetched, one failing board costs no other, items are consistent |
| Reminders (`notification_service.py`) | `notifications`, `deadline_reminders_sent` | the job; list, count, mark read, mark all read | reads bookmarks and deadlines; called by cron and by hand | overlapping and repeated runs, one commit for all rows, the join read once, accounts closed meanwhile | at most one reminder per user, opportunity and event, none forgotten by a run that succeeds |
| Workflow (`.github/workflows/ingest.yml`) | none | ingestion, then the job if it succeeded | both jobs | time limits, the second step skipped | every near deadline meets a run in time |
| Bookmarks (`bookmark_service.py`) | `bookmarks` | add, remove, list, list ids | creates the profile first; feeds reminders | double clicks, add against remove, lost races | a request takes effect at one moment or not at all |
| Profiles and skills (`profile_service.py`) | `profiles`, `skills`, `user_skills`, `auth.users` in development | read (creates), patch, replace skills | bookmarks refer to profiles; recommendations read skills | first requests overlap, overlapping patches, the skills table shared by all users | rows unique and complete, a patch installs what it was asked |
| Recommendations (`recommendation_service.py`) | none | score, sort, cut | profiles, opportunities | columns and tags read by two SELECTs, caps, ties | nobody better is left out, scores in range |
| Listing, search, pagination (`opportunity_repository.py`, `core/pagination.py`) | none | filter, keyset pages, full-text search | all lists of the API; rows of the runs of ingestion | inserts and updates between pages, rows that commit long after their `created_at`, equal ones | no row twice, no old row skipped |
| Rate limiting (`core/rate_limit.py`) | Redis counters and sorted sets | fixed window (middleware), sliding window (dependency) | every request | two commands that are not one, Redis failing, window edges | never more than the budget per window while Redis works; no identity is shut out for good |
| Client IP (`core/client_ip.py`) | none | choose the client's address from trusted proxies | rate limiting | header positions, a wrong number of hops | nobody is counted under an address he wrote himself |
| Authentication (`core/security.py`) | cached signing keys | verify token, require role, job token | every route, both limiters | key rotation, tokens that expire or lose their role in the middle, fetches that fail | a token serves for its life and no longer |
| Context, errors, validators, headers (`core/*.py`, `main.py`) | none | map requests and errors | every route | which layer answers, inside which others | every answer can be traced |
| Traffic (`traffic_service.py`) | Redis set, counter, HyperLogLog | ping, stats | frontend ping | commands not in one transaction | counters only grow |
| Admin (`admin_service.py`) | none | counts, trigger ingestion | ingestion | overlap with the cron, counts by several SELECTs | the parts never exceed the total |
| Health, start-up (`health.py`, `start.sh`), seed | none | probes, migrate and serve, upsert fixed rows | | none | |
| Session and MFA (frontend) | Supabase cookies, factors, dialog state | gate protected routes, enrol, verify, remove | Supabase Auth | dialog closed between steps, assurance level changed elsewhere | no protected page below the required level, no factor left pending |
| Bookmark cache, bell, lists (frontend) | React Query cache | optimistic toggle, refetch, mark read, infinite list | the API, signing in and out | overlapping mutations and refetches, rollback to an old snapshot | the cache ends equal to the server |
| Forms (frontend) | form state | edit, submit | `PATCH /me` | none across components | |
| UI rendering | none | | | | |

`PROJECT.json` lists the same parts with their files and status, and under `hazards` each of the hard
points at its line.

## 2. Modules

| module | what it is |
|---|---|
| `Ingestion` | the pipeline: requests, connectors, the tables they share |
| `IngestionProofs` | its theorems |
| `MCIngestion` | instances for TLC, two configurations |
| `ReminderPromise` | what deadline reminders promise a user |
| `Reminders` | the reminder job and the inbox, shown to implement it |
| `RemindersProofs` | its theorems |
| `MCReminders` | instances, two configurations |
| `BookmarkPromise` | what adding and removing bookmarks promises |
| `UserData` | profiles, bookmarks and skills; its bookmarking implements `BookmarkPromise` |
| `UserDataProofs` | its theorems, the implementation among them |
| `MCUserData` | instances, three configurations |
| `RateLimit` | the two rate limiters over the Redis they share |
| `RateLimitProofs`, `MCRateLimit` | its theorems and its instance |
| `Connectors`, `ConnectorsProofs`, `MCConnectors` | the fetch of every connector over a listing that changes |
| `Catalog`, `CatalogProofs`, `MCCatalog` | the readers of opportunities: listing, search, recommendations, counts |
| `Access`, `AccessProofs`, `MCAccess` | a request through middleware, limiters and the checks of tokens |
| `BookmarkCache`, `BookmarkCacheProofs`, `MCBookmarkCache` | the bookmark buttons of a tab over the server |

How they meet: `Connectors` makes the batches that `Ingestion` stores; `Ingestion` writes the rows
that `Catalog` reads and the deadlines that `Reminders` looks at; `UserData` keeps the bookmarks that
`Reminders` joins with and `BookmarkCache` shows; `Access` is what stands before each handler, and
asks the limiters of `RateLimit`. Where two meet, the module of the one takes the other as a few
atomic actions from outside, with everything it may do: a run of `Ingestion` is `Begin` and `Commit`
in `Catalog`, a batch of `Connectors` any batch in `Ingestion`, a bookmark of `UserData` one step in
`BookmarkCache`.

### The database

`Ingestion`, `Reminders` and `UserData` share one view of PostgreSQL under READ COMMITTED, taken
from how the code uses it:

* A request is a sequence of statements. A statement sees what was committed when it starts, and what
  its own transaction wrote. Each statement, or each statement and the computation after it, is one
  action; other requests may act in between.
* What a transaction wrote and did not commit is kept per request (`wsources`, `wopps`, `wtags`;
  `wrote`; `tx`). `Commit` moves it to the tables in one step, `Abort` or `Fail` forgets it.
* Inserting a key waits while an equal key is uncommitted elsewhere, and fails if it is committed
  (`...Clash`). Updating or deleting a row waits for its lock. `WaitsFor(r, q)` says who waits for
  whom, `Blocked` guards the actions, and PostgreSQL's deadlock detector is `DeadlockVictim`.
* SQLAlchemy's session: pending objects are flushed by the next query (autoflush), an UPDATE sets only
  the columns that differ from the loaded object, a DELETE statement is sent at once.

Deletes cascade from `auth.users` (`CloseAccount`), which waits for transactions that hold rows of
the user. Crashes and failed requests roll back. The commit and the reply are one step: that a reply
is lost on its way to the client is not modelled, its retry is another request.

### Ingestion

`Start` to `Answer` is a request in `run_all`: `plan[r]` its keys, `at[r]` the key it is at.
`SelectSource`, `InsertSource` and `SourceClash` are `_ensure_source`; `Fetch` and `FetchFails` the
`try`; `Load` the SELECT of existing rows into `view` (`by_external`); `SkipInvalid`,
`SkipUnchanged`, `InsertOpp`, `InsertClash`, `UpdateOpp` the branches of the loop; `SkipRepeated`,
`LinkTag`, `MissTag`, `InsertTag`, `TagClash` are `_sync_tags` with `_get_or_create_tag` and its
`cache`; `Finish` ends the connector. `Hash(item)` stands for the SHA-256: it is the hashed fields and
how often each tag occurs, so it differs exactly when the digest's input does. An UPDATE is kept as
the columns it sets (`Keep` for the others), applied at commit to the newest row.

`tags.name` is `citext`, so its unique index ignores case; whether the look-up does depends on the
type the driver binds, and `FoldingLookup` leaves both open. The proofs hold for both.

`atOnce` is chosen from `AtOnce` in `Init`: how many requests may run at the same time. Two properties
hold only when it is 1, and a configuration that offers both 1 and more checks them beside overlap.

### Reminders

`Begin` reads the clock, `Scan` the join, `SkipSent` and `Look` are the look-up of a row in the ledger,
`Insert` the flush of its notification and ledger row (which happens at the next look-up or the
commit), `Commit` the end. `copies[k]` counts the notifications of a key. Beside the runs: bookmarks
come and go, deadlines move (what `Ingestion` does to `deadline_at`), users read, accounts close, the
clock ticks. `ReminderPromise` has one variable, the status of each `(user, opportunity, event)`;
`Shown` is the refinement mapping.

### UserData

`get_or_create` is `GetProfile`, `MissProfile`, `EnsureAuth` (development only), `InsertProfile`,
`ProfileClash`, `CommitProfile`. `FindOpp`, `Look`, `InsertMark`, `MarkClash`, `Again`, `CommitAdd` are
`BookmarkService.add`; `ScanMarks`, `DeleteMarks`, `CommitRemove` its `remove`, with the DELETE in two
steps because it waits for rows and then ignores the ones that came meanwhile. `Reload`, `Update`,
`DropScan`, `Drop`, `FindSkill`, `InsertSkill`, `Own`, `CommitPatch`, `Reply` and their clashes are
`ProfileService.update` with `set_skills`. Rows carry the request that inserted them as identity.

`BookmarkPromise` says when requests take effect. A remove may find nothing: then there was a moment
while it ran at which the pair was not saved. `lacked` records that; the mapping takes it from what
the DELETE saw and what is left of it.

### RateLimit

`Arrive`, `Incr`, `Expire` and `CounterFails` are `RateLimitMiddleware.dispatch`, whose INCR and EXPIRE
are two calls of Redis; `Enter`, `Slide` and `LogFails` are `RateLimiter.__call__`, whose four commands
are one MULTI transaction and so one step. Both read the clock first (`minute`, `second`) and reach
Redis later, at most `MaxLag` later: `Tick` waits for calls under way. A call that fails may have taken
effect or not, and the request passes. A key whose time to live is over is gone (`Counter`, `Entries`).

Two things follow from the clock being read before the call, and the properties say them.

* A request overtaken by one that has already dropped old entries does not count them. So the sliding
  budget holds of every interval of `Window - MaxLag`, and not of the whole window.
* An INCR that arrives after its window's key has expired starts the count again. So the fixed budget is
  of the requests counted while their window lasts.

### Connectors

`Start` to `Return` is one `fetch()`; `group` is the board or kind its loop is at and `next` the page.
`Answer` is a request that returned what it should, with the parsing of all its postings;
`RequestFails` an `HTTPError` or `ValueError`, `OddAnswer` JSON of another shape; `NextGroup`,
`NextPage` and `Raise` are `continue`, `break` and the exceptions that leave the loop. `Greenhouse`,
`Lever`, `Unstop` and `Devpost` are the `_normalize` functions over postings whose title and place
are the words that the regular expressions look for. `Encounter`, `Post` and `Withdraw` are what the
sources do. `removals` and `steady` remember, for the properties, what happened to the listing.

### Catalog

The reader asks (`Ask...`), gets its answer in the steps its request takes, and leaves. `ListPage` is one
request with its cursor, and the next `ListPage` the following one; `FetchForScoring` and `Recommend`
are the two SELECTs of a recommendation (rows, then their tags) with the ranking, `CountFirst` and
`CountSecond` those of the dashboard. A connector run is `Begin`, which fixes the `created_at` of its
rows, and `Commit`, which makes them visible. `First(S, n, Ahead)` is ORDER BY with LIMIT: every
choice of n rows that the order allows, since rows that tie come in any order. `Search` is one SELECT of
one moment over the committed rows: what could be said of it holds by its definition, so only `TypeOK`
covers it. `Newer` is the order
of pages, `Beyond` the keyset predicate, `Better` the stable sort by score.

### Access

One request at a time goes through `Layers`: `Arrive`, the budget (`Unmetered`, `Budget`,
`OverBudget`), `Cors`, the route's limiter (`Limiter`, `OverLimit`), the dependency that checks
(`Accept`, `Refuse`, `CheckJob`, `NoCheck`), the handler (`Handle`, `Unhandled`). `Verify` is
`SupabaseJWTVerifier.verify` with PyJWKClient's two caches: `keySet`, fetched anew for a key that it
lacks and dropped after some minutes, and `signing`, never dropped. `Elsewhere` is a verification
for any other request of the process, which is all that requests share here. `Publish`, `Rotate`,
`Withdraw` and `Demote` are Supabase's; a token issued at the moment of a change may be of either
side. `Respond` leaves the marks of the layers outside the one that answers.

### BookmarkCache

`Click` is `handleClick` with `onMutate`: it drops a fetch under way, takes the snapshot and shows the
new state. `Apply` is the server, `Succeed`, `Refused` and `Lost` are the ends of the mutation with
`onError` and `onSettled`; `Unauthorized` is a request without a session, `ApplyLate` one given up for
lost that reaches the server after all. `Mount`, `Hide` and `Collect`, `Read`, `Land`, `FetchFails`
(`TriesAgain`, then `GivesUp`) and `Age` are the query of TanStack Query 5: one retry, data stale after
a minute, data nobody shows thrown away in the end. `active` says that a button is mounted and enabled:
the cache lives in the layout and outlives the page. `Settled` is `invalidateQueries`, which drops a
fetch under way for a new one only while the query is active and has data; otherwise it marks the data,
and a fetch under way goes on. `SignOut` and `SignIn` are in this tab or another, whose cookies it
shares; `owner` says whose the data is.

Two variables remember what the properties leave out, and nothing else is left out:

* `missed`: the server changed, or may have, and no fetch was begun since. It is set by a request that
  comes late, and by a toggle settled over a fetch already answered while no button is mounted or the
  data is gone.
* `crossed`: toggles in flight whose click something other than an old answer may take back: an answer
  asked for later but read before the server applied the toggle, or read for another user; the rollback
  of another toggle; another click on the same bookmark; data thrown away.

## 3. Runs

TLC, 2 workers; every passing run is exhaustive within its constants.

| run | bounds | shows |
|---|---|---|
| `ingestion` (316 082 states) | 3 requests, 2 sources, 2 items, tags `Go`, `go`, `AI`, 3 and 2 batches | `TypeOK`, `TagLinksResolve`, `OneSpellingPerTag`, `HashNamesTheTags`, `RunsTellTheStory` under overlap, fetch failures, deadlocks and crashes |
| `ingestion_answered` (163 158) | 3 requests, one or two at a time, 2 sources with tags in opposite orders, items changed in hashed and in other columns, no crash | `EveryRequestIsAnswered`; without overlap also `HashNamesTheContent` and `RunInstallsItsBatch`: a run does what the README says of it |
| `reminders` (520 674) | 2 runs, 1 user, 2 opportunities, a clock that goes from a week ahead of a deadline to a day ahead to past, moving deadlines | `TypeOK`, `LedgerMatchesInbox`, `RunServesItsJoin`, refinement of `ReminderPromise` (`PromiseKept`) |
| `reminders_end` (37 280) | the same runs at one moment, without crashes and account closing | `EveryRunEnds` |
| `user_data` (22 992) | 3 requests of a user without a profile (read, rename, add, remove, add of an unlisted one), development mode, account closing, crashes | `TypeOK`, `RowsAreSound`, refinement of `BookmarkPromise` (`BookmarksKept`) |
| `user_data_skills` (84 020) | 3 patches of 2 users, four spellings of two skills, no crash | `RowsAreSound`, `UsersNeverDeadlock`, `PatchReplacesWhatItSaw`, `EveryRequestIsAnswered` |
| `rate_limit` (1 289 030) | 3 requests of one identity, budgets of 1, a window of 3 and a clock to 5, a lag of 1, one failing call | `TypeOK`, `BudgetsHold`, `OnlyTheRecentCount`, `CountersExpire` |
| `connectors` (189 239) | 2 boards that keep one posting, pages of one posting: 2, 3 and 3 of Unstop's kinds, 3 of Devpost's, listings of up to 3 of 4 postings, 2 changes | `TypeOK`, `EveryGroupIsAsked`, `ItemsAreConsistent`, `WhatStaysIsFetched`, `OnlyChangesRepeat` |
| `catalog` (346 622) | 3 rows, 3 runs of up to 2 rows, a clock of 2 moments, pages of 1 and 2, a pool of 2, one recommendation | `TypeOK`, `NoRowTwice`, `NothingOldIsSkipped`, `RecommendsTheBest`, `TotalsCoverTypes` |
| `access` (990 820) | one request at a time, a token's life of 2 in 4 moments, one proxy, 0 to 2 hops configured, four forwarding headers | `TypeOK`, `CountedAsServed`, `AnswersAreTraced`, `TokensServeTheirLife` |
| `bookmark_cache` (4 443 662, up to symmetry) | 2 users of a tab, 2 opportunities, 2 toggles, one lost request, buttons mounted and unmounted | `QuietCacheIsServer`, `NoAnswerUndoesAClick` |

Why the bounds are enough: conflicts are between two transactions over one key, or two transactions
over two keys taken in opposite orders. A third request is there to commit, or to leave again what
the other two meet. Two items and two tags are what an order needs; three batches of one source hold
a new, a changed, a repeated and an invalid item and names that differ in case. The clock of
`reminders` (0 to 2, a deadline at 2) passes from more than a day before a deadline to the moment from
which it counts as past. The clock of `rate_limit`
spans two fixed windows, and a sliding one that ends and begins again; with budgets of 1 three
requests are one that passes, one that exceeds and one that comes later. In `catalog`, a page of one and
a page of two leave one and no row for the next; two runs can begin before and commit after the page
that shows a third's rows, at the same `created_at` or an older one. In `connectors`, a page of one
posting makes every change of the listing cross the border of a page, and the third page is one after
the border was crossed twice. In `access`, a token issued before a rotation or a demotion lives on,
and expires, after it, within one request; hops are fewer, as many and more than proxies. In
`bookmark_cache`, two toggles are a rollback and what it tramples on, for the same opportunity or another;
users, opportunities and toggles are interchangeable in `Init`, `Next` and both properties, hence the
symmetry; the one lost request may be a toggle, its answer or a fetch, and the proofs are for any number.
What a larger instance could still change is covered by the proofs of section 5 for the invariants they name.

Fairness. Every request that can take a step eventually does: the event loop runs its coroutines, HTTP
fetches end by their timeouts, and PostgreSQL detects deadlocks (`deadlock_timeout`). In `Ingestion`,
where each request runs once, weak fairness is enough. `Reminders` and `UserData` assume strong
fairness of a request's steps: a run can wait for a lock again and again while others take it,
and PostgreSQL queues the waiters of a lock. Starting a request, crashing, closing an account and the
clock have no fairness. The other modules claim no liveness and assume none: `Connectors` and `Catalog`
end by loops over finite lists, and what `BookmarkCache` says of a quiet tab is an invariant.

### Where code and documents part

`user_data_first` is expected to end with a violation: `README.md:298` says "a double-click or race
can't 500", and the first two requests of a user race to insert the profile outside `add`'s `try`.

Read in the code while modelling it, and without a run of their own:

* `connectors/service.py:10-11` says that a failing source does not abort the others; only what `fetch`
  raises is caught (`Abort` and `InsertClash` of `Ingestion`). One malformed link or a missing id
  makes `fetch` raise, and costs the batch of the source (`Raise` of `Connectors`), while
  `docs/04-scraper-architecture.md:84-85` says that invalid items are skipped and do not fail the run.
* `README.md:290` says unchanged items are skipped; overlapping updates may leave a row whose hash is not
  of its columns, and an item is then skipped that the row does not show. `HashNamesTheContent` holds
  without overlap only.
* `README.md:96` promises a `connector_runs` row for every run; it rolls back with a run that fails
  outside `fetch`.
* `docs/05-notification-architecture.md:53-54` says `ON CONFLICT DO NOTHING`; the plain INSERT fails the
  whole run when another run was faster (`LedgerClash` of `Reminders`).
* `profile_repository.py:46` says the skills are replaced; overlapping patches leave the union.
* An add that lost the race to insert a bookmark finds nothing if the row is removed before it looks
  again (`Again` in `UserData`).
* `api/v1/opportunities.py:48` says that a type narrows within a category; `_apply_filters` lets it
  replace the category (`TypesOf` of `Catalog`).
* `core/security_headers.py:1` says "every response"; the 500 of an unhandled exception is answered outside
  all middleware (`Unhandled` of `Access`).
* `api/v1/bookmarks.py:38` says "ids the user has bookmarked"; after signing out and in within a minute
  the tab still shows those of the other user (`owner` of `BookmarkCache`).
* `use-bookmarks.ts:40` refetches after a toggle, but only while a button is mounted. Two toggles are in
  flight; the first is settled and its fetch read before the second is applied; the page is left; the
  second is settled, which only marks the data; the fetch lands and the tab shows ids without the second
  bookmark for a minute (`Settled` and `missed` of `BookmarkCache`).
* `use-bookmarks.ts:29` cancels the fetch under way at a click. The fetch that another toggle's end begins
  after the click may be read before the click is applied, and undoes it on the screen until its own end
  (`Read` and `crossed` of `BookmarkCache`).
* `core/security.py:119` compares job tokens as strings: one with characters beyond ASCII makes
  `compare_digest` raise, answered 500 where the next line says 401 (`CheckJob` of `Access`).

## 4. Mutants

Each property of a passing run comes with a plausible mistake in one definition (`Mutant...`, placed
before the definition it replaces) under which TLC finds the property violated in the same
configuration. They are listed in `PROJECT.json` and are no part of the specifications.

## 5. Proofs

TLAPS proves every safety property and every action property of the passing runs, and both
refinements, for all values of the constants: any number of requests, users, rows, tags, identities,
windows, pages and toggles. Each proofs module extends its module and rests on that module's named
assumptions, which TLC evaluates in every run:

* the types of constants, and sentinels that are no data: `IngestionAssumption`, `BatchesAssumption`,
  `PlansAssumption` (no key twice in a plan: the registry is a dict), `SentinelAssumption`,
  `RemindersAssumption`, `NoKeyAssumption`, `UserDataAssumption`, `RateLimitAssumption` (a call takes
  less than a window to reach Redis), `ConnectorsAssumption`, `CatalogAssumption`,
  `AccessAssumption`, `PrefixesAssumption`, `LimitedAssumption`, `BookmarkCacheAssumption`, and each
  `NoneAssumption`;
* what counting and ordering need: finitely many requests (`RequestsAssumption` of `RateLimit` and
  `UserData`), external ids (`ExternalIdsAssumption`) and rows;
* what the sources give: tags and a rank between 0 and 100 (`ContentsAssumption`), postings known by
  their keys (`PostingsAssumption`), curated items that are well formed and none of a fetched
  source (`CuratedAssumption`).

None of the properties is inductive as it stands, but for a few types. What each proof adds, and why:

* `IngestionProofs`
  * `TypeCorrect`. Indexing `plan`, `batch` and an item's tags is typed only if `at`, `pos` and `ti`
    are in range where the program counter says they are used. `Typed` adds this (`AtKey`, `AtTag`),
    that `view` holds rows of the current source (`Loaded`), and that a row being updated exists
    (`Founded`), since `After` reads its columns.
  * `TagsResolve` and `TagsAreSpelledOnce`, from `Sound`. A transaction's links and cache are to tags
    that are committed or its own (`OwnTags`), and two transactions never hold tags equal up to case
    (`Apart`), because inserting one waits for the other. A rollback then takes links and tags away
    together.
  * `HashesNameTheTags`, from `Spelled`: between the DELETE and the last link of `_sync_tags` the
    pending row's tags are those of the item's prefix already walked (`SpelledAt`), so at commit they
    are all of them.
  * `HashesNameTheContent` and `RunsInstall`, from `Touched` and `Exact`. A transaction writes only
    rows of its source that its batch has named so far. When requests do not overlap, the loaded copy
    of a row is what the commit would make of it (`ExactAt`), so setting only the columns that differ
    from the copy leaves the item's columns, and the last item that named the row is the one whose
    hash it has. `OneRuns` says that requests do not overlap.
  * `TheRunsTell`, from `Told`: the rows of `connector_runs` are of keys passed, one each (`Logged`),
    a pending row has one writer (`Locked`), a transaction has counted as created exactly the rows
    that it is about to add (`CountsFresh`), and so the counts add up to the rows (`Tally`).
* `RemindersProofs`
  * `Invariance` of `IInv`: types, no key pending in two runs, a pending key neither in the ledger nor
    of a closed account, a look-up's key not yet pending in its run, a row of the join left, pending or
    in the ledger unless its account is closed.
  * `TypeCorrect`, `NeverTwice` (`LedgerMatchesInbox`), `EveryRowIsServed` (`RunServesItsJoin`) follow;
    `KeepsThePromise` shows each step of the runs to be a step of `ReminderPromise` or a stutter.
* `UserDataProofs`
  * `TypeCorrect` and `RowsStaySound`. A commit could repeat a row. What a transaction wrote fits the
    committed tables (`Fitting`) and what any other wrote (`Apart`): an INSERT checks the first and
    waits for the second. What it waits for depends on how far each request is and on what it may
    have written by then (`InStep`, `Wrote`).
  * `PatchReplaces`, from `PInv`: the names asked for are those of the rows written, those to come and
    the one in hand (`Underway`), and rows seen are of requests that had committed (`Dated`), so none
    of them is a row of its own.
  * `NoCircleOfUsers`. Requests of different users wait only for skills inserted by a patch. It has
    inserted them in order (`Sorted`), so whoever waits waits for one whose skill in hand is later, and
    a finite set of requests has a last one.
  * `KeepsThePromise`: under the mapping `Promise`, a step of a request settles it as
    `BookmarkPromise` allows, or changes nothing of what that sees.
* `RateLimitProofs`
  * `WithinBudgets` (`BudgetsHold`). Fixed: a counter outlives its window, and while the window lasts it is at
    least the number admitted (`CountersCount`). Sliding: an entry stays for a window after its
    request (`Remembered`), and a call is at most `MaxLag` late (`Staged`), so whoever is let pass has
    found all that passed in the interval.
  * `TurnedAwayForTheRecent`, `CountersGetTheirEnd`, `TypeCorrect`: what is in the log is of requests that
    passed by it, and the log lives a window beyond them (`LogIsOfRequests`). `CountersExpire` says that
    only a failure of Redis can leave a counter without a time to live; what becomes of
    one that a failure did leave is outside the property (its key names a window, and is not used
    after it).
* `ConnectorsProofs`
  * `AllAreAsked`, `Consistency`, `TypeCorrect`, from `Asking` and what the loop has behind it.
  * `StayersAreFetched` and `OnlyChangesDuplicate` say what one answer adds, and follow from what the pages
    before it held: while nothing changed, the group's items stand on those pages (`OnPages`), and
    while nothing was withdrawn, what stayed on them was taken (`NoneMissed`).
* `CatalogProofs`
  * `PagesNeverRepeat`, `PagesNeverSkip`: a commit takes no row away and changes no `created_at`, so a
    cursor is beyond nothing shown (`Paged`), and what was there and fits is shown or still to be found
    (`StillFound`).
  * `BestAreRecommended`: between the two SELECTs, a candidate that was there since the first is in
    the pool as it is, or the pool is full of rows as recent (`Pooled`).
  * `TotalsAreEnough`: rows do not go between the two counts (`Covered`). `TypeCorrect`.
* `AccessProofs`
  * `ServedAsCounted`: a limiter that could not verify a token, while the keys could be fetched, has met one
    that nothing after it will verify (`Doomed`), so nobody is served as a user who was not counted as
    one; the lemmas on `get_client_ip` say whose address is counted, for every chain of proxies.
  * `TokensServe`: what a token says was true when it was issued (`Issued`), so a role or a key it relies on
    went later. `Traced`, `TypeCorrect`.
* `BookmarkCacheProofs`
  * `QuietIsServer`: an answer under way is what the server has when no toggle is in flight (`Fresh`), as
    a toggle's end begins the fetch anew, or comes before the answer is read, or sets `missed`.
  * `ClicksStay` (`NoAnswerUndoesAClick`): a fetch under way was begun after every toggle in flight. An
    answer to land then agrees with every click that is not crossed (`AnswerAgrees`): it was read for the
    same user after the toggle was applied, when the server had what was clicked (`ServerAgrees`), and
    nothing could change that since (`NoRivals`: a second toggle of the bookmark crosses both).

Model-checked only: liveness (`EveryRequestIsAnswered` of `Ingestion` and `UserData`, `EveryRunEnds` of
`Reminders`), which needs fairness and ENABLED. No module uses RECURSIVE; properties of recursively
computed data are not proved anywhere, as no property here is about any.

## 6. Not modelled, and the plan

Not modelled, beside what section 2 and `PROJECT.json` say of each part:

* Traffic counters: single Redis commands, best effort, of which nothing is claimed.
* The cron: its calls are made in any order and overlap in `Ingestion` and `Reminders`; when GitHub runs
  it, and that it skips the reminders of a cycle whose ingestion failed, is not stated as a property.
* Sign-in and MFA: the state is Supabase's, and a model of the dialog would be one of that service.
* Forms, rendering, seed data: sequential, without state that outlives them.
* Text: HTML, dates, the validators of strings and lists, the encoding of cursors, full-text ranking, token
  cryptography. Each is a value or a small set of words where a property needs it.

What could still be proved:

1. What composes the modules: that a connector's committed run, as `Ingestion` has it, is one that
   `Catalog` takes from outside (rows come with one `created_at` and none goes), and that a batch of
   `Connectors` is one that `Ingestion` accepts.
2. What a larger claim would need: `HashNamesTheContent` for requests that overlap on different sources,
   and the fixed budget with its exact bound for calls that arrive after their window.
3. Which of two requests that wait for each other can go on: the safety half of
   `EveryRequestIsAnswered`, that whoever cannot step waits or is on a circle.
