------------------------------ MODULE Ingestion ------------------------------
(***************************************************************************)
(* POST /ingest/run and POST /admin/ingest/run: requests that walk through *)
(* the connector registry (connectors/service.py, run_all) and upsert what *)
(* each connector fetches (connectors/pipeline.py, run_connector), one     *)
(* READ COMMITTED transaction per connector.                               *)
(*                                                                         *)
(* The database is what the code in src/ relies on: committed tables, and  *)
(* per transaction the rows it has written and not committed.  A unique    *)
(* index makes an INSERT wait for an uncommitted equal key and fail on a   *)
(* committed one; an UPDATE waits for the row's lock and then applies its  *)
(* SET clause to the newest committed version.                             *)
(*                                                                         *)
(* What a source returns is any batch of Batches[key]: sources change      *)
(* between fetches, repeat items across pages, and hold invalid ones.      *)
(***************************************************************************)
EXTENDS Naturals, Sequences, FiniteSets

CONSTANTS
  Requests,       \* the ingest requests (cron, retries of it, admin refresh)
  Connectors,     \* keys of CONNECTOR_REGISTRY
  Plans,          \* what keys can be: the registry order, or <<only>>
  ExternalIds,    \* opportunities.external_id
  Fields,         \* columns written by _apply_fields ...
  HashedFields,   \* ... and those content_hash covers
  Values,         \* the values of a column
  TagNames,       \* tag names, stripped and not empty
  Fold,           \* a tag name's lower-case form, as one of the names
  FoldingLookup,  \* TRUE: "where tags.name = ..." ignores case, like the index
  Batches,        \* Batches[key]: the item lists a fetch can return
  AtOnce,         \* how many requests may run at once: one of these numbers
  MayCrash,       \* TRUE: the API process can die in mid-request
  NoRow, NoWrite, Keep

ASSUME IngestionAssumption ==
  /\ HashedFields \subseteq Fields
  /\ Fold \in [TagNames -> TagNames]
  /\ FoldingLookup \in BOOLEAN
  /\ AtOnce \subseteq Nat \ {0}
  /\ MayCrash \in BOOLEAN
  /\ Keep \notin Values

\* NormalizedOpportunity, with its is_valid() as a field.
Items == [id: ExternalIds, valid: BOOLEAN,
          content: [Fields -> Values], tags: Seq(TagNames)]

ASSUME BatchesAssumption ==
  \A c \in Connectors : \A b \in Batches[c] : b \in Seq(Items)

ASSUME ExternalIdsAssumption == IsFiniteSet(ExternalIds)

ASSUME PlansAssumption ==
  \A p \in Plans :
    /\ p \in Seq(Connectors \cup {"unknown"})
    /\ \A i, j \in DOMAIN p : p[i] = p[j] => i = j

\* Operators named Mutant... are not the code: each is a plausible mistake in
\* the definition after it, which the properties must be able to tell from it.

\* Hash(item) is the digest of the hashed fields and the sorted tag list; the
\* sorted list is told apart by how often each name occurs in it.
Hash(item) ==
  [fields |-> [f \in HashedFields |-> item.content[f]],
   tags   |-> [t \in TagNames |->
                 Cardinality({i \in DOMAIN item.tags : item.tags[i] = t})]]

Hashes  == [fields: [HashedFields -> Values], tags: [TagNames -> Nat]]
Rows    == [content: [Fields -> Values], hash: Hashes, tags: SUBSET TagNames]
Writes  == [set: [Fields -> Values \cup {Keep}], hash: Hashes,
            tags: SUBSET TagNames]
RowKeys == Connectors \X ExternalIds

ASSUME SentinelAssumption == NoRow \notin Rows /\ NoWrite \notin Writes

VARIABLES
  \* committed tables
  sources,    \* keys of the sources table
  opps,       \* opportunities and their opportunity_tags
  tags,       \* names in the tags table
  runs,       \* connector_runs
  atOnce,     \* chosen once: how many requests may run at once
  \* one request's place in run_all and run_connector
  pc, plan, at, batch, pos, ti, view, cache, stats, reply,
  \* rows its open transaction wrote
  wsources, wopps, wtags

tables  == <<sources, opps, tags, runs>>
written == <<wsources, wopps, wtags>>
place   == <<atOnce, plan, at, batch, pos, ti, view, cache, stats, reply>>
vars    == <<tables, pc, place, written>>

Key(r)   == plan[r][at[r]]
Over(r)  == at[r] > Len(plan[r])
Item(r)  == batch[r][pos[r]]
Slot(r)  == <<Key(r), Item(r).id>>
Name(r)  == Item(r).tags[ti[r]]

NoView  == [i \in ExternalIds |-> NoRow]
NoStats == [created |-> 0, updated |-> 0, failed |-> 0]
Steps   == {"idle", "next", "newSource", "fetch", "load", "item", "tag",
            "newTag", "done"}
Running(r) == pc[r] \notin {"idle", "done"}

-----------------------------------------------------------------------------
(* Locks.  Every lock is exclusive and held until commit or rollback.      *)

SameTag(s, t) == Fold[s] = Fold[t]
Visible(r)    == tags \cup wtags[r]

Valid(r)   == pc[r] = "item" /\ pos[r] <= Len(batch[r]) /\ Item(r).valid
IsNew(r)   == Valid(r) /\ view[r][Item(r).id] = NoRow
Differs(r) == /\ Valid(r)
              /\ view[r][Item(r).id] # NoRow
              /\ view[r][Item(r).id].hash # Hash(Item(r))

WaitsFor(r, q) ==
  /\ q # r
  /\ \/ pc[r] = "newSource" /\ Key(r) \in wsources[q]
     \/ (IsNew(r) \/ Differs(r)) /\ wopps[q][Slot(r)] # NoWrite
     \/ pc[r] = "newTag" /\ \E s \in wtags[q] : SameTag(s, Name(r))

Blocked(r) == \E q \in Requests : WaitsFor(r, q)

\* r is on a cycle of waiting transactions: each member of S waits for one of
\* S and is waited for by one of S (a transaction waits for one holder).
Deadlocked(r) ==
  \E S \in SUBSET Requests :
    /\ r \in S
    /\ \A q \in S : /\ \E p \in S : WaitsFor(q, p)
                    /\ \E p \in S : WaitsFor(p, q)

-----------------------------------------------------------------------------
Init ==
  /\ sources = {}
  /\ opps = [k \in RowKeys |-> NoRow]
  /\ tags = {}
  /\ runs = {}
  /\ atOnce \in AtOnce
  /\ pc = [r \in Requests |-> "idle"]
  /\ plan \in [Requests -> Plans]
  /\ at = [r \in Requests |-> 1]
  /\ batch = [r \in Requests |-> <<>>]
  /\ pos = [r \in Requests |-> 1]
  /\ ti = [r \in Requests |-> 1]
  /\ view = [r \in Requests |-> NoView]
  /\ cache = [r \in Requests |-> {}]
  /\ stats = [r \in Requests |-> NoStats]
  /\ reply = [r \in Requests |-> "pending"]
  /\ wsources = [r \in Requests |-> {}]
  /\ wopps = [r \in Requests |-> [k \in RowKeys |-> NoWrite]]
  /\ wtags = [r \in Requests |-> {}]

Goto(r, step) == pc' = [pc EXCEPT ![r] = step]

\* The open transaction ends: its writes are no longer pending, and the locals
\* of run_connector are gone.
EndTx(r) ==
  /\ batch' = [batch EXCEPT ![r] = <<>>]
  /\ pos' = [pos EXCEPT ![r] = 1]
  /\ ti' = [ti EXCEPT ![r] = 1]
  /\ view' = [view EXCEPT ![r] = NoView]
  /\ cache' = [cache EXCEPT ![r] = {}]
  /\ stats' = [stats EXCEPT ![r] = NoStats]
  /\ wsources' = [wsources EXCEPT ![r] = {}]
  /\ wopps' = [wopps EXCEPT ![r] = [k \in RowKeys |-> NoWrite]]
  /\ wtags' = [wtags EXCEPT ![r] = {}]

\* An exception in run_connector outside the try around fetch leaves run_all:
\* the session rolls back, the request answers 500, later keys are not run.
Abort(r) ==
  /\ Goto(r, "done")
  /\ reply' = [reply EXCEPT ![r] = "error"]
  /\ EndTx(r)
  /\ UNCHANGED <<tables, atOnce, plan, at>>

\* Row k once r's writes are applied to its newest committed version.
After(r, k) ==
  IF wopps[r][k] = NoWrite THEN opps[k]
  ELSE [content |-> [f \in Fields |-> IF wopps[r][k].set[f] = Keep
                                      THEN opps[k].content[f]
                                      ELSE wopps[r][k].set[f]],
        hash |-> wopps[r][k].hash,
        tags |-> wopps[r][k].tags]

MutantRunRow(r, status, found) ==
  [request |-> r, key |-> Key(r), status |-> "running", found |-> found,
   created |-> stats[r].created, updated |-> stats[r].updated,
   failed |-> stats[r].failed]

RunRow(r, status, found) ==
  [request |-> r, key |-> Key(r), status |-> status, found |-> found,
   created |-> stats[r].created, updated |-> stats[r].updated,
   failed |-> stats[r].failed]

\* session.commit() at the end of a connector, whose connector_runs row goes
\* from "running" to its final status in the same transaction.
Commit(r, status, found) ==
  /\ sources' = sources \cup wsources[r]
  /\ opps' = [k \in RowKeys |-> After(r, k)]
  /\ tags' = tags \cup wtags[r]
  /\ runs' = runs \cup {RunRow(r, status, found)}
  /\ EndTx(r)
  /\ at' = [at EXCEPT ![r] = @ + 1]
  /\ Goto(r, "next")

-----------------------------------------------------------------------------
(* run_all                                                                 *)

Start(r) ==
  /\ pc[r] = "idle"
  /\ Cardinality({q \in Requests : Running(q)}) < atOnce
  /\ Goto(r, "next")
  /\ UNCHANGED <<tables, place, written>>

Answer(r) ==
  /\ pc[r] = "next"
  /\ Over(r)
  /\ reply' = [reply EXCEPT ![r] = "ok"]
  /\ Goto(r, "done")
  /\ UNCHANGED <<tables, atOnce, plan, at, batch, pos, ti, view, cache, stats,
                 written>>

\* RunStats(source=key, error="unknown connector")
SkipUnknown(r) ==
  /\ pc[r] = "next"
  /\ ~Over(r)
  /\ Key(r) \notin Connectors
  /\ at' = [at EXCEPT ![r] = @ + 1]
  /\ UNCHANGED <<tables, pc, atOnce, plan, batch, pos, ti, view, cache, stats,
                 reply, written>>

-----------------------------------------------------------------------------
(* run_connector: _ensure_source, fetch, and the SELECT of existing rows   *)

SelectSource(r) ==
  /\ pc[r] = "next"
  /\ ~Over(r)
  /\ Key(r) \in Connectors
  /\ Goto(r, IF Key(r) \in sources THEN "fetch" ELSE "newSource")
  /\ UNCHANGED <<tables, place, written>>

InsertSource(r) ==
  /\ pc[r] = "newSource"
  /\ ~Blocked(r)
  /\ Key(r) \notin sources
  /\ wsources' = [wsources EXCEPT ![r] = @ \cup {Key(r)}]
  /\ Goto(r, "fetch")
  /\ UNCHANGED <<tables, place, wopps, wtags>>

MutantSourceClash(r) ==
  /\ pc[r] = "newSource"
  /\ ~Blocked(r)
  /\ Key(r) \in sources
  /\ UNCHANGED vars

\* unique (key): another request inserted the source after the SELECT.
SourceClash(r) ==
  /\ pc[r] = "newSource"
  /\ ~Blocked(r)
  /\ Key(r) \in sources
  /\ Abort(r)

Fetch(r) ==
  /\ pc[r] = "fetch"
  /\ \E b \in Batches[Key(r)] : batch' = [batch EXCEPT ![r] = b]
  /\ Goto(r, "load")
  /\ UNCHANGED <<tables, atOnce, plan, at, pos, ti, view, cache, stats, reply,
                 written>>

MutantFetchFails(r) ==
  /\ pc[r] = "fetch"
  /\ at' = [at EXCEPT ![r] = @ + 1]
  /\ EndTx(r)
  /\ Goto(r, "next")
  /\ UNCHANGED <<tables, atOnce, plan, reply>>

\* The only exception run_connector catches: the run is recorded as failed.
FetchFails(r) ==
  /\ pc[r] = "fetch"
  /\ Commit(r, "failed", 0)
  /\ UNCHANGED <<atOnce, plan, reply>>

Load(r) ==
  /\ pc[r] = "load"
  /\ view' = [view EXCEPT ![r] = [i \in ExternalIds |-> opps[<<Key(r), i>>]]]
  /\ Goto(r, "item")
  /\ UNCHANGED <<tables, atOnce, plan, at, batch, pos, ti, cache, stats, reply,
                 written>>

-----------------------------------------------------------------------------
(* run_connector: the loop over the fetched items                          *)

Count(r, what) == stats' = [stats EXCEPT ![r][what] = @ + 1]

NextItem(r) == pos' = [pos EXCEPT ![r] = @ + 1]

\* The item's row is written; its tags follow, one at a time.
ToTags(r) ==
  IF Item(r).tags = <<>>
  THEN NextItem(r) /\ UNCHANGED <<pc, ti>>
  ELSE Goto(r, "tag") /\ ti' = [ti EXCEPT ![r] = 1] /\ UNCHANGED pos

MutantSkipInvalid(r) ==
  /\ pc[r] = "item"
  /\ pos[r] <= Len(batch[r])
  /\ ~Item(r).valid
  /\ Count(r, "failed")
  /\ pos' = [pos EXCEPT ![r] = Len(batch[r]) + 1]
  /\ UNCHANGED <<tables, pc, atOnce, plan, at, batch, ti, view, cache, reply,
                 written>>

SkipInvalid(r) ==
  /\ pc[r] = "item"
  /\ pos[r] <= Len(batch[r])
  /\ ~Item(r).valid
  /\ Count(r, "failed")
  /\ NextItem(r)
  /\ UNCHANGED <<tables, pc, atOnce, plan, at, batch, ti, view, cache, reply,
                 written>>

SkipUnchanged(r) ==
  /\ Valid(r)
  /\ ~IsNew(r)
  /\ ~Differs(r)
  /\ NextItem(r)
  /\ UNCHANGED <<tables, pc, atOnce, plan, at, batch, ti, view, cache, stats,
                 reply, written>>

MutantVacant(r) == TRUE
Vacant(r) == opps[Slot(r)] = NoRow /\ wopps[r][Slot(r)] = NoWrite

MutantItemWrite(r, set) ==
  [set |-> set, hash |-> Hash(Item(r)),
   tags |-> IF opps[Slot(r)] = NoRow THEN {} ELSE opps[Slot(r)].tags]

\* The columns of the item's row; _sync_tags begins by deleting its tags.
ItemWrite(r, set) == [set |-> set, hash |-> Hash(Item(r)), tags |-> {}]

\* by_external is not told of the new row: a repetition of the item in the
\* batch is taken for new again.
InsertOpp(r) ==
  /\ IsNew(r)
  /\ ~Blocked(r)
  /\ Vacant(r)
  /\ wopps' = [wopps EXCEPT ![r][Slot(r)] = ItemWrite(r, Item(r).content)]
  /\ Count(r, "created")
  /\ ToTags(r)
  /\ UNCHANGED <<tables, atOnce, plan, at, batch, view, cache, reply, wsources,
                 wtags>>

\* unique (source_id, external_id)
InsertClash(r) ==
  /\ IsNew(r)
  /\ ~Blocked(r)
  /\ ~Vacant(r)
  /\ Abort(r)

\* The ORM's UPDATE sets the columns whose value differs from the loaded one.
Changed(r, f) == Item(r).content[f] # view[r][Item(r).id].content[f]
SetBefore(r, f) ==
  IF wopps[r][Slot(r)] = NoWrite THEN Keep ELSE wopps[r][Slot(r)].set[f]

MutantSetClause(r) ==
  [f \in Fields |->
     IF Changed(r, f) /\ f # CHOOSE g \in HashedFields : TRUE
     THEN Item(r).content[f] ELSE SetBefore(r, f)]

SetClause(r) ==
  [f \in Fields |-> IF Changed(r, f) THEN Item(r).content[f]
                                     ELSE SetBefore(r, f)]

\* The loaded object takes the new values, so view does.
UpdateOpp(r) ==
  /\ Differs(r)
  /\ ~Blocked(r)
  /\ wopps' = [wopps EXCEPT ![r][Slot(r)] = ItemWrite(r, SetClause(r))]
  /\ view' = [view EXCEPT ![r][Item(r).id] =
                [content |-> Item(r).content, hash |-> Hash(Item(r)),
                 tags |-> {}]]
  /\ Count(r, "updated")
  /\ ToTags(r)
  /\ UNCHANGED <<tables, atOnce, plan, at, batch, cache, reply, wsources,
                 wtags>>

Finish(r) ==
  /\ pc[r] = "item"
  /\ pos[r] > Len(batch[r])
  /\ Commit(r, IF stats[r].failed = 0 THEN "success" ELSE "partial",
            Len(batch[r]))
  /\ UNCHANGED <<atOnce, plan, reply>>

-----------------------------------------------------------------------------
(* _sync_tags and _get_or_create_tag                                       *)

\* An earlier tag of the item has the same lower-case form.
Repeated(r) == \E j \in 1 .. ti[r] - 1 : SameTag(Item(r).tags[j], Name(r))

\* The rows tag_cache or "where tags.name = name" gives for the current name.
Found(r) ==
  IF \E s \in cache[r] : SameTag(s, Name(r))
  THEN {s \in cache[r] : SameTag(s, Name(r))}
  ELSE {s \in Visible(r) : IF FoldingLookup THEN SameTag(s, Name(r))
                                            ELSE s = Name(r)}

AfterTag(r) ==
  IF ti[r] < Len(Item(r).tags)
  THEN ti' = [ti EXCEPT ![r] = @ + 1] /\ Goto(r, "tag") /\ UNCHANGED pos
  ELSE NextItem(r) /\ Goto(r, "item") /\ UNCHANGED ti

MutantCached(r, s) == [q \in Requests |-> cache[q] \cup {s}]
Cached(r, s) == [cache EXCEPT ![r] = @ \cup {s}]

MutantUnused(r) == Name(r) \notin Visible(r)
Unused(r) == \A s \in Visible(r) : ~SameTag(s, Name(r))

Link(r, s) == [wopps EXCEPT ![r][Slot(r)].tags = @ \cup {s}]

SkipRepeated(r) ==
  /\ pc[r] = "tag"
  /\ Repeated(r)
  /\ AfterTag(r)
  /\ UNCHANGED <<tables, atOnce, plan, at, batch, view, cache, stats, reply,
                 written>>

LinkTag(r) ==
  /\ pc[r] = "tag"
  /\ ~Repeated(r)
  /\ \E s \in Found(r) : wopps' = Link(r, s) /\ cache' = Cached(r, s)
  /\ AfterTag(r)
  /\ UNCHANGED <<tables, atOnce, plan, at, batch, view, stats, reply, wsources,
                 wtags>>

MissTag(r) ==
  /\ pc[r] = "tag"
  /\ ~Repeated(r)
  /\ Found(r) = {}
  /\ Goto(r, "newTag")
  /\ UNCHANGED <<tables, place, written>>

InsertTag(r) ==
  /\ pc[r] = "newTag"
  /\ ~Blocked(r)
  /\ Unused(r)
  /\ wtags' = [wtags EXCEPT ![r] = @ \cup {Name(r)}]
  /\ wopps' = Link(r, Name(r))
  /\ cache' = Cached(r, Name(r))
  /\ AfterTag(r)
  /\ UNCHANGED <<tables, atOnce, plan, at, batch, view, stats, reply,
                 wsources>>

\* unique (name), which is citext
TagClash(r) ==
  /\ pc[r] = "newTag"
  /\ ~Blocked(r)
  /\ ~Unused(r)
  /\ Abort(r)

-----------------------------------------------------------------------------
(* What happens to a request from outside                                  *)

\* PostgreSQL fails one transaction of a deadlock.
DeadlockVictim(r) == Deadlocked(r) /\ Abort(r)

Crash(r) == MayCrash /\ Running(r) /\ Abort(r)

\* Every request has been answered; nothing is left to do.
AllDone ==
  /\ \A r \in Requests : pc[r] = "done"
  /\ UNCHANGED vars

Step(r) ==
  \/ Answer(r) \/ SkipUnknown(r)
  \/ SelectSource(r) \/ InsertSource(r) \/ SourceClash(r)
  \/ Fetch(r) \/ FetchFails(r) \/ Load(r)
  \/ SkipInvalid(r) \/ SkipUnchanged(r)
  \/ InsertOpp(r) \/ InsertClash(r) \/ UpdateOpp(r) \/ Finish(r)
  \/ SkipRepeated(r) \/ LinkTag(r) \/ MissTag(r)
  \/ InsertTag(r) \/ TagClash(r)

Next ==
  \/ \E r \in Requests :
       Start(r) \/ Step(r) \/ DeadlockVictim(r) \/ Crash(r)
  \/ AllDone

Spec == Init /\ [][Next]_vars

\* The event loop runs every request that can go on, fetches end by their
\* HTTP timeouts, and the deadlock detector runs; arrivals and crashes owe
\* nothing.
Fairness ==
  /\ \A r \in Requests : WF_vars(Step(r))
  /\ WF_vars(\E r \in Requests : DeadlockVictim(r))

FairSpec == Spec /\ Fairness

-----------------------------------------------------------------------------
(* Properties                                                              *)

RunRows == [request: Requests, key: Connectors,
            status: {"success", "partial", "failed"}, found: Nat,
            created: Nat, updated: Nat, failed: Nat]

TypeOK ==
  /\ sources \subseteq Connectors
  /\ opps \in [RowKeys -> Rows \cup {NoRow}]
  /\ tags \subseteq TagNames
  /\ runs \subseteq RunRows
  /\ pc \in [Requests -> Steps]
  /\ plan \in [Requests -> Plans]
  /\ at \in [Requests -> Nat \ {0}]
  /\ batch \in [Requests -> Seq(Items)]
  /\ pos \in [Requests -> Nat \ {0}]
  /\ ti \in [Requests -> Nat \ {0}]
  /\ view \in [Requests -> [ExternalIds -> Rows \cup {NoRow}]]
  /\ cache \in [Requests -> SUBSET TagNames]
  /\ stats \in [Requests -> [created: Nat, updated: Nat, failed: Nat]]
  /\ reply \in [Requests -> {"pending", "ok", "error"}]
  /\ wsources \in [Requests -> SUBSET Connectors]
  /\ wopps \in [Requests -> [RowKeys -> Writes \cup {NoWrite}]]
  /\ wtags \in [Requests -> SUBSET TagNames]

\* Every tag an opportunity is linked to is a row of the tags table.  A tag
\* found in tag_cache was found or inserted by this very transaction, so it
\* cannot be one whose INSERT was rolled back (pipeline.py 45-56, 102).
TagLinksResolve ==
  \A k \in RowKeys : opps[k] # NoRow => opps[k].tags \subseteq tags

\* No two tags differ in case only, whatever transactions insert the same
\* name at once and whatever the lookup makes of case (pipeline.py 45-56).
OneSpellingPerTag ==
  \A s, t \in tags : SameTag(s, t) => s = t

\* The tags linked to an opportunity are those its content_hash was computed
\* from, also when overlapping requests updated the row from different
\* batches: _sync_tags deletes and relinks under the lock of the row's UPDATE
\* (pipeline.py 80-91, 135-138).
HashNamesTheTags ==
  \A k \in RowKeys : opps[k] # NoRow =>
    {Fold[t] : t \in opps[k].tags} =
    {Fold[t] : t \in {n \in TagNames : opps[k].hash.tags[n] > 0}}

\* When requests do not overlap, the hashed columns of an opportunity are
\* those its content_hash was computed from: the premise of "unchanged hash,
\* nothing to do" (pipeline.py 126-140).
HashNamesTheContent ==
  atOnce = 1 =>
    \A k \in RowKeys : opps[k] # NoRow =>
      opps[k].hash.fields = [f \in HashedFields |-> opps[k].content[f]]

\* Each opportunity of a source was counted as created by exactly one
\* committed run of it: none is lost, counted twice or written by a run that
\* left no connector_runs row (pipeline.py 134, 142-149).
Created(c, n) ==
  {p \in runs \X (1 .. n) : p[1].key = c /\ p[2] <= p[1].created}
CreatedAreCounted ==
  \A c \in Connectors :
    LET stored == {i \in ExternalIds : opps[<<c, i>>] # NoRow}
    IN Cardinality(Created(c, Cardinality(ExternalIds) + 1))
         = Cardinality(stored)

\* A request leaves one connector_runs row for each known key it is past,
\* fetch failures included, and none for the key it is at or failed at nor for
\* those after it (service.py 13-20, pipeline.py 106-113, 142-149).
RunsOf(r, c) == {q \in runs : q.request = r /\ q.key = c}
RunsMatchProgress ==
  \A r \in Requests : \A i \in DOMAIN plan[r] :
    plan[r][i] \in Connectors =>
      Cardinality(RunsOf(r, plan[r][i])) = IF i < at[r] THEN 1 ELSE 0

\* The connector_runs table tells what happened: both of the above.
RunsTellTheStory == CreatedAreCounted /\ RunsMatchProgress

\* When requests do not overlap, a finished run leaves every valid
\* item's last occurrence in the table, hashed columns and all, and leaves
\* the rows its batch does not name alone (pipeline.py 117-140).
LastOf(r, id) ==
  {i \in DOMAIN batch[r] :
     /\ batch[r][i].valid /\ batch[r][i].id = id
     /\ \A j \in DOMAIN batch[r] :
          j > i => ~(batch[r][j].valid /\ batch[r][j].id = id)}
Installs(r) ==
  \A k \in RowKeys :
    LET last == IF k[1] = Key(r) THEN LastOf(r, k[2]) ELSE {}
    IN /\ last = {} => opps'[k] = opps[k]
       /\ \A i \in last :
            /\ opps'[k] # NoRow
            /\ opps'[k].hash = Hash(batch[r][i])
            /\ \A f \in HashedFields :
                 opps'[k].content[f] = batch[r][i].content[f]
RunInstallsItsBatch ==
  [][atOnce = 1 => \A r \in Requests : Finish(r) => Installs(r)]_vars

\* Every request that starts is answered, whatever locks it meets: waiting
\* requests are released or fail (pipeline.py, service.py 7-20).
EveryRequestIsAnswered ==
  \A r \in Requests : pc[r] = "next" ~> pc[r] = "done"
=============================================================================
