------------------------------ MODULE UserData ------------------------------
(***************************************************************************)
(* What users keep: the profile made on first access, their bookmarks and  *)
(* their skills (application/services/profile_service.py,                  *)
(* bookmark_service.py and the repositories below them).                   *)
(*                                                                         *)
(* A request is GET or PATCH /me, POST or DELETE /bookmarks.  Each has a   *)
(* session of its own and READ COMMITTED transactions, as in Ingestion: a  *)
(* statement sees the rows committed when it starts and its own; an INSERT *)
(* waits for a pending equal key; a DELETE waits for the rows it saw and   *)
(* then deletes those that are left, not the ones that came meanwhile.     *)
(***************************************************************************)
EXTENDS Naturals, FiniteSets

CONSTANTS
  Requests, Users, Opportunities, SkillNames, Values,
  Ops,            \* what a request can ask for
  Listed,         \* opportunities that exist
  Fold,           \* a skill name's lower-case form, as one of the names
  FoldingLookup,  \* TRUE: "where skills.name = ..." ignores case
  Rank,           \* the order sorted() puts skill names in
  FirstAccess,    \* TRUE: some users have no profile yet
  Development,    \* settings.environment = "development"
  MayClose,       \* TRUE: accounts can be closed
  MayCrash,       \* TRUE: the API process can die in mid-request
  Default, NoProfile, Unset, None

ASSUME UserDataAssumption ==
  /\ Listed \subseteq Opportunities
  /\ Fold \in [SkillNames -> SkillNames]
  /\ Rank \in [SkillNames -> Nat]
  /\ \A m, n \in SkillNames : Rank[m] = Rank[n] => m = n
  /\ FoldingLookup \in BOOLEAN /\ FirstAccess \in BOOLEAN
  /\ Development \in BOOLEAN /\ MayClose \in BOOLEAN /\ MayCrash \in BOOLEAN
  /\ Default \in Values
  /\ NoProfile \notin Values /\ Unset \notin Values
  /\ None \notin SkillNames
  /\ \A op \in Ops :
       /\ op.kind \in {"me", "patch", "add", "remove"}
       /\ op.user \in Users
       /\ op.kind \in {"add", "remove"} => op.opp \in Opportunities
       /\ op.kind = "patch" => /\ op.value \in Values \cup {Unset}
                               /\ op.skills \subseteq SkillNames
                               /\ op.replaces \in BOOLEAN

ASSUME RequestsAssumption == IsFiniteSet(Requests)

\* Rows carry the request that inserted them, as their identity.
Marks == [by: Requests, user: Users, opp: Opportunities]
Owns  == [by: Requests, user: Users, skill: SkillNames]

VARIABLES
  \* committed tables
  auth,       \* auth.users
  profile,    \* profiles: one column of each row stands for all of them
  bookmarks, skills, owned,   \* owned is user_skills
  \* one request
  op, pc,
  loaded,     \* the column as the session loaded it
  seen,       \* the rows a DELETE in progress saw
  todo,       \* skill names set_skills has not come to
  cur,        \* the skill it is adding
  reply,
  tx          \* what the open transaction wrote

tables == <<auth, profile, bookmarks, skills, owned>>
locals == <<op, loaded, seen, todo, cur, reply>>
vars   == <<tables, pc, locals, tx>>

NoTx == [auth |-> {}, created |-> {}, column |-> Unset, marks |-> {},
         unmarks |-> {}, skills |-> {}, owns |-> {}, disowns |-> {}]

User(r)  == op[r].user
Opp(r)   == op[r].opp
SameSkill(s, t) == Fold[s] = Fold[t]

MarksOf(r) == {b \in bookmarks : b.user = User(r) /\ b.opp = Opp(r)}
OwnsOf(r)  == {o \in owned : o.user = User(r)}

\* Operators named Mutant... are not the code: each is a plausible mistake in
\* the definition after it, which the properties must be able to tell from it.

MutantNextName(r, n) == TRUE

\* set_skills goes through the names in sorted order.
NextName(r, n) == \A m \in todo[r] : Rank[n] <= Rank[m]

\* The column the ORM's UPDATE sets, if it differs from the loaded one.
Dirty(r) == op[r].value # Unset /\ op[r].value # loaded[r]

-----------------------------------------------------------------------------
(* Locks                                                                   *)

WaitsFor(r, q) ==
  /\ q # r
  /\ \/ pc[r] = "ensure" /\ User(r) \in tx[q].auth
     \/ pc[r] = "create" /\ User(r) \in tx[q].created
     \/ /\ pc[r] = "insert"
        /\ \E b \in tx[q].marks \cup (tx[q].unmarks \cap bookmarks) :
             b.user = User(r) /\ b.opp = Opp(r)
     \/ pc[r] = "delete" /\ seen[r] \cap tx[q].unmarks # {}
     \/ pc[r] = "update" /\ Dirty(r) /\ tx[q].column # Unset /\ User(q) = User(r)
     \/ pc[r] = "drop" /\ seen[r] \cap tx[q].disowns # {}
     \/ pc[r] = "newSkill" /\ \E s \in tx[q].skills : SameSkill(s, cur[r])
     \/ /\ pc[r] = "own"
        /\ \E o \in tx[q].owns \cup (tx[q].disowns \cap owned) :
             o.user = User(r) /\ o.skill = cur[r]

Blocked(r) == \E q \in Requests : WaitsFor(r, q)

Deadlocked(r) ==
  \E S \in SUBSET Requests :
    /\ r \in S
    /\ \A q \in S : /\ \E p \in S : WaitsFor(q, p)
                    /\ \E p \in S : WaitsFor(p, q)

-----------------------------------------------------------------------------
Init ==
  /\ profile \in [Users -> IF FirstAccess THEN {Default, NoProfile} ELSE {Default}]
  /\ auth = IF Development THEN {u \in Users : profile[u] # NoProfile} ELSE Users
  /\ bookmarks = {}
  /\ skills = {}
  /\ owned = {}
  /\ op \in [Requests -> Ops]
  /\ pc = [r \in Requests |-> "idle"]
  /\ loaded = [r \in Requests |-> Default]
  /\ seen = [r \in Requests |-> {}]
  /\ todo = [r \in Requests |-> {}]
  /\ cur = [r \in Requests |-> None]
  /\ reply = [r \in Requests |-> "pending"]
  /\ tx = [r \in Requests |-> NoTx]

Goto(r, step)    == pc' = [pc EXCEPT ![r] = step]
Rollback(r)      == tx' = [tx EXCEPT ![r] = NoTx]
Write(r, f, val) == tx' = [tx EXCEPT ![r][f] = val]

MutantCommit(r) ==
  /\ auth' = auth \cup tx[r].auth
  /\ profile' = [u \in Users |->
                   IF u \in tx[r].created THEN Default
                   ELSE IF u = User(r) THEN tx[r].column
                   ELSE profile[u]]
  /\ bookmarks' = (bookmarks \cup tx[r].marks) \ tx[r].unmarks
  /\ skills' = skills \cup tx[r].skills
  /\ owned' = (owned \ tx[r].disowns) \cup tx[r].owns
  /\ Rollback(r)

Commit(r) ==
  /\ auth' = auth \cup tx[r].auth
  /\ profile' = [u \in Users |->
                   IF u \in tx[r].created THEN Default
                   ELSE IF u = User(r) /\ tx[r].column # Unset THEN tx[r].column
                   ELSE profile[u]]
  /\ bookmarks' = (bookmarks \cup tx[r].marks) \ tx[r].unmarks
  /\ skills' = skills \cup tx[r].skills
  /\ owned' = (owned \ tx[r].disowns) \cup tx[r].owns
  /\ Rollback(r)

\* The request is answered and its session closed.
Answer(r, how) ==
  /\ Goto(r, "done")
  /\ reply' = [reply EXCEPT ![r] = how]
  /\ seen' = [seen EXCEPT ![r] = {}]
  /\ todo' = [todo EXCEPT ![r] = {}]
  /\ cur' = [cur EXCEPT ![r] = None]
  /\ UNCHANGED <<op, loaded>>

\* An exception nobody catches: a 500, and nothing of the transaction stays.
Fail(r) == Answer(r, "error") /\ Rollback(r) /\ UNCHANGED tables

-----------------------------------------------------------------------------
(* get_or_create                                                           *)

Begin(r) ==
  /\ pc[r] = "idle"
  /\ Goto(r, CASE op[r].kind = "add" -> "find"
               [] op[r].kind = "remove" -> "scan"
               [] OTHER -> "get")
  /\ UNCHANGED <<tables, locals, tx>>

\* Where the caller of get_or_create goes on.
Resume(r) == CASE op[r].kind = "add" -> "look"
               [] op[r].kind = "patch" -> "reload"
               [] OTHER -> "reply"

GetProfile(r) ==
  /\ pc[r] = "get"
  /\ profile[User(r)] # NoProfile
  /\ Goto(r, Resume(r))
  /\ UNCHANGED <<tables, locals, tx>>

MissProfile(r) ==
  /\ pc[r] = "get"
  /\ profile[User(r)] = NoProfile
  /\ Goto(r, IF Development THEN "ensure" ELSE "create")
  /\ UNCHANGED <<tables, locals, tx>>

\* ensure_auth_user: "on conflict (id) do nothing"
EnsureAuth(r) ==
  /\ pc[r] = "ensure"
  /\ ~Blocked(r)
  /\ Write(r, "auth", {User(r)} \ auth)
  /\ Goto(r, "create")
  /\ UNCHANGED <<tables, locals>>

InsertProfile(r) ==
  /\ pc[r] = "create"
  /\ ~Blocked(r)
  /\ profile[User(r)] = NoProfile
  /\ User(r) \in auth \cup tx[r].auth
  /\ Write(r, "created", {User(r)})
  /\ Goto(r, "created")
  /\ UNCHANGED <<tables, locals>>

\* Primary key of profiles, or its foreign key to auth.users.
ProfileClash(r) ==
  /\ pc[r] = "create"
  /\ ~Blocked(r)
  /\ profile[User(r)] # NoProfile \/ User(r) \notin auth \cup tx[r].auth
  /\ Fail(r)

CommitProfile(r) ==
  /\ pc[r] = "created"
  /\ Commit(r)
  /\ Goto(r, Resume(r))
  /\ UNCHANGED locals

-----------------------------------------------------------------------------
(* POST /bookmarks                                                         *)

FindOpp(r) ==
  /\ pc[r] = "find"
  /\ IF Opp(r) \in Listed
     THEN Goto(r, "get") /\ UNCHANGED locals
     ELSE Answer(r, "not_found")
  /\ UNCHANGED <<tables, tx>>

Look(r) ==
  /\ pc[r] = "look"
  /\ IF MarksOf(r) # {}
     THEN Answer(r, "ok")
     ELSE Goto(r, "insert") /\ UNCHANGED locals
  /\ UNCHANGED <<tables, tx>>

MutantMarkFits(r) == profile[User(r)] # NoProfile
\* unique (user_id, opportunity_id), and the foreign key to profiles
MarkFits(r) == MarksOf(r) = {} /\ profile[User(r)] # NoProfile

InsertMark(r) ==
  /\ pc[r] = "insert"
  /\ ~Blocked(r)
  /\ MarkFits(r)
  /\ Write(r, "marks", {[by |-> r, user |-> User(r), opp |-> Opp(r)]})
  /\ Goto(r, "marked")
  /\ UNCHANGED <<tables, locals>>

\* IntegrityError: roll back and look for the row that was in the way.
MarkClash(r) ==
  /\ pc[r] = "insert"
  /\ ~Blocked(r)
  /\ ~MarkFits(r)
  /\ Rollback(r)
  /\ Goto(r, "again")
  /\ UNCHANGED <<tables, locals>>

MutantAgain(r) ==
  /\ pc[r] = "again"
  /\ Answer(r, "ok")
  /\ UNCHANGED <<tables, tx>>

Again(r) ==
  /\ pc[r] = "again"
  /\ Answer(r, IF MarksOf(r) # {} THEN "ok" ELSE "error")
  /\ UNCHANGED <<tables, tx>>

CommitAdd(r) == pc[r] = "marked" /\ Commit(r) /\ Answer(r, "ok")

-----------------------------------------------------------------------------
(* DELETE /bookmarks/{opportunity_id}                                      *)

ScanMarks(r) ==
  /\ pc[r] = "scan"
  /\ seen' = [seen EXCEPT ![r] = MarksOf(r)]
  /\ Goto(r, "delete")
  /\ UNCHANGED <<tables, op, loaded, todo, cur, reply, tx>>

DeleteMarks(r) ==
  /\ pc[r] = "delete"
  /\ ~Blocked(r)
  /\ Write(r, "unmarks", seen[r] \cap bookmarks)
  /\ Goto(r, "removed")
  /\ UNCHANGED <<tables, locals>>

CommitRemove(r) == pc[r] = "removed" /\ Commit(r) /\ Answer(r, "ok")

-----------------------------------------------------------------------------
(* PATCH /me                                                               *)

\* "assert profile is not None" after the second get
Reload(r) ==
  /\ pc[r] = "reload"
  /\ profile[User(r)] # NoProfile
  /\ loaded' = [loaded EXCEPT ![r] = profile[User(r)]]
  /\ Goto(r, "update")
  /\ UNCHANGED <<tables, op, seen, todo, cur, reply, tx>>

\* The row is gone: the assertion fails, or the UPDATE finds no row, or the
\* refresh after the commit does not.
LostProfile(r) ==
  /\ pc[r] \in {"reload", "update", "refresh"}
  /\ ~Blocked(r)
  /\ profile[User(r)] = NoProfile
  /\ pc[r] = "update" => Dirty(r)
  /\ Fail(r)

\* The UPDATE is flushed before the DELETE of set_skills, or else by the
\* commit.
Update(r) ==
  /\ pc[r] = "update"
  /\ ~Blocked(r)
  /\ Dirty(r) => profile[User(r)] # NoProfile
  /\ tx' = IF Dirty(r) THEN [tx EXCEPT ![r].column = op[r].value] ELSE tx
  /\ Goto(r, IF op[r].replaces THEN "dropScan" ELSE "patched")
  /\ UNCHANGED <<tables, locals>>

DropScan(r) ==
  /\ pc[r] = "dropScan"
  /\ seen' = [seen EXCEPT ![r] = OwnsOf(r)]
  /\ todo' = [todo EXCEPT ![r] = op[r].skills]
  /\ Goto(r, "drop")
  /\ UNCHANGED <<tables, op, loaded, cur, reply, tx>>

Drop(r) ==
  /\ pc[r] = "drop"
  /\ ~Blocked(r)
  /\ Write(r, "disowns", seen[r] \cap owned)
  /\ Goto(r, "skill")
  /\ UNCHANGED <<tables, locals>>

NoSkillLeft(r) ==
  /\ pc[r] = "skill"
  /\ todo[r] = {}
  /\ Goto(r, "patched")
  /\ UNCHANGED <<tables, locals, tx>>

\* "select ... where skills.name = ..." for the next name
FindSkill(r) ==
  /\ pc[r] = "skill"
  /\ \E n \in todo[r] :
       LET found == {s \in skills \cup tx[r].skills :
                       IF FoldingLookup THEN SameSkill(s, n) ELSE s = n}
       IN /\ NextName(r, n)
          /\ todo' = [todo EXCEPT ![r] = @ \ {n}]
          /\ IF found = {}
             THEN cur' = [cur EXCEPT ![r] = n] /\ Goto(r, "newSkill")
             ELSE /\ \E s \in found : cur' = [cur EXCEPT ![r] = s]
                  /\ Goto(r, "own")
  /\ UNCHANGED <<tables, op, loaded, seen, reply, tx>>

MutantSkillFits(r) == cur[r] \notin skills \cup tx[r].skills
\* unique (name), which is citext
SkillFits(r) == \A s \in skills \cup tx[r].skills : ~SameSkill(s, cur[r])

InsertSkill(r) ==
  /\ pc[r] = "newSkill"
  /\ ~Blocked(r)
  /\ SkillFits(r)
  /\ Write(r, "skills", tx[r].skills \cup {cur[r]})
  /\ Goto(r, "own")
  /\ UNCHANGED <<tables, locals>>

MutantSkillClash(r) ==
  /\ pc[r] = "newSkill"
  /\ ~Blocked(r)
  /\ ~SkillFits(r)
  /\ UNCHANGED vars

SkillClash(r) ==
  /\ pc[r] = "newSkill"
  /\ ~Blocked(r)
  /\ ~SkillFits(r)
  /\ Fail(r)

\* primary key (user_id, skill_id), and the foreign key to profiles
OwnFits(r) ==
  /\ \A o \in (OwnsOf(r) \ tx[r].disowns) \cup tx[r].owns : o.skill # cur[r]
  /\ profile[User(r)] # NoProfile

MutantOwned(r) == {[by |-> r, user |-> User(r), skill |-> cur[r]]}
Owned(r) == tx[r].owns \cup {[by |-> r, user |-> User(r), skill |-> cur[r]]}

Own(r) ==
  /\ pc[r] = "own"
  /\ ~Blocked(r)
  /\ OwnFits(r)
  /\ Write(r, "owns", Owned(r))
  /\ cur' = [cur EXCEPT ![r] = None]
  /\ Goto(r, "skill")
  /\ UNCHANGED <<tables, op, loaded, seen, todo, reply>>

OwnClash(r) ==
  /\ pc[r] = "own"
  /\ ~Blocked(r)
  /\ ~OwnFits(r)
  /\ Fail(r)

CommitPatch(r) ==
  /\ pc[r] = "patched"
  /\ Commit(r)
  /\ Goto(r, "refresh")
  /\ UNCHANGED locals

\* The profile and the skills are read and returned; GET /me ends here too.
Reply(r) ==
  /\ pc[r] \in {"reply", "refresh"}
  /\ pc[r] = "refresh" => profile[User(r)] # NoProfile
  /\ Answer(r, "ok")
  /\ UNCHANGED <<tables, tx>>

-----------------------------------------------------------------------------
(* What happens from outside                                               *)

\* Rows of u that a transaction wrote or refers to.
Holds(r, u) ==
  \/ u \in tx[r].auth \cup tx[r].created
  \/ /\ User(r) = u
     /\ \/ tx[r].column # Unset
        \/ tx[r].marks \cup tx[r].unmarks # {}
        \/ tx[r].owns \cup tx[r].disowns # {}

\* auth.users loses a row; the foreign keys say "on delete cascade".
CloseAccount(u) ==
  /\ MayClose
  /\ u \in auth
  /\ \A r \in Requests : ~Holds(r, u)
  /\ auth' = auth \ {u}
  /\ profile' = [profile EXCEPT ![u] = NoProfile]
  /\ bookmarks' = {b \in bookmarks : b.user # u}
  /\ owned' = {o \in owned : o.user # u}
  /\ UNCHANGED <<skills, pc, locals, tx>>

\* PostgreSQL fails one transaction of a deadlock.
DeadlockVictim(r) == Deadlocked(r) /\ Fail(r)

Crash(r) == MayCrash /\ pc[r] \notin {"idle", "done"} /\ Fail(r)

AllDone ==
  /\ \A r \in Requests : pc[r] = "done"
  /\ UNCHANGED vars

Step(r) ==
  \/ GetProfile(r) \/ MissProfile(r) \/ EnsureAuth(r)
  \/ InsertProfile(r) \/ ProfileClash(r) \/ CommitProfile(r)
  \/ FindOpp(r) \/ Look(r) \/ InsertMark(r) \/ MarkClash(r)
  \/ Again(r) \/ CommitAdd(r)
  \/ ScanMarks(r) \/ DeleteMarks(r) \/ CommitRemove(r)
  \/ Reload(r) \/ LostProfile(r) \/ Update(r) \/ DropScan(r) \/ Drop(r)
  \/ NoSkillLeft(r) \/ FindSkill(r) \/ InsertSkill(r) \/ SkillClash(r)
  \/ Own(r) \/ OwnClash(r) \/ CommitPatch(r) \/ Reply(r)

Next ==
  \/ \E r \in Requests : Begin(r) \/ Step(r) \/ DeadlockVictim(r) \/ Crash(r)
  \/ \E u \in Users : CloseAccount(u)
  \/ AllDone

Spec == Init /\ [][Next]_vars

\* The event loop runs every request that can go on, PostgreSQL grants a lock
\* to its waiters in turn, and the deadlock detector runs.
Fairness ==
  /\ \A r \in Requests : SF_vars(Step(r))
  /\ WF_vars(\E r \in Requests : DeadlockVictim(r))

FairSpec == Spec /\ Fairness

-----------------------------------------------------------------------------
(* Properties                                                              *)

Columns == Values \cup {Unset}
Txs == [auth: SUBSET Users, created: SUBSET Users, column: Columns,
        marks: SUBSET Marks, unmarks: SUBSET Marks, skills: SUBSET SkillNames,
        owns: SUBSET Owns, disowns: SUBSET Owns]

Steps == {"idle", "get", "ensure", "create", "created", "reply", "done",
          "find", "look", "insert", "marked", "again",
          "scan", "delete", "removed",
          "reload", "update", "dropScan", "drop", "skill", "newSkill", "own",
          "patched", "refresh"}

TypeOK ==
  /\ auth \subseteq Users
  /\ profile \in [Users -> Values \cup {NoProfile}]
  /\ bookmarks \subseteq Marks
  /\ skills \subseteq SkillNames
  /\ owned \subseteq Owns
  /\ op \in [Requests -> Ops]
  /\ pc \in [Requests -> Steps]
  /\ loaded \in [Requests -> Values]
  /\ seen \in [Requests -> SUBSET (Marks \cup Owns)]
  /\ todo \in [Requests -> SUBSET SkillNames]
  /\ cur \in [Requests -> SkillNames \cup {None}]
  /\ reply \in [Requests -> {"pending", "ok", "not_found", "error"}]
  /\ tx \in [Requests -> Txs]

\* Whatever overlaps: one profile per account, one bookmark per user and
\* opportunity, one user_skills row per user and skill, one spelling per
\* skill, each row with the row it refers to (bookmark_service.py 48-58,
\* profile_repository.py 45-58 and the constraints they run into).
RowsAreSound ==
  /\ \A u \in Users : profile[u] # NoProfile => u \in auth
  /\ \A a, b \in bookmarks : a.user = b.user /\ a.opp = b.opp => a = b
  /\ \A a, b \in owned : a.user = b.user /\ a.skill = b.skill => a = b
  /\ \A s, t \in skills : SameSkill(s, t) => s = t
  /\ \A b \in bookmarks : profile[b.user] # NoProfile /\ b.opp \in Listed
  /\ \A o \in owned : profile[o.user] # NoProfile /\ o.skill \in skills

\* A PATCH that replaces skills takes away every row it saw and puts in their
\* place one row for each name it was asked for, none lost on the way through
\* lookups, inserts and other users' inserts (profile_repository.py 45-58).
PatchReplacesWhatItSaw ==
  [][\A r \in Requests : CommitPatch(r) /\ op[r].replaces =>
       /\ seen[r] \cap owned' = {}
       /\ {Fold[o.skill] : o \in {p \in owned' : p.by = r}} =
          {Fold[n] : n \in op[r].skills}]_vars

\* Patches of different users never wait for each other in a circle when they
\* spell every skill alike: set_skills inserts in sorted order
\* (profile_repository.py 50).
SpelledAlike ==
  \A r, q \in Requests :
    op[r].kind = "patch" /\ op[q].kind = "patch" =>
      \A m \in op[r].skills, n \in op[q].skills : SameSkill(m, n) => m = n
UsersNeverDeadlock ==
  SpelledAlike =>
    \A S \in SUBSET Requests :
      S # {} /\ (\A q, p \in S : User(q) = User(p) => q = p) =>
        \E q \in S : \A p \in S : ~WaitsFor(q, p)

\* Bookmarking keeps BookmarkPromise: an add that was answered saved the pair
\* or met it saved, also after losing the race to insert it; a remove took it
\* away or it was missing meanwhile; failures changed nothing
\* (bookmark_service.py 36-64).
Wanted(r) ==
  IF op[r].kind \in {"add", "remove"}
  THEN [kind |-> op[r].kind, pair |-> <<User(r), Opp(r)>>]
  ELSE [kind |-> "other", pair |-> <<>>]
Outcome(r) ==
  IF pc[r] # "done" \/ Wanted(r).kind = "other" THEN "open"
  ELSE IF reply[r] = "ok" THEN "done" ELSE "failed"
Lacks(r) == pc[r] \in {"delete", "removed"} /\ seen[r] \cap bookmarks = {}
Wants    == [r \in Requests |-> Wanted(r)]
Saved    == {<<b.user, b.opp>> : b \in bookmarks}
Outcomes == [r \in Requests |-> Outcome(r)]
Lacked   == {r \in Requests : Lacks(r)}
Promise == INSTANCE BookmarkPromise WITH
  wants <- Wants, saved <- Saved, outcome <- Outcomes, lacked <- Lacked
BookmarksKept == Promise!Spec

\* Every request that starts is answered, deadlocks included: waiting
\* requests are released or one of them fails.
EveryRequestIsAnswered ==
  \A r \in Requests : pc[r] # "idle" ~> pc[r] = "done"

\* README 298: "a double-click or race can't 500".
NoAddFails ==
  \A r \in Requests : op[r].kind = "add" => reply[r] # "error"
==============================================================================
