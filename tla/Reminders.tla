------------------------------ MODULE Reminders ------------------------------
(***************************************************************************)
(* POST /notifications/run: generate_deadline_reminders and the inbox it   *)
(* fills (application/services/notification_service.py).                   *)
(*                                                                         *)
(* A run reads the clock, joins bookmarks with opportunities whose         *)
(* deadline is near, and for each row looks the (user, opportunity, event) *)
(* up in the ledger deadline_reminders_sent and adds a notification and a  *)
(* ledger row; one commit ends it.  The look-up of a row flushes what the  *)
(* row before it added, so ledger rows are inserted one by one and stay    *)
(* uncommitted until the end.  Runs overlap: the cron's, its retries, and  *)
(* one begun by hand.  Meanwhile users bookmark and unbookmark, read their *)
(* inbox and close their accounts, and ingestion moves deadlines.          *)
(***************************************************************************)
EXTENDS Integers, FiniteSets

CONSTANTS
  Users, Opportunities,
  Runs,           \* calls of the job that can be under way at once
  Day, Week,      \* the look-ahead of the two events, in clock units
  MaxTime,        \* bound on the clock
  Deadlines,      \* values of opportunities.deadline_at that ingestion sets
  NoDeadline,     \* deadline_at is null
  NoKey,
  MayCrash,       \* TRUE: the API process can die in mid-run
  MayClose        \* TRUE: accounts can be closed

ASSUME RemindersAssumption ==
  /\ Day \in Nat /\ Week \in Nat /\ MaxTime \in Nat
  /\ Deadlines \subseteq Nat
  /\ NoDeadline \notin Nat
  /\ MayCrash \in BOOLEAN /\ MayClose \in BOOLEAN

Events == {"deadline_24h", "deadline_7d"}
Keys   == Users \X Opportunities \X Events
Pairs  == Users \X Opportunities

ASSUME NoKeyAssumption == NoKey \notin Keys

VARIABLES
  now,          \* datetime.now(UTC)
  accounts,     \* users whose profiles row exists
  bookmarks,    \* bookmarks
  deadline,     \* opportunities.deadline_at
  ledger,       \* deadline_reminders_sent
  copies,       \* notifications: how many rows there are for a key ...
  read,         \* ... and the keys whose rows have read_at set
  \* one run of the job
  pc, asOf, rows, left, key, wrote

people == <<accounts, bookmarks>>
tables == <<ledger, copies, read>>
run    == <<asOf, rows, left, key, wrote>>
vars   == <<now, people, deadline, tables, pc, run>>

Goto(r, step) == pc' = [pc EXCEPT ![r] = step]

\* Operators named Mutant... are not the code: each is a plausible mistake in
\* the definition after it, which the properties must be able to tell from it.

MutantEvent(row, time) ==
  IF row[3] - time <= Day THEN "deadline_24h" ELSE "deadline_changed"

\* The event of a joined row <<user, opportunity, deadline>> as of a time.
Event(row, time) ==
  IF row[3] - time <= Day THEN "deadline_24h" ELSE "deadline_7d"
KeyOf(row, time) == <<row[1], row[2], Event(row, time)>>

\* The join: bookmarked, and deadline_at in (time, time + Week].
Near(time) ==
  {<<p[1], p[2], deadline[p[2]]>> :
     p \in {b \in bookmarks : /\ deadline[b[2]] # NoDeadline
                              /\ deadline[b[2]] > time
                              /\ deadline[b[2]] <= time + Week}}

\* Inserting a ledger row waits for an uncommitted equal one.
WaitsFor(r, q) == q # r /\ pc[r] = "insert" /\ key[r] \in wrote[q]
MutantBlocked(r) == FALSE
Blocked(r) == \E q \in Runs : WaitsFor(r, q)
Deadlocked(r) ==
  \E S \in SUBSET Runs :
    /\ r \in S
    /\ \A q \in S : /\ \E p \in S : WaitsFor(q, p)
                    /\ \E p \in S : WaitsFor(p, q)

-----------------------------------------------------------------------------
Init ==
  /\ now = 0
  /\ accounts = Users
  /\ bookmarks = {}
  /\ deadline \in [Opportunities -> Deadlines \cup {NoDeadline}]
  /\ ledger = {}
  /\ copies = [k \in Keys |-> 0]
  /\ read = {}
  /\ pc = [r \in Runs |-> "idle"]
  /\ asOf = [r \in Runs |-> 0]
  /\ rows = [r \in Runs |-> {}]
  /\ left = [r \in Runs |-> {}]
  /\ key = [r \in Runs |-> NoKey]
  /\ wrote = [r \in Runs |-> {}]

\* The run's locals and its uncommitted rows are gone.
EndRun(r) ==
  /\ Goto(r, "idle")
  /\ asOf' = [asOf EXCEPT ![r] = 0]
  /\ rows' = [rows EXCEPT ![r] = {}]
  /\ left' = [left EXCEPT ![r] = {}]
  /\ key' = [key EXCEPT ![r] = NoKey]
  /\ wrote' = [wrote EXCEPT ![r] = {}]

\* An exception: the request answers 500 and nothing of the run is kept.
Abort(r) == EndRun(r) /\ UNCHANGED <<now, people, deadline, tables>>

-----------------------------------------------------------------------------
(* generate_deadline_reminders                                             *)

Begin(r) ==
  /\ pc[r] = "idle"
  /\ asOf' = [asOf EXCEPT ![r] = now]
  /\ Goto(r, "scan")
  /\ UNCHANGED <<now, people, deadline, tables, rows, left, key, wrote>>

Scan(r) ==
  /\ pc[r] = "scan"
  /\ rows' = [rows EXCEPT ![r] = Near(asOf[r])]
  /\ left' = [left EXCEPT ![r] = Near(asOf[r])]
  /\ Goto(r, "look")
  /\ UNCHANGED <<now, people, deadline, tables, asOf, key, wrote>>

MutantSkipSent(r) ==
  /\ pc[r] = "look"
  /\ \E row \in left[r] : KeyOf(row, asOf[r]) \in ledger
  /\ left' = [left EXCEPT ![r] = {}]
  /\ UNCHANGED <<now, people, deadline, tables, pc, asOf, rows, key, wrote>>

\* The join has no order: any row can be next.
SkipSent(r) ==
  /\ pc[r] = "look"
  /\ \E row \in left[r] :
       /\ KeyOf(row, asOf[r]) \in ledger
       /\ left' = [left EXCEPT ![r] = @ \ {row}]
  /\ UNCHANGED <<now, people, deadline, tables, pc, asOf, rows, key, wrote>>

Look(r) ==
  /\ pc[r] = "look"
  /\ \E row \in left[r] :
       /\ KeyOf(row, asOf[r]) \notin ledger
       /\ key' = [key EXCEPT ![r] = KeyOf(row, asOf[r])]
       /\ left' = [left EXCEPT ![r] = @ \ {row}]
  /\ Goto(r, "insert")
  /\ UNCHANGED <<now, people, deadline, tables, asOf, rows, wrote>>

Insert(r) ==
  /\ pc[r] = "insert"
  /\ ~Blocked(r)
  /\ key[r] \notin ledger
  /\ key[r][1] \in accounts
  /\ wrote' = [wrote EXCEPT ![r] = @ \cup {key[r]}]
  /\ key' = [key EXCEPT ![r] = NoKey]
  /\ Goto(r, "look")
  /\ UNCHANGED <<now, people, deadline, tables, asOf, rows, left>>

MutantLedgerClash(r) ==
  /\ pc[r] = "insert"
  /\ ~Blocked(r)
  /\ key[r] \in ledger
  /\ UNCHANGED vars

\* Primary key of deadline_reminders_sent: another run committed it first.
LedgerClash(r) ==
  /\ pc[r] = "insert"
  /\ ~Blocked(r)
  /\ key[r] \in ledger
  /\ Abort(r)

\* Foreign key to profiles: the user is gone since the join.
UserGone(r) ==
  /\ pc[r] = "insert"
  /\ ~Blocked(r)
  /\ key[r][1] \notin accounts
  /\ Abort(r)

Commit(r) ==
  /\ pc[r] = "look"
  /\ left[r] = {}
  /\ ledger' = ledger \cup wrote[r]
  /\ copies' = [k \in Keys |-> copies[k] + (IF k \in wrote[r] THEN 1 ELSE 0)]
  /\ EndRun(r)
  /\ UNCHANGED <<now, people, deadline, read>>

DeadlockVictim(r) == Deadlocked(r) /\ Abort(r)

Crash(r) == MayCrash /\ pc[r] # "idle" /\ Abort(r)

-----------------------------------------------------------------------------
(* The inbox, and what goes on beside the runs                             *)

MutantMarkRead(u) ==
  /\ \E k \in Keys :
       /\ k[1] = u
       /\ copies[k] > 0
       /\ read' = IF k \in read THEN read \ {k} ELSE read \cup {k}
  /\ UNCHANGED <<now, people, deadline, ledger, copies, pc, run>>

MarkRead(u) ==
  /\ \E k \in Keys : k[1] = u /\ copies[k] > 0 /\ read' = read \cup {k}
  /\ UNCHANGED <<now, people, deadline, ledger, copies, pc, run>>

MarkAllRead(u) ==
  /\ read' = read \cup {k \in Keys : k[1] = u /\ copies[k] > 0}
  /\ UNCHANGED <<now, people, deadline, ledger, copies, pc, run>>

AddBookmark(u, o) ==
  /\ u \in accounts
  /\ bookmarks' = bookmarks \cup {<<u, o>>}
  /\ UNCHANGED <<now, accounts, deadline, tables, pc, run>>

RemoveBookmark(u, o) ==
  /\ bookmarks' = bookmarks \ {<<u, o>>}
  /\ UNCHANGED <<now, accounts, deadline, tables, pc, run>>

\* "on delete cascade" from the user's row.  The delete waits for
\* transactions that hold a row referring to the profile.
CloseAccount(u) ==
  /\ MayClose
  /\ u \in accounts
  /\ \A r \in Runs : \A k \in wrote[r] : k[1] # u
  /\ accounts' = accounts \ {u}
  /\ bookmarks' = {b \in bookmarks : b[1] # u}
  /\ ledger' = {k \in ledger : k[1] # u}
  /\ copies' = [k \in Keys |-> IF k[1] = u THEN 0 ELSE copies[k]]
  /\ read' = {k \in read : k[1] # u}
  /\ UNCHANGED <<now, deadline, pc, run>>

\* A connector's commit (see Ingestion) moved an opportunity's deadline.
MoveDeadline(o) ==
  /\ \E d \in Deadlines \cup {NoDeadline} :
       deadline' = [deadline EXCEPT ![o] = d]
  /\ UNCHANGED <<now, people, tables, pc, run>>

Tick ==
  /\ now < MaxTime
  /\ now' = now + 1
  /\ UNCHANGED <<people, deadline, tables, pc, run>>

Step(r) ==
  \/ Scan(r) \/ SkipSent(r) \/ Look(r)
  \/ Insert(r) \/ LedgerClash(r) \/ UserGone(r) \/ Commit(r)

Next ==
  \/ \E r \in Runs : Begin(r) \/ Step(r) \/ DeadlockVictim(r) \/ Crash(r)
  \/ \E u \in Users :
       \/ MarkRead(u) \/ MarkAllRead(u) \/ CloseAccount(u)
       \/ \E o \in Opportunities : AddBookmark(u, o) \/ RemoveBookmark(u, o)
  \/ \E o \in Opportunities : MoveDeadline(o)
  \/ Tick

Spec == Init /\ [][Next]_vars

\* A run that can go on is run, and the deadlock detector runs.  Strong
\* fairness: a run waiting for a ledger row is woken when its holder ends, and
\* is not overtaken for ever by requests that came after it.
Fairness ==
  /\ \A r \in Runs : SF_vars(Step(r))
  /\ WF_vars(\E r \in Runs : DeadlockVictim(r))

FairSpec == Spec /\ Fairness

-----------------------------------------------------------------------------
(* Properties                                                              *)

TypeOK ==
  /\ now \in Nat
  /\ accounts \subseteq Users
  /\ bookmarks \subseteq Pairs
  /\ deadline \in [Opportunities -> Deadlines \cup {NoDeadline}]
  /\ ledger \subseteq Keys
  /\ copies \in [Keys -> Nat]
  /\ read \subseteq Keys
  /\ pc \in [Runs -> {"idle", "scan", "look", "insert"}]
  /\ asOf \in [Runs -> Nat]
  /\ rows \in [Runs -> SUBSET (Users \X Opportunities \X Nat)]
  /\ left \in [Runs -> SUBSET (Users \X Opportunities \X Nat)]
  /\ key \in [Runs -> Keys \cup {NoKey}]
  /\ wrote \in [Runs -> SUBSET Keys]

\* "Reminders that never double-fire" (README 292): a key has one
\* notification if the ledger has it and none otherwise, whatever runs
\* overlap, fail or are repeated (notification_service.py 70-94).
LedgerMatchesInbox ==
  \A k \in Keys : copies[k] = IF k \in ledger THEN 1 ELSE 0

\* A run that ends well leaves no bookmark of its join without the reminder
\* its deadline called for, unless the account was closed meanwhile
\* (notification_service.py 55-94).
ServesItsJoin(r) ==
  \A row \in rows[r] : KeyOf(row, asOf[r]) \in ledger' \/ row[1] \notin accounts
RunServesItsJoin == [][\A r \in Runs : Commit(r) => ServesItsJoin(r)]_vars

\* Every run ends, also when it waits for another run's ledger rows
\* (notification_service.py 48-95).
EveryRunEnds == \A r \in Runs : pc[r] = "scan" ~> pc[r] = "idle"

-----------------------------------------------------------------------------
(* The runs implement the promise.                                         *)

Status(k) ==
  IF k[1] \notin accounts THEN "erased"
  ELSE IF copies[k] = 0 THEN "none"
  ELSE IF copies[k] > 1 THEN "duplicated"
  ELSE IF k \in read THEN "read" ELSE "unread"

Shown == [k \in Keys |-> Status(k)]

Promise == INSTANCE ReminderPromise WITH status <- Shown

\* Every behaviour of the runs is one the promise allows.
PromiseKept == Promise!Spec
==============================================================================
