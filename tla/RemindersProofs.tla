--------------------------- MODULE RemindersProofs ---------------------------
(***************************************************************************)
(* For any number of users, opportunities and overlapping runs: the state  *)
(* stays well typed, the ledger and the inbox agree, and the runs          *)
(* implement ReminderPromise.                                              *)
(*                                                                         *)
(* LedgerMatchesInbox is not inductive: a commit could add a key that the  *)
(* ledger has.  Pending rules that out: what a run has written is in       *)
(* neither the ledger nor another run's writes.                            *)
(***************************************************************************)
EXTENDS Reminders, TLAPS

Pending ==
  /\ \A r \in Runs : wrote[r] \cap ledger = {}
  /\ \A r, q \in Runs : r # q => wrote[r] \cap wrote[q] = {}
  /\ \A r \in Runs : \A k \in wrote[r] : k[1] \in accounts

Kept ==
  /\ \A k \in ledger : k[1] \in accounts
  /\ read \subseteq ledger

Keyed == \A r \in Runs : pc[r] = "insert" => key[r] \in Keys

IInv == TypeOK /\ Keyed /\ Pending /\ Kept /\ LedgerMatchesInbox

-----------------------------------------------------------------------------
USE RemindersAssumption

\* The row a run joins names a user, an opportunity and a time.
LEMMA NearType ==
  ASSUME TypeOK, NEW time \in Nat
  PROVE  Near(time) \subseteq Users \X Opportunities \X Nat
<1>1. SUFFICES ASSUME NEW p \in bookmarks, deadline[p[2]] # NoDeadline
               PROVE  <<p[1], p[2], deadline[p[2]]>>
                        \in Users \X Opportunities \X Nat
  BY DEF Near
<1>2. p[1] \in Users /\ p[2] \in Opportunities
  BY DEF TypeOK, Pairs
<1>3. deadline[p[2]] \in Nat
  BY <1>1, <1>2 DEF TypeOK
<1>4. QED
  BY <1>2, <1>3

LEMMA KeyOfType ==
  ASSUME NEW row \in Users \X Opportunities \X Nat, NEW time \in Nat
  PROVE  KeyOf(row, time) \in Keys
  BY DEF KeyOf, Event, Keys, Events

\* The invariant holds initially.
LEMMA InitIInv == Init => IInv
  BY DEF Init, IInv, TypeOK, Keyed, Pending, Kept, LedgerMatchesInbox

\* A run that ends without a commit takes its uncommitted rows with it.
LEMMA AbortIInv ==
  ASSUME IInv, NEW r \in Runs, Abort(r)
  PROVE  IInv'
<1>1. TypeOK'
  BY DEF IInv, TypeOK, Abort, EndRun, Goto, people, tables
<1>2. Keyed'
  BY DEF IInv, TypeOK, Keyed, Abort, EndRun, Goto
<1>3. Pending'
  BY DEF IInv, TypeOK, Pending, Abort, EndRun, people, tables
<1>4. Kept' /\ LedgerMatchesInbox'
  BY DEF IInv, Kept, LedgerMatchesInbox, Abort, people, tables
<1>5. QED
  BY <1>1, <1>2, <1>3, <1>4 DEF IInv

\* Every step of a run, of a user, of ingestion and of the clock keeps the
\* invariant.
LEMMA NextIInv ==
  ASSUME IInv, [Next]_vars
  PROVE  IInv'
<1> USE DEF IInv
<1>1. ASSUME NEW r \in Runs, Begin(r)
      PROVE  IInv'
  BY <1>1 DEF Begin, Goto, people, tables,
              TypeOK, Keyed, Pending, Kept, LedgerMatchesInbox
<1>2. ASSUME NEW r \in Runs, Scan(r)
      PROVE  IInv'
  <2>1. Near(asOf[r]) \subseteq Users \X Opportunities \X Nat
    BY NearType DEF TypeOK
  <2>2. TypeOK'
    BY <1>2, <2>1 DEF Scan, Goto, people, tables, TypeOK
  <2>3. QED
    BY <1>2, <2>2 DEF Scan, Goto, people, tables,
                      TypeOK, Keyed, Pending, Kept, LedgerMatchesInbox
<1>3. ASSUME NEW r \in Runs, SkipSent(r)
      PROVE  IInv'
  BY <1>3 DEF SkipSent, people, tables,
              TypeOK, Keyed, Pending, Kept, LedgerMatchesInbox
<1>4. ASSUME NEW r \in Runs, Look(r)
      PROVE  IInv'
  <2>1. PICK row \in left[r] :
          /\ key' = [key EXCEPT ![r] = KeyOf(row, asOf[r])]
          /\ left' = [left EXCEPT ![r] = @ \ {row}]
    BY <1>4 DEF Look
  <2>2. KeyOf(row, asOf[r]) \in Keys
    BY KeyOfType DEF TypeOK
  <2>3. TypeOK'
    BY <1>4, <2>1, <2>2 DEF Look, Goto, people, tables, TypeOK
  <2>4. Keyed'
    BY <1>4, <2>1, <2>2 DEF Look, Goto, TypeOK, Keyed
  <2>5. QED
    BY <1>4, <2>3, <2>4 DEF Look, people, tables,
                            Pending, Kept, LedgerMatchesInbox
<1>5. ASSUME NEW r \in Runs, Insert(r)
      PROVE  IInv'
  <2>1. key[r] \in Keys /\ key[r] \notin ledger /\ key[r][1] \in accounts
    BY <1>5 DEF Insert, Keyed
  <2>2. \A q \in Runs : q # r => key[r] \notin wrote[q]
    BY <1>5 DEF Insert, Blocked, WaitsFor
  <2>3. TypeOK' /\ Keyed'
    BY <1>5, <2>1 DEF Insert, Goto, people, tables, TypeOK, Keyed
  <2>4. Pending'
    BY <1>5, <2>1, <2>2 DEF Insert, people, tables, TypeOK, Pending
  <2>5. QED
    BY <1>5, <2>3, <2>4 DEF Insert, people, tables, Kept, LedgerMatchesInbox
<1>6. ASSUME NEW r \in Runs, Commit(r)
      PROVE  IInv'
  <2>1. wrote[r] \subseteq Keys /\ wrote[r] \cap ledger = {}
    BY DEF TypeOK, Pending
  <2>2. TypeOK' /\ Keyed'
    BY <1>6, <2>1 DEF Commit, EndRun, Goto, people, TypeOK, Keyed
  <2>3. Pending'
    BY <1>6 DEF Commit, EndRun, people, TypeOK, Pending
  <2>4. Kept'
    BY <1>6 DEF Commit, people, Pending, Kept
  <2>5. LedgerMatchesInbox'
    BY <1>6, <2>1 DEF Commit, LedgerMatchesInbox
  <2>6. QED
    BY <2>2, <2>3, <2>4, <2>5
<1>7. ASSUME NEW r \in Runs,
             LedgerClash(r) \/ UserGone(r) \/ DeadlockVictim(r) \/ Crash(r)
      PROVE  IInv'
  BY <1>7, AbortIInv DEF LedgerClash, UserGone, DeadlockVictim, Crash
<1>8. ASSUME NEW u \in Users, MarkRead(u) \/ MarkAllRead(u)
      PROVE  IInv'
  BY <1>8 DEF MarkRead, MarkAllRead, people, run,
              TypeOK, Keyed, Pending, Kept, LedgerMatchesInbox
<1>9. ASSUME NEW u \in Users, NEW o \in Opportunities,
             AddBookmark(u, o) \/ RemoveBookmark(u, o)
      PROVE  IInv'
  BY <1>9 DEF AddBookmark, RemoveBookmark, tables, run, Pairs,
              TypeOK, Keyed, Pending, Kept, LedgerMatchesInbox
<1>10. ASSUME NEW u \in Users, CloseAccount(u)
       PROVE  IInv'
  <2>1. TypeOK' /\ Keyed'
    BY <1>10 DEF CloseAccount, run, TypeOK, Keyed
  <2>2. Pending'
    BY <1>10 DEF CloseAccount, run, TypeOK, Pending
  <2>3. Kept' /\ LedgerMatchesInbox'
    BY <1>10 DEF CloseAccount, TypeOK, Kept, LedgerMatchesInbox
  <2>4. QED
    BY <2>1, <2>2, <2>3
<1>11. ASSUME NEW o \in Opportunities, MoveDeadline(o)
       PROVE  IInv'
  BY <1>11 DEF MoveDeadline, people, tables, run,
               TypeOK, Keyed, Pending, Kept, LedgerMatchesInbox
<1>12. CASE Tick
  BY <1>12 DEF Tick, people, tables, run,
               TypeOK, Keyed, Pending, Kept, LedgerMatchesInbox
<1>13. CASE UNCHANGED vars
  BY <1>13 DEF vars, people, tables, run,
               TypeOK, Keyed, Pending, Kept, LedgerMatchesInbox
<1>14. QED
  BY <1>1, <1>2, <1>3, <1>4, <1>5, <1>6, <1>7, <1>8, <1>9, <1>10, <1>11,
     <1>12, <1>13 DEF Next, Step

\* In every reachable state of any instance the inductive invariant holds.
THEOREM Invariance == Spec => []IInv
  BY InitIInv, NextIInv, PTL DEF Spec

\* Every variable of the reminder job keeps its type.
THEOREM TypeCorrect == Spec => []TypeOK
  BY Invariance, PTL DEF IInv

\* A key has one notification if the ledger has it and none otherwise, for
\* any number of users, opportunities and overlapping runs.
THEOREM NeverTwice == Spec => []LedgerMatchesInbox
  BY Invariance, PTL DEF IInv

-----------------------------------------------------------------------------
(* The runs implement ReminderPromise: a commit delivers, reading reads,   *)
(* closing an account erases, and every other step is not seen.            *)

LEMMA SameKeys == Promise!Keys = Keys
  BY DEF Promise!Keys, Keys

\* Initially nothing has been delivered.
LEMMA InitRefines == Init => Promise!Init
  BY SameKeys, ZenonT(30) DEF Init, Promise!Init, Shown, Status, Keys

\* A step that leaves accounts, notifications and read marks alone shows
\* nothing.
LEMMA HiddenStep ==
  ASSUME UNCHANGED <<accounts, copies, read>>
  PROVE  Shown' = Shown
  BY DEF Shown, Status

\* The commit of a run delivers what the run wrote.
LEMMA CommitDelivers ==
  ASSUME IInv, NEW r \in Runs, Commit(r)
  PROVE  Promise!Deliver
<1>1. wrote[r] \in SUBSET Promise!Keys
  BY SameKeys DEF IInv, TypeOK
<1>2. \A k \in wrote[r] : Shown[k] = "none"
  BY <1>1, SameKeys
     DEF IInv, Pending, LedgerMatchesInbox, Shown, Status
<1>3. ASSUME NEW k \in Keys
      PROVE  Status(k)' = IF k \in wrote[r] THEN "unread" ELSE Shown[k]
  <2>1. copies'[k] = copies[k] + (IF k \in wrote[r] THEN 1 ELSE 0)
        /\ read' = read /\ accounts' = accounts
    BY DEF Commit, people
  <2>2. CASE k \in wrote[r]
    <3>1. k[1] \in accounts /\ k \notin ledger /\ k \notin read
      BY <2>2 DEF IInv, Pending, Kept
    <3>2. copies[k] = 0
      BY <3>1 DEF IInv, LedgerMatchesInbox
    <3>3. QED
      BY <2>1, <2>2, <3>1, <3>2 DEF Status
  <2>3. CASE k \notin wrote[r]
    BY <2>1, <2>3 DEF Status, Shown, IInv, TypeOK
  <2>4. QED
    BY <2>2, <2>3
<1>4. Shown' = [k \in Promise!Keys |->
                  IF k \in wrote[r] THEN "unread" ELSE Shown[k]]
  BY <1>3, SameKeys DEF Shown
<1>5. QED
  BY <1>1, <1>2, <1>4 DEF Promise!Deliver

\* Marking notifications as read reads them.
LEMMA MarkReads ==
  ASSUME IInv, NEW u \in Users, NEW K \in SUBSET Keys,
         \A k \in K : k[1] = u /\ copies[k] > 0,
         read' = read \cup K, UNCHANGED <<accounts, copies>>
  PROVE  Promise!Read
<1>1. \A k \in K : k \in ledger /\ copies[k] = 1 /\ k[1] \in accounts
  BY DEF IInv, LedgerMatchesInbox, Kept
<1>2. \A k \in K : Shown[k] \in {"unread", "read"}
  BY <1>1 DEF Shown, Status
<1>3. Shown' = [k \in Promise!Keys |-> IF k \in K THEN "read" ELSE Shown[k]]
  BY <1>1, SameKeys DEF Shown, Status
<1>4. QED
  BY <1>2, <1>3, SameKeys DEF Promise!Read

\* Closing an account erases what the promise says of it.
LEMMA CloseErases ==
  ASSUME NEW u \in Users, CloseAccount(u)
  PROVE  Promise!Erase
<1>1. ASSUME NEW k \in Keys
      PROVE  Status(k)' = IF k[1] = u THEN "erased" ELSE Shown[k]
  BY DEF CloseAccount, Shown, Status
<1>2. Shown' = [k \in Promise!Keys |->
                  IF k[1] = u THEN "erased" ELSE Shown[k]]
  BY <1>1, SameKeys DEF Shown
<1>3. QED
  BY <1>2 DEF Promise!Erase

\* Every step of the runs is a step of the promise or is not seen.
LEMMA NextRefines ==
  ASSUME IInv, [Next]_vars
  PROVE  [Promise!Next]_Shown
<1>1. CASE \E r \in Runs : Commit(r)
  BY <1>1, CommitDelivers DEF Promise!Next
<1>2. ASSUME NEW u \in Users, MarkRead(u)
      PROVE  Promise!Next
  <2>1. PICK k \in Keys : k[1] = u /\ copies[k] > 0 /\ read' = read \cup {k}
    BY <1>2 DEF MarkRead
  <2>2. PICK K \in SUBSET Keys : K = {k}
    OBVIOUS
  <2>3. \A j \in K : j[1] = u /\ copies[j] > 0
    BY <2>1, <2>2
  <2>4. read' = read \cup K /\ UNCHANGED <<accounts, copies>>
    BY <1>2, <2>1, <2>2 DEF MarkRead, people
  <2>5. QED
    BY <2>3, <2>4, MarkReads DEF Promise!Next
<1>3. ASSUME NEW u \in Users, MarkAllRead(u)
      PROVE  Promise!Next
  <2>1. PICK K \in SUBSET Keys : K = {k \in Keys : k[1] = u /\ copies[k] > 0}
    OBVIOUS
  <2>2. \A k \in K : k[1] = u /\ copies[k] > 0
    BY <2>1
  <2>3. read' = read \cup K /\ UNCHANGED <<accounts, copies>>
    BY <1>3, <2>1 DEF MarkAllRead, people
  <2>4. QED
    BY <2>2, <2>3, MarkReads DEF Promise!Next
<1>4. CASE \E u \in Users : CloseAccount(u)
  BY <1>4, CloseErases DEF Promise!Next
<1>5. CASE \E r \in Runs :
             \/ Begin(r) \/ Scan(r) \/ SkipSent(r) \/ Look(r) \/ Insert(r)
             \/ LedgerClash(r) \/ UserGone(r) \/ DeadlockVictim(r) \/ Crash(r)
  <2>1. UNCHANGED <<accounts, copies, read>>
    BY <1>5 DEF Begin, Scan, SkipSent, Look, Insert, LedgerClash, UserGone,
                DeadlockVictim, Crash, Abort, people, tables
  <2>2. QED
    BY <2>1, HiddenStep
<1>6. CASE \/ \E u \in Users, o \in Opportunities :
                AddBookmark(u, o) \/ RemoveBookmark(u, o)
           \/ \E o \in Opportunities : MoveDeadline(o)
           \/ Tick
           \/ UNCHANGED vars
  <2>1. UNCHANGED <<accounts, copies, read>>
    BY <1>6 DEF AddBookmark, RemoveBookmark, MoveDeadline, Tick, vars,
                people, tables
  <2>2. QED
    BY <2>1, HiddenStep
<1>7. QED
  BY <1>1, <1>2, <1>3, <1>4, <1>5, <1>6 DEF Next, Step

\* The runs, whatever overlaps, fails or is repeated, implement the promise:
\* at most one notification for a bookmark and an event, never unread again,
\* gone only with the account.
THEOREM KeepsThePromise == Spec => PromiseKept
<1>1. Init => Promise!Init
  BY InitRefines
<1>2. IInv /\ [Next]_vars => [Promise!Next]_Shown
  BY NextRefines
<1>3. QED
  BY <1>1, <1>2, Invariance, PTL DEF Spec, PromiseKept, Promise!Spec

-----------------------------------------------------------------------------
(* No row of a run's join is lost between the join and the commit.         *)

\* A joined row is still to be looked at, or its reminder was sent, is
\* written, or is being written, or its user is gone.
Accounted(r) ==
  \A row \in rows[r] :
    \/ row \in left[r]
    \/ KeyOf(row, asOf[r]) \in ledger \cup wrote[r]
    \/ pc[r] = "insert" /\ KeyOf(row, asOf[r]) = key[r]
    \/ row[1] \notin accounts

Joined ==
  \A r \in Runs : (pc[r] = "idle" => rows[r] = {}) /\ Accounted(r)

LEMMA InitJoined == Init => Joined
  BY DEF Init, Joined, Accounted

LEMMA NextJoined ==
  ASSUME TypeOK, Joined, [Next]_vars
  PROVE  Joined'
<1>1. ASSUME NEW r \in Runs, Abort(r) \/ Commit(r)
      PROVE  Joined'
  <2>1. /\ pc'[r] = "idle" /\ rows'[r] = {} /\ accounts' = accounts
        /\ ledger \subseteq ledger'
        /\ \A q \in Runs \ {r} :
             /\ pc'[q] = pc[q] /\ asOf'[q] = asOf[q] /\ rows'[q] = rows[q]
             /\ left'[q] = left[q] /\ key'[q] = key[q] /\ wrote'[q] = wrote[q]
    BY <1>1 DEF Abort, Commit, EndRun, Goto, people, tables, TypeOK
  <2>2. QED
    BY <2>1 DEF Joined, Accounted, KeyOf, Event
<1>2. ASSUME NEW r \in Runs, Begin(r)
      PROVE  Joined'
  <2>1. /\ rows[r] = {} /\ pc'[r] = "scan"
        /\ UNCHANGED <<accounts, ledger, rows, left, key, wrote>>
        /\ \A q \in Runs \ {r} : pc'[q] = pc[q] /\ asOf'[q] = asOf[q]
    BY <1>2 DEF Begin, Goto, people, tables, Joined, TypeOK
  <2>2. QED
    BY <2>1 DEF Joined, Accounted, KeyOf, Event
<1>3. ASSUME NEW r \in Runs, Scan(r)
      PROVE  Joined'
  <2>1. /\ rows'[r] = left'[r] /\ pc'[r] = "look"
        /\ UNCHANGED <<accounts, ledger, asOf, key, wrote>>
        /\ \A q \in Runs \ {r} :
             pc'[q] = pc[q] /\ rows'[q] = rows[q] /\ left'[q] = left[q]
    BY <1>3 DEF Scan, Goto, people, tables, TypeOK
  <2>2. QED
    BY <2>1 DEF Joined, Accounted, KeyOf, Event
<1>4. ASSUME NEW r \in Runs, SkipSent(r) \/ Look(r)
      PROVE  Joined'
  <2>1. PICK row \in left[r] :
          /\ left' = [left EXCEPT ![r] = @ \ {row}]
          /\ \/ KeyOf(row, asOf[r]) \in ledger /\ pc' = pc /\ key' = key
             \/ /\ pc' = [pc EXCEPT ![r] = "insert"]
                /\ key' = [key EXCEPT ![r] = KeyOf(row, asOf[r])]
    BY <1>4 DEF SkipSent, Look, Goto
  <2>2. pc[r] = "look" /\ UNCHANGED <<accounts, ledger, asOf, rows, wrote>>
    BY <1>4 DEF SkipSent, Look, people, tables
  <2>3. /\ left'[r] = left[r] \ {row}
        /\ \A q \in Runs \ {r} : left'[q] = left[q]
    BY <2>1 DEF TypeOK
  <2>4. /\ pc'[r] # "idle"
        /\ \/ KeyOf(row, asOf[r]) \in ledger
           \/ pc'[r] = "insert" /\ key'[r] = KeyOf(row, asOf[r])
        /\ \A q \in Runs \ {r} : pc'[q] = pc[q] /\ key'[q] = key[q]
    BY <2>1, <2>2 DEF TypeOK
  <2>5. QED
    BY <2>2, <2>3, <2>4 DEF Joined, Accounted, KeyOf, Event
<1>5. ASSUME NEW r \in Runs, Insert(r)
      PROVE  Joined'
  <2>1. /\ pc[r] = "insert" /\ pc'[r] = "look"
        /\ wrote'[r] = wrote[r] \cup {key[r]}
        /\ UNCHANGED <<accounts, ledger, asOf, rows, left>>
        /\ \A q \in Runs \ {r} :
             pc'[q] = pc[q] /\ key'[q] = key[q] /\ wrote'[q] = wrote[q]
    BY <1>5 DEF Insert, Goto, people, tables, TypeOK
  <2>2. QED
    BY <2>1 DEF Joined, Accounted, KeyOf, Event
<1>6. ASSUME NEW u \in Users, CloseAccount(u)
      PROVE  Joined'
  <2>1. /\ accounts' = accounts \ {u}
        /\ ledger' = {k \in ledger : k[1] # u}
        /\ UNCHANGED <<pc, asOf, rows, left, key, wrote>>
    BY <1>6 DEF CloseAccount, run
  <2>2. QED
    BY <2>1 DEF Joined, Accounted, KeyOf, Event
<1>7. CASE UNCHANGED <<accounts, ledger, pc, run>>
  BY <1>7 DEF run, Joined, Accounted, KeyOf, Event
<1>8. ASSUME \/ \E u \in Users : MarkRead(u) \/ MarkAllRead(u)
             \/ \E u \in Users, o \in Opportunities :
                  AddBookmark(u, o) \/ RemoveBookmark(u, o)
             \/ \E o \in Opportunities : MoveDeadline(o)
             \/ Tick
             \/ UNCHANGED vars
      PROVE  UNCHANGED <<accounts, ledger, pc, run>>
  BY <1>8 DEF MarkRead, MarkAllRead, AddBookmark, RemoveBookmark, MoveDeadline,
              Tick, vars, people, tables, run
<1>9. QED
  BY <1>1, <1>2, <1>3, <1>4, <1>5, <1>6, <1>7, <1>8
     DEF Next, Step, LedgerClash, UserGone, DeadlockVictim, Crash

\* A run that commits leaves no row of its join without its reminder, except
\* for users who closed their account: for any runs, and whatever of them
\* overlaps or fails.
THEOREM EveryRowIsServed == Spec => RunServesItsJoin
<1>1. ASSUME Joined, NEW r \in Runs, Commit(r)
      PROVE  ServesItsJoin(r)
  BY <1>1 DEF Joined, Accounted, Commit, ServesItsJoin
<1>2. Joined /\ [Next]_vars => [\A r \in Runs : Commit(r) => ServesItsJoin(r)]_vars
  BY <1>1
<1>3. Spec => [](TypeOK /\ Joined)
  BY InitIInv, NextIInv, InitJoined, NextJoined, TypeCorrect, PTL DEF Spec, IInv
<1>4. QED
  BY <1>2, <1>3, PTL DEF Spec, RunServesItsJoin
==============================================================================
