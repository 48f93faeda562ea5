--------------------------- MODULE UserDataProofs ---------------------------
(***************************************************************************)
(* For any users, requests, names and order of steps: the state stays well *)
(* typed, the rows are sound, a PATCH replaces what it saw, patches that   *)
(* spell alike do not deadlock, and bookmarking keeps BookmarkPromise.     *)
(*                                                                         *)
(* Rows that are committed say nothing of what is about to be: the commit  *)
(* of a request could repeat a row.  Fitting and Apart rule that out: what *)
(* a transaction has written fits the committed tables, and what any other *)
(* has written.  Both hold because an INSERT checks the first and waits    *)
(* for the second; what it waits for depends on how far each request is    *)
(* and on what it may have written by then (InStep and Wrote).             *)
(***************************************************************************)
EXTENDS UserData, FiniteSetTheorems, TLAPS

Adding   == {"find", "look", "insert", "marked", "again"}
Removing == {"scan", "delete", "removed"}
Setting  == {"skill", "newSkill", "own", "patched"}
Patching == {"reload", "update", "dropScan", "drop", "refresh"} \cup Setting

\* What a request is doing is part of what it was asked for.
InStep(r) ==
  /\ pc[r] \in Adding => op[r].kind = "add"
  /\ pc[r] \in Removing => op[r].kind = "remove"
  /\ pc[r] \in Patching => op[r].kind = "patch"
  /\ pc[r] \in {"get", "ensure", "create", "created"} => op[r].kind # "remove"
  /\ pc[r] = "reply" => op[r].kind = "me"
  /\ pc[r] \in {"dropScan", "drop", "skill", "newSkill", "own"} => op[r].replaces
  /\ op[r].kind = "add" /\ pc[r] \notin {"idle", "find", "done"} => Opp(r) \in Listed
  /\ pc[r] \in {"newSkill", "own"} => cur[r] \in SkillNames
  /\ pc[r] = "own" => cur[r] \in skills \cup tx[r].skills
  /\ \A o \in seen[r] : o.user = User(r)
  /\ pc[r] \in {"delete", "removed"} => \A b \in seen[r] : b.opp = Opp(r)

\* A transaction writes rows of its user, each kind from one step on.
Wrote(r) ==
  /\ tx[r].auth \subseteq {User(r)} /\ tx[r].created \subseteq {User(r)}
  /\ \A b \in tx[r].marks \cup tx[r].unmarks : b.user = User(r) /\ b.opp = Opp(r)
  /\ \A o \in tx[r].owns \cup tx[r].disowns : o.user = User(r)
  /\ \A b \in tx[r].marks \cup tx[r].owns : b.by = r
  /\ tx[r].auth # {} => pc[r] \in {"create", "created"}
  /\ tx[r].created # {} => pc[r] = "created"
  /\ tx[r].column # Unset => pc[r] \in {"dropScan", "drop"} \cup Setting
  /\ tx[r].marks # {} => pc[r] = "marked"
  /\ tx[r].unmarks # {} => pc[r] = "removed"
  /\ tx[r].skills # {} \/ tx[r].owns # {} \/ tx[r].disowns # {} => pc[r] \in Setting

SamePair(a, b) == a.user = b.user /\ a.opp = b.opp
SameOwn(a, b)  == a.user = b.user /\ a.skill = b.skill

\* What a transaction has written can be committed.
Fitting(r) ==
  /\ tx[r].created \subseteq auth \cup tx[r].auth
  /\ tx[r].column # Unset => profile[User(r)] # NoProfile
  /\ \A b \in tx[r].marks :
       /\ profile[User(r)] # NoProfile /\ b.opp \in Listed
       /\ \A a \in bookmarks : ~SamePair(a, b)
       /\ \A a \in tx[r].marks : a = b
  /\ \A s \in tx[r].skills :
       /\ \A t \in skills : ~SameSkill(s, t)
       /\ \A t \in tx[r].skills : SameSkill(s, t) => s = t
  /\ \A o \in tx[r].owns :
       /\ profile[User(r)] # NoProfile /\ o.skill \in skills \cup tx[r].skills
       /\ \A p \in owned \ tx[r].disowns : ~SameOwn(o, p)
       /\ \A p \in tx[r].owns : SameOwn(o, p) => o = p

\* Two transactions have written nothing that could not both be committed.
Apart(r, q) ==
  /\ \A a \in tx[r].marks, b \in tx[q].marks : ~SamePair(a, b)
  /\ \A s \in tx[r].skills, t \in tx[q].skills : ~SameSkill(s, t)
  /\ \A o \in tx[r].owns, p \in tx[q].owns : ~SameOwn(o, p)

IInv ==
  /\ TypeOK
  /\ \A r \in Requests : InStep(r) /\ Wrote(r) /\ Fitting(r)
  /\ \A r, q \in Requests : r # q => Apart(r, q)
  /\ RowsAreSound

-----------------------------------------------------------------------------
(* Requests that replace skills                                            *)

\* A row carries the name of a request that has committed it.
Past(r) == pc[r] \in {"refresh", "done"}

Dated ==
  /\ \A b \in bookmarks : Past(b.by)
  /\ \A o \in owned : Past(o.by)
  /\ \A r \in Requests : ~Past(r) => \A o \in seen[r] : Past(o.by)

Folded(S) == {Fold[n] : n \in S}

\* The names that were asked for are those of the rows written, those to come
\* and the one in hand.
Underway(r) ==
  /\ pc[r] \in {"drop"} \cup Setting /\ op[r].replaces =>
       {Fold[o.skill] : o \in tx[r].owns} \cup Folded(todo[r])
         \cup (IF pc[r] \in {"newSkill", "own"} THEN {Fold[cur[r]]} ELSE {})
       = Folded(op[r].skills)
  /\ pc[r] \notin {"drop", "skill", "newSkill", "own"} => todo[r] = {}
  /\ pc[r] \notin {"delete", "removed", "drop", "refresh"} \cup Setting => seen[r] = {}
  /\ pc[r] \in Setting => seen[r] \cap owned \subseteq tx[r].disowns
  /\ pc[r] = "removed" => seen[r] \cap bookmarks \subseteq tx[r].unmarks
  /\ pc[r] = "marked" => tx[r].marks # {}

\* set_skills has come to the names in order, and has inserted no other.
Sorted(r) ==
  /\ todo[r] # {} => op[r].kind = "patch" /\ todo[r] \subseteq op[r].skills
  /\ \A s \in tx[r].skills : s \in op[r].skills
  /\ \A s \in tx[r].skills, n \in todo[r] : Rank[s] < Rank[n]
  /\ pc[r] = "newSkill" =>
       /\ cur[r] \in op[r].skills
       /\ \A s \in tx[r].skills : Rank[s] < Rank[cur[r]]
       /\ \A n \in todo[r] : Rank[cur[r]] < Rank[n]

PInv ==
  /\ Dated
  /\ \A r \in Requests : Underway(r) /\ Sorted(r)

-----------------------------------------------------------------------------
(* Types                                                                   *)

\* What a request can be asked for.
LEMMA OpType ==
  ASSUME TypeOK, NEW r \in Requests
  PROVE  /\ User(r) \in Users
         /\ op[r].kind \in {"me", "patch", "add", "remove"}
         /\ op[r].kind \in {"add", "remove"} => Opp(r) \in Opportunities
         /\ op[r].kind = "patch" => /\ op[r].value \in Columns
                                   /\ op[r].skills \subseteq SkillNames
                                   /\ op[r].replaces \in BOOLEAN
  BY UserDataAssumption DEF TypeOK, User, Opp, Columns

LEMMA ConstantTypes ==
  /\ Default \in Values /\ NoProfile \notin Values /\ Unset \notin Values
  /\ None \notin SkillNames
  /\ Fold \in [SkillNames -> SkillNames] /\ Rank \in [SkillNames -> Nat]
  /\ Development \in BOOLEAN /\ FirstAccess \in BOOLEAN
  /\ Listed \subseteq Opportunities
  BY UserDataAssumption

LEMMA NoTxType == NoTx \in Txs
  BY DEF NoTx, Txs, Columns

\* A transaction that ends leaves nothing.
LEMMA RollbackType ==
  ASSUME TypeOK, NEW r \in Requests, Rollback(r)
  PROVE  /\ tx' \in [Requests -> Txs]
         /\ tx'[r] = NoTx /\ \A q \in Requests \ {r} : tx'[q] = tx[q]
  BY NoTxType DEF Rollback, TypeOK

\* A write changes one field of one transaction.
LEMMA WriteType ==
  ASSUME TypeOK, NEW r \in Requests,
         NEW f \in {"auth", "created", "marks", "unmarks", "skills", "owns", "disowns"},
         NEW val, Write(r, f, val),
         /\ f \in {"auth", "created"} => val \subseteq Users
         /\ f \in {"marks", "unmarks"} => val \subseteq Marks
         /\ f = "skills" => val \subseteq SkillNames
         /\ f \in {"owns", "disowns"} => val \subseteq Owns
  PROVE  /\ tx' \in [Requests -> Txs]
         /\ tx'[r] = [tx[r] EXCEPT ![f] = val]
         /\ \A q \in Requests \ {r} : tx'[q] = tx[q]
<1>1. tx \in [Requests -> Txs] /\ tx' = [tx EXCEPT ![r][f] = val]
  BY DEF TypeOK, Write
<1>2. tx'[r] = [tx[r] EXCEPT ![f] = val] /\ \A q \in Requests \ {r} : tx'[q] = tx[q]
  BY <1>1
<1>3. tx'[r] \in Txs
  <2>1. tx[r] \in Txs
    BY <1>1
  <2>2. CASE f = "auth"
    BY <1>2, <2>1, <2>2 DEF Txs
  <2>3. CASE f = "created"
    BY <1>2, <2>1, <2>3 DEF Txs
  <2>4. CASE f = "marks"
    BY <1>2, <2>1, <2>4 DEF Txs
  <2>5. CASE f = "unmarks"
    BY <1>2, <2>1, <2>5 DEF Txs
  <2>6. CASE f = "skills"
    BY <1>2, <2>1, <2>6 DEF Txs
  <2>7. CASE f = "owns"
    BY <1>2, <2>1, <2>7 DEF Txs
  <2>8. CASE f = "disowns"
    BY <1>2, <2>1, <2>8 DEF Txs
  <2>9. QED
    BY <2>2, <2>3, <2>4, <2>5, <2>6, <2>7, <2>8
<1>4. QED
  BY <1>1, <1>2, <1>3

LEMMA CommitType ==
  ASSUME TypeOK, NEW r \in Requests, Commit(r)
  PROVE  /\ auth' \subseteq Users /\ skills' \subseteq SkillNames
         /\ profile' \in [Users -> Values \cup {NoProfile}]
         /\ bookmarks' \subseteq Marks /\ owned' \subseteq Owns
         /\ tx' \in [Requests -> Txs]
<1>1. tx[r] \in Txs
  BY DEF TypeOK
<1>2. /\ tx[r].auth \subseteq Users /\ tx[r].skills \subseteq SkillNames
      /\ tx[r].marks \subseteq Marks /\ tx[r].owns \subseteq Owns
      /\ tx[r].column \in Values \cup {Unset}
  BY <1>1 DEF Txs, Columns
<1>3. profile' \in [Users -> Values \cup {NoProfile}]
  BY <1>2, ConstantTypes DEF Commit, TypeOK
<1>4. QED
  BY <1>2, <1>3, RollbackType DEF Commit, TypeOK

LEMMA AnswerType ==
  ASSUME TypeOK, NEW r \in Requests,
         NEW how \in {"ok", "not_found", "error"}, Answer(r, how)
  PROVE  /\ op' \in [Requests -> Ops] /\ pc' \in [Requests -> Steps]
         /\ loaded' \in [Requests -> Values]
         /\ seen' \in [Requests -> SUBSET (Marks \cup Owns)]
         /\ todo' \in [Requests -> SUBSET SkillNames]
         /\ cur' \in [Requests -> SkillNames \cup {None}]
         /\ reply' \in [Requests -> {"pending", "ok", "not_found", "error"}]
  BY DEF Answer, Goto, TypeOK, Steps

LEMMA FailType ==
  ASSUME TypeOK, NEW r \in Requests, Fail(r)
  PROVE  TypeOK'
  BY AnswerType, RollbackType DEF Fail, tables, TypeOK

LEMMA StepType ==
  ASSUME TypeOK, NEW r \in Requests, InStep(r), Begin(r) \/ Step(r)
  PROVE  TypeOK'
<1> USE DEF Goto, Steps, tables, locals
<1>1. CASE \/ Begin(r) \/ GetProfile(r) \/ MissProfile(r) \/ NoSkillLeft(r)
  <2>1. UNCHANGED <<tables, locals, tx>>
    BY <1>1 DEF Begin, GetProfile, MissProfile, NoSkillLeft
  <2>2. PICK step \in Steps : Goto(r, step)
    BY <1>1, OpType DEF Begin, GetProfile, MissProfile, NoSkillLeft, Resume
  <2>3. QED
    BY <2>1, <2>2 DEF TypeOK
<1>2. CASE FindOpp(r) \/ Look(r) \/ Again(r) \/ Reply(r)
  <2>1. UNCHANGED <<tables, tx>>
    BY <1>2 DEF FindOpp, Look, Again, Reply
  <2>2. \/ \E how \in {"ok", "not_found", "error"} : Answer(r, how)
        \/ UNCHANGED locals /\ \E step \in Steps : Goto(r, step)
    BY <1>2 DEF FindOpp, Look, Again, Reply
  <2>3. QED
    BY <2>1, <2>2, AnswerType DEF TypeOK
<1>3. CASE EnsureAuth(r)
  <2>1. Write(r, "auth", {User(r)} \ auth) /\ {User(r)} \ auth \subseteq Users
    BY <1>3, OpType DEF EnsureAuth
  <2>2. QED
    BY <1>3, <2>1, WriteType DEF EnsureAuth, TypeOK
<1>4. CASE InsertProfile(r)
  <2>1. Write(r, "created", {User(r)}) /\ {User(r)} \subseteq Users
    BY <1>4, OpType DEF InsertProfile
  <2>2. QED
    BY <1>4, <2>1, WriteType DEF InsertProfile, TypeOK
<1>5. CASE ProfileClash(r) \/ LostProfile(r) \/ SkillClash(r) \/ OwnClash(r)
  BY <1>5, FailType DEF ProfileClash, LostProfile, SkillClash, OwnClash
<1>6. CASE CommitProfile(r) \/ CommitPatch(r)
  <2>1. Commit(r) /\ UNCHANGED locals
    BY <1>6 DEF CommitProfile, CommitPatch
  <2>2. PICK step \in Steps : Goto(r, step)
    BY <1>6 DEF CommitProfile, CommitPatch, Resume
  <2>3. QED
    BY <2>1, <2>2, CommitType DEF TypeOK
<1>7. CASE CommitAdd(r) \/ CommitRemove(r)
  BY <1>7, CommitType, AnswerType DEF CommitAdd, CommitRemove, TypeOK
<1>8. CASE InsertMark(r)
  <2>1. [by |-> r, user |-> User(r), opp |-> Opp(r)] \in Marks
    BY <1>8, OpType DEF InsertMark, InStep, Adding, Marks
  <2>2. QED
    BY <1>8, <2>1, WriteType DEF InsertMark, TypeOK
<1>9. CASE MarkClash(r)
  BY <1>9, RollbackType DEF MarkClash, TypeOK
<1>10. CASE ScanMarks(r)
  BY <1>10 DEF ScanMarks, MarksOf, TypeOK
<1>11. CASE DeleteMarks(r)
  <2>1. Write(r, "unmarks", seen[r] \cap bookmarks) /\ seen[r] \cap bookmarks \subseteq Marks
    BY <1>11 DEF DeleteMarks, TypeOK
  <2>2. QED
    BY <1>11, <2>1, WriteType DEF DeleteMarks, TypeOK
<1>12. CASE Reload(r)
  BY <1>12, OpType DEF Reload, TypeOK
<1>13. CASE Update(r)
  <2>1. op[r].value \in Columns
    BY <1>13, OpType DEF Update, InStep, Patching
  <2>2. tx' \in [Requests -> Txs]
    <3>1. [tx[r] EXCEPT !.column = op[r].value] \in Txs
      <4>1. tx[r] \in Txs
        BY DEF TypeOK
      <4>2. QED
        BY <2>1, <4>1 DEF Txs
    <3>2. QED
      BY <1>13, <3>1 DEF Update, TypeOK
  <2>3. QED
    BY <1>13, <2>2 DEF Update, TypeOK
<1>14. CASE DropScan(r)
  <2>1. op[r].skills \subseteq SkillNames
    BY <1>14, OpType DEF DropScan, InStep, Patching
  <2>2. seen' \in [Requests -> SUBSET (Marks \cup Owns)]
    BY <1>14 DEF DropScan, OwnsOf, TypeOK
  <2>3. todo' \in [Requests -> SUBSET SkillNames]
    BY <1>14, <2>1 DEF DropScan, TypeOK
  <2>4. QED
    BY <1>14, <2>2, <2>3 DEF DropScan, TypeOK
<1>15. CASE Drop(r)
  <2>1. Write(r, "disowns", seen[r] \cap owned) /\ seen[r] \cap owned \subseteq Owns
    BY <1>15 DEF Drop, TypeOK
  <2>2. QED
    BY <1>15, <2>1, WriteType DEF Drop, TypeOK
<1>16. CASE FindSkill(r)
  <2>1. PICK n \in todo[r] :
          LET found == {s \in skills \cup tx[r].skills :
                          IF FoldingLookup THEN SameSkill(s, n) ELSE s = n}
          IN /\ todo' = [todo EXCEPT ![r] = @ \ {n}]
             /\ IF found = {}
                THEN cur' = [cur EXCEPT ![r] = n] /\ Goto(r, "newSkill")
                ELSE /\ \E s \in found : cur' = [cur EXCEPT ![r] = s]
                     /\ Goto(r, "own")
    BY <1>16 DEF FindSkill
  <2>2. todo[r] \subseteq SkillNames /\ skills \cup tx[r].skills \subseteq SkillNames
    BY DEF TypeOK, Txs
  <2>3. cur' \in [Requests -> SkillNames \cup {None}] /\ pc' \in [Requests -> Steps]
    BY <2>1, <2>2 DEF TypeOK
  <2>4. todo' \in [Requests -> SUBSET SkillNames]
    BY <2>1, <2>2 DEF TypeOK
  <2>5. QED
    BY <1>16, <2>3, <2>4 DEF FindSkill, TypeOK
<1>17. CASE InsertSkill(r)
  <2>1. tx[r].skills \cup {cur[r]} \subseteq SkillNames
    BY <1>17 DEF InsertSkill, InStep, TypeOK, Txs
  <2>2. QED
    BY <1>17, <2>1, WriteType DEF InsertSkill, TypeOK
<1>18. CASE Own(r)
  <2>1. [by |-> r, user |-> User(r), skill |-> cur[r]] \in Owns
    BY <1>18, OpType DEF Own, InStep, Owns
  <2>2. Owned(r) \subseteq Owns
    BY <2>1 DEF Owned, TypeOK, Txs
  <2>3. tx' \in [Requests -> Txs]
    BY <1>18, <2>2, WriteType DEF Own
  <2>4. QED
    BY <1>18, <2>3 DEF Own, TypeOK
<1>19. QED
  BY <1>1, <1>2, <1>3, <1>4, <1>5, <1>6, <1>7, <1>8, <1>9, <1>10, <1>11, <1>12,
     <1>13, <1>14, <1>15, <1>16, <1>17, <1>18 DEF Step

LEMMA NextType ==
  ASSUME TypeOK, \A r \in Requests : InStep(r), [Next]_vars
  PROVE  TypeOK'
<1>1. ASSUME NEW r \in Requests, Begin(r) \/ Step(r)
      PROVE  TypeOK'
  BY <1>1, StepType
<1>2. ASSUME NEW r \in Requests, DeadlockVictim(r) \/ Crash(r)
      PROVE  TypeOK'
  BY <1>2, FailType DEF DeadlockVictim, Crash
<1>3. ASSUME NEW u \in Users, CloseAccount(u)
      PROVE  TypeOK'
  BY <1>3, ConstantTypes DEF CloseAccount, locals, TypeOK
<1>4. CASE UNCHANGED vars
  BY <1>4 DEF vars, tables, locals, TypeOK
<1>5. QED
  BY <1>1, <1>2, <1>3, <1>4 DEF Next, AllDone

-----------------------------------------------------------------------------
(* What a step leaves alone                                                *)

Moves(r) == Begin(r) \/ Step(r) \/ DeadlockVictim(r) \/ Crash(r)

SameLocals(q) ==
  /\ pc'[q] = pc[q] /\ loaded'[q] = loaded[q] /\ seen'[q] = seen[q]
  /\ todo'[q] = todo[q] /\ cur'[q] = cur[q] /\ reply'[q] = reply[q]
  /\ tx'[q] = tx[q]

\* The transactions that end, in one way or the other, or write.
Writes(r) ==
  \/ EnsureAuth(r) \/ InsertProfile(r) \/ InsertMark(r) \/ DeleteMarks(r)
  \/ (Update(r) /\ Dirty(r)) \/ Drop(r) \/ InsertSkill(r) \/ Own(r)

Commits(r) == CommitProfile(r) \/ CommitAdd(r) \/ CommitRemove(r) \/ CommitPatch(r)

\* A step of a request reads, writes, rolls back or commits.
LEMMA Effects ==
  ASSUME NEW r \in Requests, Moves(r)
  PROVE  /\ op' = op
         /\ \/ UNCHANGED <<tables, tx>>
            \/ UNCHANGED tables /\ Rollback(r)
            \/ UNCHANGED tables /\ Writes(r)
            \/ Commit(r) /\ Commits(r)
<1> USE DEF locals
<1>1. CASE Begin(r)
  BY <1>1 DEF Begin
<1>2. CASE DeadlockVictim(r) \/ Crash(r)
  BY <1>2 DEF DeadlockVictim, Crash, Fail, Answer
<1>3. CASE Step(r)
  <2>1. CASE \/ GetProfile(r) \/ MissProfile(r) \/ NoSkillLeft(r) \/ Reload(r)
             \/ ScanMarks(r) \/ DropScan(r) \/ FindSkill(r)
    BY <2>1 DEF GetProfile, MissProfile, NoSkillLeft, Reload, ScanMarks, DropScan,
                FindSkill
  <2>2. CASE FindOpp(r) \/ Look(r) \/ Again(r) \/ Reply(r)
    BY <2>2 DEF FindOpp, Look, Again, Reply, Answer
  <2>3. CASE ProfileClash(r) \/ LostProfile(r) \/ SkillClash(r) \/ OwnClash(r) \/ MarkClash(r)
    BY <2>3 DEF ProfileClash, LostProfile, SkillClash, OwnClash, MarkClash, Fail, Answer
  <2>4. CASE CommitProfile(r) \/ CommitPatch(r) \/ CommitAdd(r) \/ CommitRemove(r)
    BY <2>4 DEF Commits, CommitProfile, CommitPatch, CommitAdd, CommitRemove, Answer
  <2>5. CASE EnsureAuth(r) \/ InsertProfile(r) \/ InsertMark(r) \/ DeleteMarks(r)
    BY <2>5 DEF EnsureAuth, InsertProfile, InsertMark, DeleteMarks, Writes
  <2>6. CASE Drop(r) \/ InsertSkill(r) \/ Own(r)
    BY <2>6 DEF Drop, InsertSkill, Own, Writes
  <2>7. CASE Update(r)
    BY <2>7 DEF Update, Writes
  <2>8. QED
    BY <1>3, <2>1, <2>2, <2>3, <2>4, <2>5, <2>6, <2>7 DEF Step
<1>4. QED
  BY <1>1, <1>2, <1>3 DEF Moves

LEMMA OthersStay ==
  ASSUME TypeOK, NEW r \in Requests, Moves(r), NEW q \in Requests \ {r}
  PROVE  SameLocals(q)
<1> USE DEF SameLocals, Goto, Write, Rollback, locals, TypeOK
<1>1. ASSUME NEW how, Answer(r, how), tx'[q] = tx[q] PROVE SameLocals(q)
  BY <1>1 DEF Answer
<1>2. ASSUME Fail(r) PROVE SameLocals(q)
  BY <1>1, <1>2 DEF Fail
<1>3. CASE Begin(r)
  BY <1>3 DEF Begin
<1>4. CASE DeadlockVictim(r) \/ Crash(r)
  BY <1>2, <1>4 DEF DeadlockVictim, Crash
<1>5. CASE Step(r)
  <2>1. CASE \/ GetProfile(r) \/ MissProfile(r) \/ NoSkillLeft(r)
    BY <2>1 DEF GetProfile, MissProfile, NoSkillLeft
  <2>2. CASE \/ Reload(r) \/ ScanMarks(r) \/ DropScan(r)
    BY <2>2 DEF Reload, ScanMarks, DropScan
  <2>3. CASE FindSkill(r)
    BY <2>3 DEF FindSkill
  <2>4. CASE FindOpp(r) \/ Look(r) \/ Again(r) \/ Reply(r)
    BY <1>1, <2>4 DEF FindOpp, Look, Again, Reply
  <2>5. CASE ProfileClash(r) \/ LostProfile(r) \/ SkillClash(r) \/ OwnClash(r)
    BY <1>2, <2>5 DEF ProfileClash, LostProfile, SkillClash, OwnClash
  <2>6. CASE MarkClash(r)
    BY <2>6 DEF MarkClash
  <2>7. CASE CommitProfile(r) \/ CommitPatch(r)
    BY <2>7 DEF CommitProfile, CommitPatch, Commit
  <2>8. CASE CommitAdd(r) \/ CommitRemove(r)
    BY <1>1, <2>8 DEF CommitAdd, CommitRemove, Commit
  <2>9. CASE EnsureAuth(r) \/ InsertProfile(r)
    BY <2>9 DEF EnsureAuth, InsertProfile
  <2>10. CASE InsertMark(r) \/ DeleteMarks(r)
    BY <2>10 DEF InsertMark, DeleteMarks
  <2>11. CASE Drop(r) \/ InsertSkill(r)
    BY <2>11 DEF Drop, InsertSkill
  <2>12. CASE Own(r)
    BY <2>12 DEF Own
  <2>13. CASE Update(r)
    BY <2>13 DEF Update
  <2>14. QED
    BY <1>5, <2>1, <2>2, <2>3, <2>4, <2>5, <2>6, <2>7, <2>8, <2>9, <2>10, <2>11,
       <2>12, <2>13 DEF Step
<1>6. QED
  BY <1>3, <1>4, <1>5 DEF Moves

\* Skills are never taken away.
LEMMA SkillsStay ==
  ASSUME [Next]_vars
  PROVE  skills \subseteq skills'
<1>1. ASSUME NEW r \in Requests, Moves(r) PROVE skills \subseteq skills'
  BY <1>1, Effects DEF tables, Commit
<1>2. QED
  BY <1>1 DEF Next, Moves, CloseAccount, AllDone, vars, tables

-----------------------------------------------------------------------------
(* How far a request is, and what it has written by then                   *)

\* Of a request that goes on with nothing written, or has ended.
LEMMA CleanIsWrote ==
  ASSUME TypeOK, NEW r \in Requests, tx'[r] = NoTx
  PROVE  Wrote(r)'
  BY DEF NoTx, Wrote

LEMMA AnswerSteps ==
  ASSUME TypeOK, NEW r \in Requests, NEW how, Answer(r, how)
  PROVE  InStep(r)'
  BY DEF Answer, Goto, TypeOK, InStep, Adding, Removing, Patching, Setting, User, Opp

LEMMA Begun ==
  ASSUME TypeOK, NEW r \in Requests, InStep(r), Begin(r)
  PROVE  InStep(r)'
<1>1. /\ pc'[r] = CASE op[r].kind = "add" -> "find"
                     [] op[r].kind = "remove" -> "scan"
                     [] OTHER -> "get"
      /\ UNCHANGED locals
  BY DEF Begin, Goto, TypeOK
<1>2. QED
  BY <1>1, OpType DEF locals, InStep, Adding, Removing, Patching, Setting, User, Opp

LEMMA StepKeepsInStep ==
  ASSUME TypeOK, NEW r \in Requests, InStep(r), Step(r)
  PROVE  InStep(r)'
<1> USE DEF Goto, locals, InStep, Adding, Removing, Patching, Setting
<1>1. op' = op /\ User(r)' = User(r) /\ Opp(r)' = Opp(r)
  BY Effects DEF Moves, User, Opp
<1>2. skills \subseteq skills'
  BY Effects DEF Moves, Commit, tables
<1>3. CASE \/ GetProfile(r) \/ MissProfile(r) \/ NoSkillLeft(r) \/ CommitProfile(r)
           \/ CommitPatch(r)
  BY <1>1, <1>3, OpType DEF GetProfile, MissProfile, NoSkillLeft, CommitProfile,
     CommitPatch, Resume, TypeOK
<1>4. CASE FindOpp(r) \/ Look(r)
  BY <1>1, <1>4, AnswerSteps DEF FindOpp, Look, TypeOK
<1>5. CASE Again(r) \/ Reply(r) \/ CommitAdd(r) \/ CommitRemove(r)
  BY <1>5, AnswerSteps DEF Again, Reply, CommitAdd, CommitRemove
<1>6. CASE ProfileClash(r) \/ LostProfile(r) \/ SkillClash(r) \/ OwnClash(r)
  BY <1>6, AnswerSteps DEF ProfileClash, LostProfile, SkillClash, OwnClash, Fail
<1>7. CASE \/ EnsureAuth(r) \/ InsertProfile(r) \/ InsertMark(r) \/ MarkClash(r)
           \/ DeleteMarks(r) \/ Drop(r)
  BY <1>1, <1>7 DEF EnsureAuth, InsertProfile, InsertMark, MarkClash, DeleteMarks,
     Drop, TypeOK
<1>8. CASE ScanMarks(r)
  BY <1>1, <1>8 DEF ScanMarks, MarksOf, TypeOK
<1>9. CASE Reload(r) \/ Update(r)
  BY <1>1, <1>9, OpType DEF Reload, Update, TypeOK
<1>10. CASE DropScan(r)
  BY <1>1, <1>10 DEF DropScan, OwnsOf, TypeOK
<1>11. CASE FindSkill(r)
  <2>1. PICK n \in todo[r] :
          LET found == {s \in skills \cup tx[r].skills :
                          IF FoldingLookup THEN SameSkill(s, n) ELSE s = n}
          IN IF found = {}
             THEN cur' = [cur EXCEPT ![r] = n] /\ Goto(r, "newSkill")
             ELSE /\ \E s \in found : cur' = [cur EXCEPT ![r] = s]
                  /\ Goto(r, "own")
    BY <1>11 DEF FindSkill
  <2>2. todo[r] \subseteq SkillNames /\ skills \cup tx[r].skills \subseteq SkillNames
    BY DEF TypeOK, Txs
  <2>3. /\ pc'[r] \in {"newSkill", "own"} /\ cur'[r] \in SkillNames
        /\ pc'[r] = "own" => cur'[r] \in skills \cup tx[r].skills
    BY <2>1, <2>2 DEF TypeOK
  <2>4. QED
    BY <1>1, <1>11, <2>3 DEF FindSkill, tables
<1>12. CASE InsertSkill(r)
  <2>1. tx'[r].skills = tx[r].skills \cup {cur[r]}
    BY <1>12 DEF InsertSkill, Write, TypeOK, Txs
  <2>2. QED
    BY <1>1, <1>12, <2>1 DEF InsertSkill, tables, TypeOK
<1>13. CASE Own(r)
  BY <1>1, <1>13 DEF Own, TypeOK
<1>14. QED
  BY <1>3, <1>4, <1>5, <1>6, <1>7, <1>8, <1>9, <1>10, <1>11, <1>12, <1>13 DEF Step

LEMMA StepKeepsWrote ==
  ASSUME TypeOK, NEW r \in Requests, InStep(r), Wrote(r), Step(r)
  PROVE  Wrote(r)'
<1> USE DEF Goto, locals, Setting
<1>1. op' = op /\ User(r)' = User(r) /\ Opp(r)' = Opp(r)
  BY Effects DEF Moves, User, Opp
<1>2. tx[r] \in Txs
  BY DEF TypeOK
<1>3. CASE Rollback(r) \/ Commit(r)
  BY <1>3, RollbackType, CleanIsWrote DEF Commit
<1>4. CASE \/ GetProfile(r) \/ MissProfile(r) \/ FindOpp(r) \/ Look(r) \/ Again(r)
           \/ ScanMarks(r) \/ Reload(r) \/ Reply(r)
  <2>1. tx'[r] = tx[r] /\ pc[r] \in {"get", "find", "look", "again", "scan", "reload",
                                    "reply", "refresh"}
    BY <1>4 DEF GetProfile, MissProfile, FindOpp, Look, Again, ScanMarks, Reload, Reply
  <2>2. QED
    BY <1>1, <2>1 DEF Wrote
<1>5. CASE DropScan(r) \/ NoSkillLeft(r) \/ FindSkill(r)
  <2>1. /\ tx'[r] = tx[r] /\ pc[r] \in {"dropScan", "skill"}
        /\ pc[r] = "dropScan" => pc'[r] = "drop"
        /\ pc[r] = "skill" => pc'[r] \in Setting
    BY <1>5 DEF DropScan, NoSkillLeft, FindSkill, TypeOK
  <2>2. QED
    BY <1>1, <2>1 DEF Wrote
<1>6. CASE EnsureAuth(r)
  <2>1. /\ tx'[r] = [tx[r] EXCEPT !.auth = {User(r)} \ auth]
        /\ pc[r] = "ensure" /\ pc'[r] = "create"
    BY <1>6 DEF EnsureAuth, Write, TypeOK
  <2>2. QED
    BY <1>1, <1>2, <2>1 DEF Wrote, Txs
<1>7. CASE InsertProfile(r)
  <2>1. /\ tx'[r] = [tx[r] EXCEPT !.created = {User(r)}]
        /\ pc[r] = "create" /\ pc'[r] = "created"
    BY <1>7 DEF InsertProfile, Write, TypeOK
  <2>2. QED
    BY <1>1, <1>2, <2>1 DEF Wrote, Txs
<1>8. CASE InsertMark(r)
  <2>1. /\ tx'[r] = [tx[r] EXCEPT !.marks = {[by |-> r, user |-> User(r), opp |-> Opp(r)]}]
        /\ pc[r] = "insert" /\ pc'[r] = "marked"
    BY <1>8 DEF InsertMark, Write, TypeOK
  <2>2. QED
    BY <1>1, <1>2, <2>1 DEF Wrote, Txs
<1>9. CASE DeleteMarks(r)
  <2>1. /\ tx'[r] = [tx[r] EXCEPT !.unmarks = seen[r] \cap bookmarks]
        /\ pc[r] = "delete" /\ pc'[r] = "removed"
    BY <1>9 DEF DeleteMarks, Write, TypeOK
  <2>2. QED
    BY <1>1, <1>2, <2>1 DEF InStep, Wrote, Txs
<1>10. CASE Update(r)
  <2>1. /\ tx'[r] = tx[r] \/ tx'[r] = [tx[r] EXCEPT !.column = op[r].value]
        /\ pc[r] = "update" /\ pc'[r] \in {"dropScan", "patched"}
    BY <1>10 DEF Update, TypeOK
  <2>2. QED
    BY <1>1, <1>2, <2>1 DEF Wrote, Txs
<1>11. CASE Drop(r)
  <2>1. /\ tx'[r] = [tx[r] EXCEPT !.disowns = seen[r] \cap owned]
        /\ pc[r] = "drop" /\ pc'[r] = "skill"
    BY <1>11 DEF Drop, Write, TypeOK
  <2>2. QED
    BY <1>1, <1>2, <2>1 DEF InStep, Wrote, Txs
<1>12. CASE InsertSkill(r)
  <2>1. /\ tx'[r] = [tx[r] EXCEPT !.skills = @ \cup {cur[r]}]
        /\ pc[r] = "newSkill" /\ pc'[r] = "own"
    BY <1>12 DEF InsertSkill, Write, TypeOK
  <2>2. QED
    BY <1>1, <1>2, <2>1 DEF Wrote, Txs
<1>13. CASE Own(r)
  <2>1. /\ tx'[r] = [tx[r] EXCEPT !.owns = Owned(r)]
        /\ pc[r] = "own" /\ pc'[r] = "skill"
    BY <1>13 DEF Own, Write, TypeOK
  <2>2. QED
    BY <1>1, <1>2, <2>1 DEF Wrote, Owned, Txs
<1>14. QED
  BY <1>3, <1>4, <1>5, <1>6, <1>7, <1>8, <1>9, <1>10, <1>11, <1>12, <1>13
     DEF Step, ProfileClash, CommitProfile, MarkClash, CommitAdd, CommitRemove,
         LostProfile, SkillClash, OwnClash, CommitPatch, Fail

\* All requests, whichever of them moves.
LEMMA NextSteps ==
  ASSUME TypeOK, \A r \in Requests : InStep(r) /\ Wrote(r), [Next]_vars
  PROVE  \A r \in Requests : InStep(r)' /\ Wrote(r)'
<1>1. skills \subseteq skills'
  BY SkillsStay
<1>2. ASSUME NEW r \in Requests, Moves(r), NEW q \in Requests
      PROVE  InStep(q)' /\ Wrote(q)'
  <2>1. CASE q = r
    <3>1. CASE Begin(r)
      <4>1. Wrote(r)'
        BY <3>1 DEF Begin, Wrote, locals, User, Opp, Setting
      <4>2. QED
        BY <2>1, <3>1, <4>1, Begun
    <3>2. CASE Step(r)
      BY <2>1, <3>2, StepKeepsInStep, StepKeepsWrote
    <3>3. CASE DeadlockVictim(r) \/ Crash(r)
      BY <2>1, <3>3, AnswerSteps, RollbackType, CleanIsWrote
         DEF DeadlockVictim, Crash, Fail
    <3>4. QED
      BY <1>2, <3>1, <3>2, <3>3 DEF Moves
  <2>2. CASE q # r
    <3>1. op' = op /\ SameLocals(q)
      BY <1>2, <2>2, Effects, OthersStay
    <3>2. InStep(q) /\ Wrote(q)
      OBVIOUS
    <3>3. QED
      BY <1>1, <3>1, <3>2 DEF SameLocals, InStep, Wrote, User, Opp
  <2>3. QED
    BY <2>1, <2>2
<1>3. ASSUME NEW q \in Requests, UNCHANGED <<pc, locals, tx>>
      PROVE  InStep(q)' /\ Wrote(q)'
  <2>1. InStep(q) /\ Wrote(q)
    OBVIOUS
  <2>2. QED
    BY <1>1, <1>3, <2>1 DEF locals, InStep, Wrote, User, Opp
<1>4. QED
  BY <1>2, <1>3 DEF Next, Moves, CloseAccount, AllDone, vars

-----------------------------------------------------------------------------
(* What is written can be committed                                        *)

Sound ==
  /\ \A r \in Requests : Fitting(r)
  /\ \A r, q \in Requests : r # q => Apart(r, q)
  /\ RowsAreSound

LEMMA ApartIsMutual ==
  ASSUME NEW r, NEW q, Apart(r, q)
  PROVE  Apart(q, r)
  BY DEF Apart, SamePair, SameOwn, SameSkill

\* Fitting depends on the tables, and on what the request has written.
LEMMA FittingStays ==
  ASSUME NEW r, Fitting(r), UNCHANGED <<tables, op>>, tx'[r] = tx[r]
  PROVE  Fitting(r)'
  BY DEF tables, Fitting, User

LEMMA ApartStays ==
  ASSUME NEW r, NEW q, Apart(r, q), tx'[r] = tx[r], tx'[q] = tx[q]
  PROVE  Apart(r, q)'
  BY DEF Apart

LEMMA RowsStay ==
  ASSUME RowsAreSound, UNCHANGED tables
  PROVE  RowsAreSound'
  BY DEF RowsAreSound, tables

\* Whoever ends without a commit was in nobody's way.
LEMMA RollbackKeepsSound ==
  ASSUME TypeOK, Sound, NEW r \in Requests, Rollback(r), UNCHANGED <<tables, op>>
  PROVE  Sound'
<1>1. tx'[r] = NoTx /\ \A q \in Requests \ {r} : tx'[q] = tx[q]
  BY RollbackType
<1>2. Fitting(r)' /\ \A q \in Requests \ {r} : Apart(r, q)' /\ Apart(q, r)'
  BY <1>1 DEF Fitting, Apart, NoTx
<1>3. \A q \in Requests \ {r} : Fitting(q)'
  BY <1>1, FittingStays DEF Sound
<1>4. \A p, q \in Requests \ {r} : p # q => Apart(p, q)'
  BY <1>1, ApartStays DEF Sound
<1>5. QED
  BY <1>2, <1>3, <1>4, RowsStay DEF Sound

\* A write must fit the tables, and be apart from what others have written.
LEMMA WriteKeepsSound ==
  ASSUME TypeOK, Sound, NEW r \in Requests, Moves(r), UNCHANGED <<tables, op>>,
         Fitting(r)', \A q \in Requests \ {r} : Apart(r, q)'
  PROVE  Sound'
<1>1. \A q \in Requests \ {r} : tx'[q] = tx[q]
  BY OthersStay DEF SameLocals
<1>2. \A q \in Requests \ {r} : Fitting(q)'
  BY <1>1, FittingStays DEF Sound
<1>3. \A p, q \in Requests \ {r} : p # q => Apart(p, q)'
  BY <1>1, ApartStays DEF Sound
<1>4. \A q \in Requests \ {r} : Apart(q, r)'
  BY DEF Apart, SamePair, SameOwn, SameSkill
<1>5. QED
  BY <1>2, <1>3, <1>4, RowsStay DEF Sound

\* It does: an INSERT has checked the tables and waited for the others.
LEMMA WritesFit ==
  ASSUME TypeOK, Sound, NEW r \in Requests, InStep(r), Wrote(r), Moves(r),
         Writes(r), UNCHANGED <<tables, op>>
  PROVE  Fitting(r)' /\ \A q \in Requests \ {r} : Apart(r, q)'
<1> USE DEF tables
<1>1. User(r)' = User(r) /\ Opp(r)' = Opp(r) /\ tx[r] \in Txs
  BY DEF User, Opp, TypeOK
<1>2. \A q \in Requests \ {r} : tx'[q] = tx[q]
  BY OthersStay DEF SameLocals
<1>3. Fitting(r) /\ \A q \in Requests \ {r} : Apart(r, q)
  BY DEF Sound
<1>4. CASE EnsureAuth(r)
  <2>1. tx'[r] = [tx[r] EXCEPT !.auth = {User(r)} \ auth] /\ pc[r] = "ensure"
    BY <1>4 DEF EnsureAuth, Write, TypeOK
  <2>2. tx[r].created = {}
    BY <2>1 DEF Wrote
  <2>3. QED
    BY <1>1, <1>2, <1>3, <2>1, <2>2 DEF Fitting, Apart, Txs
<1>5. CASE InsertProfile(r)
  <2>1. /\ tx'[r] = [tx[r] EXCEPT !.created = {User(r)}]
        /\ User(r) \in auth \cup tx[r].auth
    BY <1>5 DEF InsertProfile, Write, TypeOK
  <2>2. QED
    BY <1>1, <1>2, <1>3, <2>1 DEF Fitting, Apart, Txs
<1>6. CASE InsertMark(r)
  <2>1. PICK m \in {[by |-> r, user |-> User(r), opp |-> Opp(r)]} :
          tx'[r] = [tx[r] EXCEPT !.marks = {m}]
    BY <1>6 DEF InsertMark, Write, TypeOK
  <2>2. m.user = User(r) /\ m.opp = Opp(r)
    OBVIOUS
  <2>3. /\ pc[r] = "insert" /\ MarkFits(r)
        /\ \A q \in Requests \ {r} : \A b \in tx[q].marks :
             ~(b.user = User(r) /\ b.opp = Opp(r))
    BY <1>6 DEF InsertMark, Blocked, WaitsFor
  <2>4. Opp(r) \in Listed
    BY <2>3 DEF InStep, Adding
  <2>5. Fitting(r)'
    BY <1>1, <1>3, <2>1, <2>2, <2>3, <2>4 DEF Fitting, MarkFits, MarksOf, SamePair, Txs
  <2>6. \A q \in Requests \ {r} : Apart(r, q)'
    BY <1>1, <1>2, <1>3, <2>1, <2>2, <2>3 DEF Apart, SamePair, Txs
  <2>7. QED
    BY <2>5, <2>6
<1>7. CASE DeleteMarks(r)
  <2>1. tx'[r] = [tx[r] EXCEPT !.unmarks = seen[r] \cap bookmarks]
    BY <1>7 DEF DeleteMarks, Write, TypeOK
  <2>2. QED
    BY <1>1, <1>2, <1>3, <2>1 DEF Fitting, Apart, Txs
<1>8. CASE Update(r) /\ Dirty(r)
  <2>1. tx'[r] = [tx[r] EXCEPT !.column = op[r].value] /\ profile[User(r)] # NoProfile
    BY <1>8 DEF Update, TypeOK
  <2>2. QED
    BY <1>1, <1>2, <1>3, <2>1 DEF Fitting, Apart, Txs
<1>9. CASE Drop(r)
  <2>1. tx'[r] = [tx[r] EXCEPT !.disowns = seen[r] \cap owned] /\ pc[r] = "drop"
    BY <1>9 DEF Drop, Write, TypeOK
  <2>2. tx[r].owns = {}
    BY <2>1 DEF Wrote, Setting
  <2>3. QED
    BY <1>1, <1>2, <1>3, <2>1, <2>2 DEF Fitting, Apart, Txs
<1>10. CASE InsertSkill(r)
  <2>1. PICK s \in {cur[r]} : tx'[r] = [tx[r] EXCEPT !.skills = @ \cup {s}]
    BY <1>10 DEF InsertSkill, Write, TypeOK
  <2>2. /\ \A t \in skills \cup tx[r].skills : ~SameSkill(t, s)
        /\ \A q \in Requests \ {r} : \A t \in tx[q].skills : ~SameSkill(t, s)
    BY <1>10 DEF InsertSkill, SkillFits, Blocked, WaitsFor
  <2>3. Fitting(r)'
    BY <1>1, <1>3, <2>1, <2>2 DEF Fitting, SameSkill, Txs
  <2>4. \A q \in Requests \ {r} : Apart(r, q)'
    BY <1>1, <1>2, <1>3, <2>1, <2>2 DEF Apart, SameSkill, Txs
  <2>5. QED
    BY <2>3, <2>4
<1>11. CASE Own(r)
  <2>1. PICK o \in {[by |-> r, user |-> User(r), skill |-> cur[r]]} :
          tx'[r] = [tx[r] EXCEPT !.owns = @ \cup {o}]
    BY <1>11 DEF Own, Owned, Write, TypeOK
  <2>2. o.user = User(r) /\ o.skill = cur[r]
    OBVIOUS
  <2>3. /\ pc[r] = "own" /\ OwnFits(r)
        /\ \A q \in Requests \ {r} : \A p \in tx[q].owns :
             ~(p.user = User(r) /\ p.skill = cur[r])
    BY <1>11 DEF Own, Blocked, WaitsFor
  <2>4. cur[r] \in skills \cup tx[r].skills
    BY <2>3 DEF InStep
  <2>5. profile[User(r)] # NoProfile /\ \A p \in tx[r].owns : ~SameOwn(o, p)
    BY <2>2, <2>3 DEF OwnFits, SameOwn
  <2>6. \A p \in owned \ tx[r].disowns : ~SameOwn(o, p)
    BY <2>2, <2>3 DEF OwnFits, OwnsOf, SameOwn
  <2>7. Fitting(r)'
    <3>1. tx'[r].owns = tx[r].owns \cup {o}
      BY <1>1, <2>1 DEF Txs
    <3>2. /\ tx'[r].auth = tx[r].auth /\ tx'[r].created = tx[r].created
          /\ tx'[r].column = tx[r].column /\ tx'[r].marks = tx[r].marks
          /\ tx'[r].skills = tx[r].skills /\ tx'[r].disowns = tx[r].disowns
      BY <1>1, <2>1 DEF Txs
    <3>3. \A p \in tx[r].owns : ~SameOwn(p, o)
      BY <2>5 DEF SameOwn
    <3>4. QED
      BY <1>1, <1>3, <2>2, <2>4, <2>5, <2>6, <3>1, <3>2, <3>3 DEF Fitting
  <2>8. \A q \in Requests \ {r} : Apart(r, q)'
    BY <1>1, <1>2, <1>3, <2>1, <2>2, <2>3 DEF Apart, SameOwn, Txs
  <2>9. QED
    BY <2>7, <2>8
<1>12. QED
  BY <1>4, <1>5, <1>6, <1>7, <1>8, <1>9, <1>10, <1>11 DEF Writes

\* A commit adds rows and takes others away; accounts and skills stay.
LEMMA CommitGrows ==
  ASSUME TypeOK, NEW r \in Requests, Wrote(r), Commit(r)
  PROVE  /\ auth \subseteq auth' /\ skills \subseteq skills'
         /\ \A u \in Users : profile[u] # NoProfile => profile'[u] # NoProfile
<1>1. tx[r].column \in Values \cup {Unset}
  BY DEF TypeOK, Txs, Columns
<1>2. \A u \in Users : profile[u] # NoProfile => profile'[u] # NoProfile
  BY <1>1, ConstantTypes DEF Commit
<1>3. QED
  BY <1>2 DEF Commit

LEMMA CommitKeepsRows ==
  ASSUME TypeOK, Sound, NEW r \in Requests, Wrote(r), Commit(r)
  PROVE  RowsAreSound'
<1>1. Fitting(r) /\ RowsAreSound /\ User(r) \in Users
  BY OpType DEF Sound
<1>2. /\ auth \subseteq auth' /\ skills' = skills \cup tx[r].skills
      /\ auth' = auth \cup tx[r].auth
      /\ \A u \in Users : profile[u] # NoProfile => profile'[u] # NoProfile
      /\ bookmarks' = (bookmarks \cup tx[r].marks) \ tx[r].unmarks
      /\ owned' = (owned \ tx[r].disowns) \cup tx[r].owns
  BY CommitGrows DEF Commit
<1>3. ASSUME NEW u \in Users, profile'[u] # NoProfile PROVE u \in auth'
  <2>1. u \in tx[r].created \/ profile[u] # NoProfile
    BY <1>1, <1>3 DEF Commit, Fitting
  <2>2. QED
    BY <1>1, <1>2, <2>1 DEF Fitting, RowsAreSound
<1>4. \A a, b \in bookmarks' : a.user = b.user /\ a.opp = b.opp => a = b
  <2>1. \A b \in tx[r].marks : /\ \A a \in bookmarks : ~SamePair(a, b)
                              /\ \A a \in tx[r].marks : a = b
    BY <1>1 DEF Fitting
  <2>2. QED
    BY <1>1, <1>2, <2>1 DEF RowsAreSound, SamePair
<1>5. \A a, b \in owned' : a.user = b.user /\ a.skill = b.skill => a = b
  <2>1. \A o \in tx[r].owns : /\ \A p \in owned \ tx[r].disowns : ~SameOwn(o, p)
                             /\ \A p \in tx[r].owns : SameOwn(o, p) => o = p
    BY <1>1 DEF Fitting
  <2>2. QED
    BY <1>1, <1>2, <2>1 DEF RowsAreSound, SameOwn
<1>6. \A s, t \in skills' : SameSkill(s, t) => s = t
  <2>1. \A s \in tx[r].skills : /\ \A t \in skills : ~SameSkill(s, t)
                               /\ \A t \in tx[r].skills : SameSkill(s, t) => s = t
    BY <1>1 DEF Fitting
  <2>2. QED
    BY <1>1, <1>2, <2>1 DEF RowsAreSound, SameSkill
<1>7. \A b \in bookmarks' : profile'[b.user] # NoProfile /\ b.opp \in Listed
  <2>1. \A b \in bookmarks : b.user \in Users
    BY DEF TypeOK, Marks
  <2>2. \A b \in tx[r].marks : b.user = User(r) /\ profile[User(r)] # NoProfile /\ b.opp \in Listed
    BY <1>1 DEF Fitting, Wrote
  <2>3. QED
    BY <1>1, <1>2, <2>1, <2>2 DEF RowsAreSound
<1>8. \A o \in owned' : profile'[o.user] # NoProfile /\ o.skill \in skills'
  <2>1. \A o \in owned : o.user \in Users
    BY DEF TypeOK, Owns
  <2>2. \A o \in tx[r].owns : /\ o.user = User(r) /\ profile[User(r)] # NoProfile
                             /\ o.skill \in skills \cup tx[r].skills
    BY <1>1 DEF Fitting, Wrote
  <2>3. QED
    BY <1>1, <1>2, <2>1, <2>2 DEF RowsAreSound
<1>9. QED
  BY <1>3, <1>4, <1>5, <1>6, <1>7, <1>8 DEF RowsAreSound, SameSkill

LEMMA CommitKeepsSound ==
  ASSUME TypeOK, Sound, NEW r \in Requests, \A q \in Requests : Wrote(q),
         Commit(r), op' = op
  PROVE  Sound'
<1>1. tx'[r] = NoTx /\ \A q \in Requests \ {r} : tx'[q] = tx[q]
  BY RollbackType DEF Commit
<1>2. Fitting(r)' /\ \A q \in Requests \ {r} : Apart(r, q)' /\ Apart(q, r)'
  BY <1>1 DEF Fitting, Apart, NoTx
<1>3. ASSUME NEW q \in Requests \ {r} PROVE Fitting(q)'
  <2>1. Fitting(q) /\ Apart(q, r) /\ User(q) \in Users /\ User(q)' = User(q)
    BY OpType DEF Sound, User
  <2>2. /\ auth \subseteq auth' /\ skills' = skills \cup tx[r].skills
        /\ profile[User(q)] # NoProfile => profile'[User(q)] # NoProfile
        /\ bookmarks' \subseteq bookmarks \cup tx[r].marks
        /\ owned' \subseteq owned \cup tx[r].owns
    BY <2>1, CommitGrows DEF Commit
  <2>3. \A b \in tx[q].marks, a \in bookmarks' : ~SamePair(a, b)
    BY <2>1, <2>2 DEF Fitting, Apart, SamePair
  <2>4. \A s \in tx[q].skills, t \in skills' : ~SameSkill(s, t)
    BY <2>1, <2>2 DEF Fitting, Apart
  <2>5. \A o \in tx[q].owns, p \in owned' \ tx[q].disowns : ~SameOwn(o, p)
    BY <2>1, <2>2 DEF Fitting, Apart
  <2>6. QED
    BY <1>1, <2>1, <2>2, <2>3, <2>4, <2>5 DEF Fitting, SameSkill
<1>4. \A p, q \in Requests \ {r} : p # q => Apart(p, q)'
  BY <1>1, ApartStays DEF Sound
<1>5. QED
  BY <1>2, <1>3, <1>4, CommitKeepsRows DEF Sound

\* Closing an account waits for whoever has written rows of its user.
LEMMA CloseKeepsSound ==
  ASSUME TypeOK, Sound, \A r \in Requests : Wrote(r),
         NEW u \in Users, CloseAccount(u)
  PROVE  Sound'
<1>1. /\ \A r \in Requests : ~Holds(r, u)
      /\ auth' = auth \ {u} /\ profile' = [profile EXCEPT ![u] = NoProfile]
      /\ bookmarks' = {b \in bookmarks : b.user # u}
      /\ owned' = {o \in owned : o.user # u}
      /\ UNCHANGED <<skills, op, tx>>
  BY DEF CloseAccount, locals
<1>2. RowsAreSound'
  <2>1. /\ \A b \in bookmarks : b.user \in Users
        /\ \A o \in owned : o.user \in Users
    BY DEF TypeOK, Marks, Owns
  <2>2. \A v \in Users \ {u} : profile'[v] = profile[v]
    BY <1>1 DEF TypeOK
  <2>3. profile'[u] = NoProfile
    BY <1>1 DEF TypeOK
  <2>4. RowsAreSound
    BY DEF Sound
  <2>5. /\ \A v \in Users : profile'[v] # NoProfile => v \in auth'
        /\ \A s, t \in skills' : SameSkill(s, t) => s = t
    BY <1>1, <2>2, <2>3, <2>4 DEF RowsAreSound
  <2>6. /\ \A a, b \in bookmarks' : a.user = b.user /\ a.opp = b.opp => a = b
        /\ \A b \in bookmarks' : profile'[b.user] # NoProfile /\ b.opp \in Listed
    BY <1>1, <2>1, <2>2, <2>4 DEF RowsAreSound
  <2>7. /\ \A a, b \in owned' : a.user = b.user /\ a.skill = b.skill => a = b
        /\ \A o \in owned' : profile'[o.user] # NoProfile /\ o.skill \in skills'
    BY <1>1, <2>1, <2>2, <2>4 DEF RowsAreSound
  <2>8. QED
    BY <2>5, <2>6, <2>7 DEF RowsAreSound, SameSkill
<1>3. ASSUME NEW r \in Requests PROVE Fitting(r)'
  <2>1. Fitting(r) /\ Wrote(r) /\ ~Holds(r, u) /\ User(r) \in Users /\ User(r)' = User(r)
    BY <1>1, OpType DEF Sound, User
  <2>2. tx[r].created \subseteq auth' \cup tx[r].auth
    BY <1>1, <2>1 DEF Fitting, Holds
  <2>3. \/ profile'[User(r)] = profile[User(r)]
        \/ tx[r].column = Unset /\ tx[r].marks = {} /\ tx[r].owns = {}
    BY <1>1, <2>1 DEF Holds, TypeOK
  <2>4. QED
    BY <1>1, <2>1, <2>2, <2>3 DEF Fitting, SameSkill
<1>4. \A r, q \in Requests : r # q => Apart(r, q)'
  BY <1>1, ApartStays DEF Sound
<1>5. QED
  BY <1>2, <1>3, <1>4 DEF Sound

LEMMA NextSound ==
  ASSUME TypeOK, Sound, \A r \in Requests : InStep(r) /\ Wrote(r), [Next]_vars
  PROVE  Sound'
<1>1. ASSUME UNCHANGED <<tables, op, tx>> PROVE Sound'
  BY <1>1, FittingStays, ApartStays, RowsStay DEF Sound
<1>2. ASSUME NEW r \in Requests, Moves(r) PROVE Sound'
  <2>1. op' = op
    BY <1>2, Effects
  <2>2. CASE UNCHANGED <<tables, tx>>
    BY <1>1, <2>1, <2>2
  <2>3. CASE UNCHANGED tables /\ Rollback(r)
    BY <2>1, <2>3, RollbackKeepsSound
  <2>4. CASE UNCHANGED tables /\ Writes(r)
    BY <1>2, <2>1, <2>4, WritesFit, WriteKeepsSound
  <2>5. CASE Commit(r)
    BY <2>1, <2>5, CommitKeepsSound
  <2>6. QED
    BY <1>2, <2>2, <2>3, <2>4, <2>5, Effects
<1>3. ASSUME NEW u \in Users, CloseAccount(u) PROVE Sound'
  BY <1>3, CloseKeepsSound
<1>4. QED
  BY <1>1, <1>2, <1>3 DEF Next, Moves, AllDone, vars, locals

LEMMA InitHolds == Init => IInv
<1> SUFFICES ASSUME Init PROVE IInv
  OBVIOUS
<1>1. profile \in [Users -> Values \cup {NoProfile}]
  BY ConstantTypes DEF Init
<1>2. auth \subseteq Users
  BY DEF Init
<1>3. TypeOK
  BY <1>1, <1>2, ConstantTypes, NoTxType DEF Init, TypeOK, Steps
<1>4. \A r \in Requests : InStep(r) /\ Wrote(r) /\ Fitting(r)
  BY DEF Init, NoTx, InStep, Wrote, Fitting, Adding, Removing, Patching, Setting
<1>5. \A r, q \in Requests : Apart(r, q)
  BY DEF Init, NoTx, Apart
<1>6. RowsAreSound
  BY DEF Init, RowsAreSound
<1>7. QED
  BY <1>3, <1>4, <1>5, <1>6 DEF IInv

LEMMA NextHolds == IInv /\ [Next]_vars => IInv'
<1> SUFFICES ASSUME IInv, [Next]_vars PROVE IInv'
  OBVIOUS
<1>1. TypeOK' /\ \A r \in Requests : InStep(r)' /\ Wrote(r)'
  BY NextType, NextSteps DEF IInv
<1>2. Sound'
  BY NextSound DEF IInv, Sound
<1>3. QED
  BY <1>1, <1>2 DEF IInv, Sound

\* Everything above holds in every state.
THEOREM Invariance == Spec => []IInv
  BY InitHolds, NextHolds, PTL DEF Spec

\* The tables, the requests and their transactions have the declared types.
THEOREM TypeCorrect == Spec => []TypeOK
<1>1. IInv => TypeOK
  BY DEF IInv
<1>2. QED
  BY Invariance, <1>1, PTL

\* One profile per account, one bookmark per pair, one row per skill of a
\* user, one spelling per skill, and no row without the rows it refers to,
\* whatever overlaps, crashes or closes (bookmark_service.py 48-58,
\* profile_repository.py 45-58).
THEOREM RowsStaySound == Spec => []RowsAreSound
<1>1. IInv => RowsAreSound
  BY DEF IInv
<1>2. QED
  BY Invariance, <1>1, PTL

-----------------------------------------------------------------------------
(* Rows are of requests that have committed                                *)

LEMMA PastStays ==
  ASSUME TypeOK, NEW r \in Requests, Moves(r), NEW q \in Requests, Past(q)
  PROVE  Past(q)'
<1>1. CASE q # r
  BY <1>1, OthersStay DEF SameLocals, Past
<1>2. CASE q = r
  <2>1. pc[r] \in {"refresh", "done"}
    BY <1>2 DEF Past
  <2>2. CASE Fail(r) \/ \E how \in {"ok", "not_found", "error"} : Answer(r, how)
    BY <1>2, <2>2 DEF Fail, Answer, Goto, TypeOK, Past
  <2>3. CASE Begin(r) \/ DeadlockVictim(r) \/ Crash(r)
    BY <2>1, <2>2, <2>3 DEF Begin, DeadlockVictim, Crash
  <2>4. CASE LostProfile(r) \/ Reply(r)
    BY <2>2, <2>4 DEF LostProfile, Reply
  <2>5. CASE Step(r) /\ ~LostProfile(r) /\ ~Reply(r)
    <3>1. /\ ~GetProfile(r) /\ ~MissProfile(r) /\ ~EnsureAuth(r) /\ ~InsertProfile(r)
          /\ ~ProfileClash(r) /\ ~CommitProfile(r) /\ ~FindOpp(r) /\ ~Look(r)
      BY <2>1 DEF GetProfile, MissProfile, EnsureAuth, InsertProfile, ProfileClash,
                  CommitProfile, FindOpp, Look
    <3>2. /\ ~InsertMark(r) /\ ~MarkClash(r) /\ ~Again(r) /\ ~CommitAdd(r)
          /\ ~ScanMarks(r) /\ ~DeleteMarks(r) /\ ~CommitRemove(r) /\ ~Reload(r)
      BY <2>1 DEF InsertMark, MarkClash, Again, CommitAdd, ScanMarks, DeleteMarks,
                  CommitRemove, Reload
    <3>3. /\ ~Update(r) /\ ~DropScan(r) /\ ~Drop(r) /\ ~NoSkillLeft(r) /\ ~FindSkill(r)
          /\ ~InsertSkill(r) /\ ~SkillClash(r) /\ ~Own(r) /\ ~OwnClash(r) /\ ~CommitPatch(r)
      BY <2>1 DEF Update, DropScan, Drop, NoSkillLeft, FindSkill, InsertSkill,
                  SkillClash, Own, OwnClash, CommitPatch
    <3>4. QED
      BY <2>5, <3>1, <3>2, <3>3 DEF Step
  <2>6. QED
    BY <2>3, <2>4, <2>5 DEF Moves
<1>3. QED
  BY <1>1, <1>2

\* What a request has seen was there.
LEMMA SeenWasThere ==
  ASSUME TypeOK, NEW r \in Requests, Moves(r)
  PROVE  seen'[r] \subseteq seen[r] \cup bookmarks \cup owned
<1> USE DEF TypeOK, locals
<1>1. CASE Fail(r) \/ \E how \in {"ok", "not_found", "error"} : Answer(r, how)
  BY <1>1 DEF Fail, Answer
<1>2. CASE Begin(r) \/ DeadlockVictim(r) \/ Crash(r)
  BY <1>1, <1>2 DEF Begin, DeadlockVictim, Crash
<1>3. CASE ScanMarks(r) \/ DropScan(r)
  BY <1>3 DEF ScanMarks, DropScan, MarksOf, OwnsOf
<1>4. CASE Step(r) /\ ~ScanMarks(r) /\ ~DropScan(r)
  <2>1. CASE \/ GetProfile(r) \/ MissProfile(r) \/ EnsureAuth(r) \/ InsertProfile(r)
             \/ CommitProfile(r) \/ InsertMark(r) \/ MarkClash(r) \/ DeleteMarks(r)
    BY <2>1 DEF GetProfile, MissProfile, EnsureAuth, InsertProfile, CommitProfile,
                InsertMark, MarkClash, DeleteMarks
  <2>2. CASE \/ Reload(r) \/ Update(r) \/ Drop(r) \/ NoSkillLeft(r) \/ FindSkill(r)
             \/ InsertSkill(r) \/ Own(r) \/ CommitPatch(r)
    BY <2>2 DEF Reload, Update, Drop, NoSkillLeft, FindSkill, InsertSkill, Own,
                CommitPatch
  <2>3. CASE \/ ProfileClash(r) \/ LostProfile(r) \/ SkillClash(r) \/ OwnClash(r)
             \/ Again(r) \/ CommitAdd(r) \/ CommitRemove(r) \/ Reply(r)
    BY <1>1, <2>3 DEF ProfileClash, LostProfile, SkillClash, OwnClash, Again,
                      CommitAdd, CommitRemove, Reply
  <2>4. CASE FindOpp(r) \/ Look(r)
    BY <1>1, <2>4 DEF FindOpp, Look
  <2>5. QED
    BY <1>4, <2>1, <2>2, <2>3, <2>4 DEF Step
<1>5. QED
  BY <1>2, <1>3, <1>4 DEF Moves

\* A commit brings in rows of the request only, which was not past it and is now.
LEMMA CommitsDate ==
  ASSUME TypeOK, NEW r \in Requests, Wrote(r), Commits(r)
  PROVE  /\ \A b \in bookmarks' \ bookmarks : b.by = r /\ ~Past(r) /\ Past(r)'
         /\ \A o \in owned' \ owned : o.by = r /\ ~Past(r) /\ Past(r)'
<1>1. Commit(r) /\ pc[r] \in {"created", "marked", "removed", "patched"}
  BY DEF Commits, CommitProfile, CommitAdd, CommitRemove, CommitPatch
<1>2. /\ bookmarks' \ bookmarks \subseteq tx[r].marks
      /\ owned' \ owned \subseteq tx[r].owns
  BY <1>1 DEF Commit
<1>3. pc[r] \in {"marked", "patched"} => pc'[r] \in {"done", "refresh"}
  BY DEF Commits, CommitProfile, CommitAdd, CommitRemove, CommitPatch, Answer, Goto, TypeOK
<1>4. QED
  BY <1>1, <1>2, <1>3 DEF Wrote, Past, Setting

LEMMA NextDated ==
  ASSUME TypeOK, \A r \in Requests : Wrote(r), Dated, [Next]_vars
  PROVE  Dated'
<1>1. ASSUME NEW r \in Requests, Moves(r) PROVE Dated'
  <2>1. \A q \in Requests : Past(q) => Past(q)'
    BY <1>1, PastStays
  <2>2. /\ \A b \in bookmarks \cup bookmarks' : b.by \in Requests
        /\ \A o \in owned \cup owned' : o.by \in Requests
    <3>1. TypeOK => bookmarks \subseteq Marks /\ owned \subseteq Owns
      BY DEF TypeOK
    <3>2. bookmarks' \subseteq Marks /\ owned' \subseteq Owns
      BY <1>1, <3>1, Effects, CommitType DEF tables
    <3>3. QED
      BY <3>1, <3>2 DEF Marks, Owns
  <2>3. /\ \A b \in bookmarks' \ bookmarks : Past(b.by)'
        /\ \A o \in owned' \ owned : Past(o.by)'
    BY <1>1, Effects, CommitsDate DEF tables
  <2>4. /\ \A b \in bookmarks' : Past(b.by)'
        /\ \A o \in owned' : Past(o.by)'
    BY <2>1, <2>2, <2>3 DEF Dated
  <2>5. ASSUME NEW q \in Requests, ~Past(q)', NEW o \in seen'[q] PROVE Past(o.by)'
    <3>1. ~Past(q)
      BY <2>1, <2>5
    <3>2. o \in seen[q] \cup bookmarks \cup owned
      BY <1>1, <2>5, SeenWasThere, OthersStay DEF SameLocals
    <3>3. o.by \in Requests
      BY <3>2 DEF TypeOK, Marks, Owns
    <3>4. Past(o.by)
      BY <3>1, <3>2 DEF Dated
    <3>5. QED
      BY <2>1, <3>3, <3>4
  <2>6. QED
    BY <2>4, <2>5 DEF Dated
<1>2. ASSUME NEW u \in Users, CloseAccount(u) PROVE Dated'
  BY <1>2 DEF CloseAccount, locals, Dated, Past
<1>3. CASE UNCHANGED vars
  BY <1>3 DEF vars, tables, locals, Dated, Past
<1>4. QED
  BY <1>1, <1>2, <1>3 DEF Next, Moves, AllDone

-----------------------------------------------------------------------------
(* The names of a PATCH                                                    *)

\* A request that has nothing to come.
LEMMA NothingUnderway ==
  ASSUME NEW r \in Requests, Wrote(r)', todo'[r] = {},
         pc'[r] \notin {"marked", "removed", "drop"} \cup Setting,
         pc'[r] \in {"delete", "refresh"} \/ seen'[r] = {}
  PROVE  Underway(r)' /\ Sorted(r)'
<1>1. tx'[r].skills = {}
  BY DEF Wrote
<1>2. Underway(r)'
  BY DEF Underway, Setting
<1>3. Sorted(r)'
  BY <1>1 DEF Sorted, Setting
<1>4. QED
  BY <1>2, <1>3

\* Names still to come are those after the one in hand.
LEMMA FindSkillKeepsNames ==
  ASSUME TypeOK, NEW r \in Requests, InStep(r), Underway(r), Sorted(r), FindSkill(r)
  PROVE  Underway(r)' /\ Sorted(r)'
<1>1. PICK n \in todo[r] :
        LET found == {s \in skills \cup tx[r].skills :
                        IF FoldingLookup THEN SameSkill(s, n) ELSE s = n}
        IN /\ NextName(r, n)
           /\ todo' = [todo EXCEPT ![r] = @ \ {n}]
           /\ IF found = {}
              THEN cur' = [cur EXCEPT ![r] = n] /\ Goto(r, "newSkill")
              ELSE /\ \E s \in found : cur' = [cur EXCEPT ![r] = s]
                   /\ Goto(r, "own")
  BY DEF FindSkill
<1>2. /\ pc[r] = "skill" /\ pc'[r] \in {"newSkill", "own"}
      /\ todo'[r] = todo[r] \ {n}
      /\ Fold[cur'[r]] = Fold[n]
      /\ pc'[r] = "newSkill" => cur'[r] = n
      /\ UNCHANGED <<tables, op, seen, tx>>
  BY <1>1 DEF FindSkill, Goto, SameSkill, TypeOK
<1>3. todo[r] \subseteq SkillNames /\ tx[r].skills \subseteq SkillNames
  BY DEF TypeOK, Txs
<1>4. Folded(todo[r]) = Folded(todo'[r]) \cup {Fold[cur'[r]]}
  BY <1>2 DEF Folded
<1>5. Underway(r)'
  <2>1. op[r].replaces => {Fold[o.skill] : o \in tx[r].owns} \cup Folded(todo[r])
                          = Folded(op[r].skills)
    BY <1>2 DEF Underway, Setting
  <2>2. seen[r] \cap owned \subseteq tx[r].disowns
    BY <1>2 DEF Underway, Setting
  <2>3. op[r].replaces => {Fold[o.skill] : o \in tx[r].owns} \cup Folded(todo'[r])
                          \cup {Fold[cur'[r]]} = Folded(op[r].skills)
    BY <1>4, <2>1
  <2>4. QED
    BY <1>2, <2>2, <2>3 DEF Underway, Setting, Folded, tables
<1>6. Sorted(r)'
  <2>1. \A m \in todo[r] \ {n} : Rank[n] < Rank[m]
    <3>1. \A m \in todo[r] : Rank[n] <= Rank[m]
      BY <1>1 DEF NextName
    <3>2. \A m \in todo[r] : Rank[m] \in Nat /\ (Rank[m] = Rank[n] => m = n)
      BY <1>3, UserDataAssumption
    <3>3. QED
      BY <3>1, <3>2
  <2>2. QED
    BY <1>2, <2>1 DEF Sorted
<1>7. QED
  BY <1>5, <1>6

LEMMA OwnKeepsNames ==
  ASSUME TypeOK, NEW r \in Requests, Underway(r), Sorted(r), Own(r)
  PROVE  Underway(r)' /\ Sorted(r)'
<1>1. PICK o \in {[by |-> r, user |-> User(r), skill |-> cur[r]]} :
        tx'[r] = [tx[r] EXCEPT !.owns = @ \cup {o}]
  BY DEF Own, Owned, Write, TypeOK
<1>2. /\ pc[r] = "own" /\ pc'[r] = "skill" /\ todo'[r] = todo[r] /\ seen'[r] = seen[r]
      /\ op' = op /\ owned' = owned
  BY DEF Own, Goto, TypeOK, tables
<1>3. /\ tx'[r].owns = tx[r].owns \cup {o} /\ tx'[r].disowns = tx[r].disowns
      /\ tx'[r].skills = tx[r].skills
  BY <1>1 DEF TypeOK, Txs
<1>4. o.skill = cur[r]
  OBVIOUS
<1>5. {Fold[p.skill] : p \in tx'[r].owns}
      = {Fold[p.skill] : p \in tx[r].owns} \cup {Fold[cur[r]]}
  BY <1>3, <1>4
<1>6. Underway(r)'
  <2>1. op[r].replaces => {Fold[p.skill] : p \in tx[r].owns} \cup Folded(todo[r])
                          \cup {Fold[cur[r]]} = Folded(op[r].skills)
    BY <1>2 DEF Underway, Setting
  <2>2. op[r].replaces => {Fold[p.skill] : p \in tx'[r].owns} \cup Folded(todo[r])
                          = Folded(op[r].skills)
    BY <1>5, <2>1
  <2>3. seen[r] \cap owned \subseteq tx[r].disowns
    BY <1>2 DEF Underway, Setting
  <2>4. QED
    BY <1>2, <1>3, <2>2, <2>3 DEF Underway, Setting, Folded
<1>7. Sorted(r)'
  BY <1>2, <1>3 DEF Sorted
<1>8. QED
  BY <1>6, <1>7

LEMMA StepKeepsNames ==
  ASSUME TypeOK, NEW r \in Requests, InStep(r), Wrote(r), Wrote(r)',
         Underway(r), Sorted(r), Moves(r)
  PROVE  Underway(r)' /\ Sorted(r)'
<1> USE DEF locals, tables
<1>1. CASE Fail(r) \/ \E how \in {"ok", "not_found", "error"} : Answer(r, how)
  <2>1. todo'[r] = {} /\ seen'[r] = {} /\ pc'[r] = "done"
    BY <1>1 DEF Fail, Answer, Goto, TypeOK
  <2>2. QED
    BY <2>1, NothingUnderway DEF Setting
<1>2. CASE /\ todo'[r] = todo[r] /\ seen'[r] = seen[r]
           /\ pc[r] \notin {"delete", "removed", "drop", "refresh"} \cup Setting
           /\ pc'[r] \notin {"marked", "removed", "drop"} \cup Setting
  <2>1. todo[r] = {} /\ seen[r] = {}
    BY <1>2 DEF Underway, Setting
  <2>2. QED
    BY <1>2, <2>1, NothingUnderway
<1>3. CASE Begin(r)
  BY <1>2, <1>3, OpType DEF Begin, Goto, TypeOK, Setting
<1>4. CASE DeadlockVictim(r) \/ Crash(r)
  BY <1>1, <1>4 DEF DeadlockVictim, Crash
<1>5. CASE Step(r)
  <2>1. CASE GetProfile(r) \/ MissProfile(r) \/ EnsureAuth(r) \/ InsertProfile(r)
             \/ CommitProfile(r)
    BY <1>2, <2>1 DEF GetProfile, MissProfile, EnsureAuth, InsertProfile,
         CommitProfile, Resume, Goto, TypeOK, Setting
  <2>2. CASE MarkClash(r) \/ Reload(r)
    BY <1>2, <2>2 DEF MarkClash, Reload, Goto, TypeOK, Setting
  <2>3. CASE FindOpp(r) \/ Look(r)
    BY <1>1, <1>2, <2>3 DEF FindOpp, Look, Goto, TypeOK, Setting
  <2>4. CASE \/ ProfileClash(r) \/ LostProfile(r) \/ SkillClash(r) \/ OwnClash(r)
             \/ Again(r) \/ CommitAdd(r) \/ CommitRemove(r) \/ Reply(r)
    BY <1>1, <2>4 DEF ProfileClash, LostProfile, SkillClash, OwnClash, Again,
                      CommitAdd, CommitRemove, Reply
  <2>5. CASE ScanMarks(r)
    <3>1. pc[r] = "scan" /\ pc'[r] = "delete" /\ todo'[r] = todo[r]
      BY <2>5 DEF ScanMarks, Goto, TypeOK
    <3>2. QED
      BY <3>1, NothingUnderway DEF Underway, Setting
  <2>6. CASE DeleteMarks(r)
    <3>1. /\ pc[r] = "delete" /\ pc'[r] = "removed" /\ todo'[r] = todo[r]
          /\ seen'[r] = seen[r] /\ bookmarks' = bookmarks /\ op' = op
          /\ tx'[r] = [tx[r] EXCEPT !.unmarks = seen[r] \cap bookmarks]
      BY <2>6 DEF DeleteMarks, Write, Goto, TypeOK
    <3>2. /\ tx'[r].unmarks = seen[r] \cap bookmarks /\ tx'[r].skills = tx[r].skills
          /\ todo[r] = {} /\ tx[r].skills = {}
      BY <3>1 DEF TypeOK, Txs, Underway, Wrote, Setting
    <3>3. QED
      BY <3>1, <3>2 DEF Underway, Sorted, Setting
  <2>7. CASE Update(r)
    <3>1. /\ pc[r] = "update" /\ pc'[r] \in {"dropScan", "patched"}
          /\ pc'[r] = "patched" => ~op[r].replaces
          /\ todo'[r] = todo[r] /\ seen'[r] = seen[r] /\ op' = op
          /\ tx'[r].skills = tx[r].skills
      BY <2>7, OpType DEF Update, Goto, TypeOK, Txs
    <3>2. todo[r] = {} /\ seen[r] = {} /\ tx[r].skills = {}
      BY <3>1 DEF Underway, Wrote, Setting
    <3>3. QED
      BY <3>1, <3>2 DEF Underway, Sorted, Setting
  <2>8. CASE DropScan(r)
    <3>1. /\ pc[r] = "dropScan" /\ pc'[r] = "drop" /\ todo'[r] = op[r].skills
          /\ op' = op /\ tx'[r] = tx[r]
      BY <2>8 DEF DropScan, Goto, TypeOK
    <3>2. tx[r].owns = {} /\ tx[r].skills = {} /\ op[r].kind = "patch"
      BY <3>1 DEF Wrote, InStep, Setting, Patching
    <3>3. {Fold[o.skill] : o \in tx'[r].owns} = {}
      BY <3>1, <3>2
    <3>4. QED
      BY <3>1, <3>2, <3>3 DEF Underway, Sorted, Setting
  <2>9. CASE Drop(r)
    <3>1. /\ pc[r] = "drop" /\ pc'[r] = "skill" /\ todo'[r] = todo[r]
          /\ seen'[r] = seen[r] /\ owned' = owned /\ op' = op
          /\ tx'[r] = [tx[r] EXCEPT !.disowns = seen[r] \cap owned]
      BY <2>9 DEF Drop, Write, Goto, TypeOK
    <3>2. /\ tx'[r].disowns = seen[r] \cap owned /\ tx'[r].skills = tx[r].skills
          /\ tx'[r].owns = tx[r].owns
      BY <3>1 DEF TypeOK, Txs
    <3>3. QED
      BY <3>1, <3>2 DEF Underway, Sorted, Setting, Folded
  <2>10. CASE NoSkillLeft(r)
    <3>1. /\ pc[r] = "skill" /\ pc'[r] = "patched" /\ todo[r] = {} /\ todo'[r] = todo[r]
          /\ seen'[r] = seen[r] /\ owned' = owned /\ op' = op /\ tx'[r] = tx[r]
      BY <2>10 DEF NoSkillLeft, Goto, TypeOK
    <3>2. QED
      BY <3>1 DEF Underway, Sorted, Setting, Folded
  <2>11. CASE FindSkill(r)
    BY <2>11, FindSkillKeepsNames
  <2>12. CASE InsertSkill(r)
    <3>1. /\ pc[r] = "newSkill" /\ pc'[r] = "own" /\ todo'[r] = todo[r]
          /\ cur'[r] = cur[r] /\ seen'[r] = seen[r] /\ owned' = owned /\ op' = op
          /\ tx'[r] = [tx[r] EXCEPT !.skills = @ \cup {cur[r]}]
      BY <2>12 DEF InsertSkill, Write, Goto, TypeOK
    <3>2. /\ tx'[r].disowns = tx[r].disowns /\ tx'[r].owns = tx[r].owns
          /\ tx'[r].skills = tx[r].skills \cup {cur[r]}
      BY <3>1 DEF TypeOK, Txs
    <3>3. Underway(r)'
      BY <3>1, <3>2 DEF Underway, Setting, Folded
    <3>4. Sorted(r)'
      BY <3>1, <3>2 DEF Sorted
    <3>5. QED
      BY <3>3, <3>4
  <2>13. CASE Own(r)
    BY <2>13, OwnKeepsNames
  <2>14. CASE CommitPatch(r)
    <3>1. pc[r] = "patched" /\ pc'[r] = "refresh" /\ todo'[r] = todo[r]
      BY <2>14 DEF CommitPatch, Goto, TypeOK
    <3>2. QED
      BY <3>1, NothingUnderway DEF Underway, Setting
  <2>15. CASE InsertMark(r)
    <3>1. PICK b \in {[by |-> r, user |-> User(r), opp |-> Opp(r)]} :
            tx'[r] = [tx[r] EXCEPT !.marks = {b}]
      BY <2>15 DEF InsertMark, Write, TypeOK
    <3>2. /\ pc[r] = "insert" /\ pc'[r] = "marked" /\ todo'[r] = todo[r]
          /\ seen'[r] = seen[r]
      BY <2>15 DEF InsertMark, Goto, TypeOK
    <3>3. /\ tx'[r].marks = {b} /\ tx'[r].skills = {}
          /\ todo[r] = {} /\ seen[r] = {}
      BY <3>1, <3>2 DEF TypeOK, Txs, Underway, Wrote, Setting
    <3>4. QED
      BY <3>2, <3>3 DEF Underway, Sorted, Setting
  <2>16. QED
    BY <1>5, <2>1, <2>2, <2>3, <2>4, <2>5, <2>6, <2>7, <2>8, <2>9, <2>10, <2>11,
       <2>12, <2>13, <2>14, <2>15 DEF Step
<1>6. QED
  BY <1>3, <1>4, <1>5 DEF Moves

LEMMA NextNames ==
  ASSUME IInv, PInv, [Next]_vars
  PROVE  PInv'
<1>1. TypeOK /\ \A r \in Requests : InStep(r) /\ Wrote(r)
  BY DEF IInv
<1>2. \A r \in Requests : Wrote(r)'
  BY <1>1, NextSteps
<1>3. Dated /\ Dated'
  BY <1>1, NextDated DEF PInv
<1>4. ASSUME NEW r \in Requests, Moves(r), NEW q \in Requests
      PROVE  Underway(q)' /\ Sorted(q)'
  <2>1. CASE q = r
    BY <1>1, <1>2, <1>4, <2>1, StepKeepsNames DEF PInv
  <2>2. CASE q # r
    <3>1. op' = op /\ SameLocals(q) /\ Underway(q) /\ Sorted(q) /\ Wrote(q)
      BY <1>1, <1>4, <2>2, Effects, OthersStay DEF PInv
    <3>2. /\ \A b \in bookmarks' \ bookmarks : b.by = r /\ ~Past(r)
          /\ \A o \in owned' \ owned : o.by = r /\ ~Past(r)
      BY <1>1, <1>4, Effects, CommitsDate DEF tables
    <3>3. ~Past(q) => seen[q] \cap owned' \subseteq seen[q] \cap owned
      BY <1>3, <3>2 DEF Dated
    <3>4. ~Past(q) => seen[q] \cap bookmarks' \subseteq seen[q] \cap bookmarks
      BY <1>3, <3>2 DEF Dated
    <3>5. Underway(q)'
      BY <3>1, <3>3, <3>4 DEF Underway, SameLocals, Past, Setting, Folded
    <3>6. Sorted(q)'
      BY <3>1 DEF Sorted, SameLocals
    <3>7. QED
      BY <3>5, <3>6
  <2>3. QED
    BY <2>1, <2>2
<1>5. ASSUME NEW q \in Requests, UNCHANGED <<pc, locals, tx>>,
             bookmarks' \subseteq bookmarks, owned' \subseteq owned
      PROVE  Underway(q)' /\ Sorted(q)'
  <2>1. Underway(q) /\ Sorted(q)
    BY DEF PInv
  <2>2. QED
    BY <1>5, <2>1 DEF locals, Underway, Sorted, Setting, Folded
<1>6. CASE \E u \in Users : CloseAccount(u)
  BY <1>3, <1>5, <1>6 DEF CloseAccount, PInv
<1>7. CASE UNCHANGED vars
  BY <1>3, <1>5, <1>7 DEF vars, tables, PInv
<1>8. QED
  BY <1>3, <1>4, <1>6, <1>7 DEF Next, Moves, AllDone, PInv

LEMMA InitNames == Init => PInv
  BY DEF Init, NoTx, PInv, Dated, Underway, Sorted, Setting, Past

\* Names, rows seen and rows inserted fit together in every state.
THEOREM NamesInvariance == Spec => [](IInv /\ PInv)
<1>1. IInv /\ PInv /\ [Next]_vars => (IInv /\ PInv)'
  BY NextHolds, NextNames
<1>2. QED
  BY InitHolds, InitNames, <1>1, PTL DEF Spec

\* A PATCH that replaces skills leaves none of the rows it saw, and exactly one
\* row of its own for each name it was asked for, whatever other requests
\* insert or delete on the way (profile_repository.py 45-58).
THEOREM PatchReplaces == Spec => PatchReplacesWhatItSaw
<1>1. ASSUME IInv, PInv, NEW r \in Requests, CommitPatch(r), op[r].replaces
      PROVE  /\ seen[r] \cap owned' = {}
             /\ {Fold[o.skill] : o \in {p \in owned' : p.by = r}} =
                {Fold[n] : n \in op[r].skills}
  <2>1. /\ pc[r] = "patched" /\ ~Past(r)
        /\ owned' = (owned \ tx[r].disowns) \cup tx[r].owns
    BY <1>1 DEF CommitPatch, Commit, Past
  <2>2. /\ seen[r] \cap owned \subseteq tx[r].disowns /\ todo[r] = {}
        /\ {Fold[o.skill] : o \in tx[r].owns} \cup Folded(todo[r]) = Folded(op[r].skills)
    BY <1>1, <2>1 DEF PInv, Underway, Setting
  <2>3. /\ \A o \in tx[r].owns : o.by = r
        /\ \A o \in owned : o.by # r
        /\ \A o \in seen[r] : o.by # r
    BY <1>1, <2>1 DEF IInv, PInv, Wrote, Dated
  <2>4. {p \in owned' : p.by = r} = tx[r].owns
    BY <2>1, <2>3
  <2>5. {Fold[o.skill] : o \in tx[r].owns} = Folded(op[r].skills)
    BY <2>2 DEF Folded
  <2>6. QED
    BY <2>1, <2>2, <2>3, <2>4, <2>5 DEF Folded
<1>2. IInv /\ PInv /\ [Next]_vars =>
        [\A r \in Requests : CommitPatch(r) /\ op[r].replaces =>
           /\ seen[r] \cap owned' = {}
           /\ {Fold[o.skill] : o \in {p \in owned' : p.by = r}} =
              {Fold[n] : n \in op[r].skills}]_vars
  BY <1>1
<1>3. QED
  BY NamesInvariance, <1>2, PTL DEF Spec, PatchReplacesWhatItSaw

-----------------------------------------------------------------------------
(* Patches do not wait in a circle                                         *)

\* Of different users, only who inserts skills waits, and then for another
\* PATCH that has inserted a skill of the same name.
LEMMA UsersWaitForSkills ==
  ASSUME IInv, PInv, NEW q \in Requests, NEW p \in Requests,
         User(q) # User(p), WaitsFor(q, p)
  PROVE  /\ pc[q] = "newSkill" /\ op[q].kind = "patch" /\ op[p].kind = "patch"
         /\ cur[q] \in op[q].skills
         /\ \E s \in tx[p].skills : s \in op[p].skills /\ SameSkill(s, cur[q])
<1>1. InStep(q) /\ Wrote(p) /\ InStep(p) /\ Sorted(q) /\ Sorted(p)
  BY DEF IInv, PInv
<1>2. /\ User(q) \notin tx[p].auth /\ User(q) \notin tx[p].created
      /\ \A b \in tx[p].marks \cup tx[p].unmarks : b.user # User(q)
      /\ \A o \in tx[p].owns \cup tx[p].disowns : o.user # User(q)
      /\ seen[q] \cap tx[p].unmarks = {} /\ seen[q] \cap tx[p].disowns = {}
  BY <1>1 DEF Wrote, InStep
<1>3. pc[q] = "newSkill" /\ \E s \in tx[p].skills : SameSkill(s, cur[q])
  BY <1>2 DEF WaitsFor
<1>4. op[q].kind = "patch" /\ cur[q] \in op[q].skills
  BY <1>1, <1>3 DEF InStep, Sorted, Patching, Setting
<1>5. op[p].kind = "patch" /\ \A s \in tx[p].skills : s \in op[p].skills
  BY <1>1, <1>3 DEF InStep, Wrote, Sorted, Patching
<1>6. QED
  BY <1>3, <1>4, <1>5

\* Patches that spell every skill alike wait for one whose skill in hand comes
\* later in the order, so a finite number of them cannot all wait
\* (profile_repository.py 50).
THEOREM NoCircleOfUsers == Spec => []UsersNeverDeadlock
<1>1. ASSUME IInv, PInv, SpelledAlike, NEW S \in SUBSET Requests, S # {},
             \A q, p \in S : User(q) = User(p) => q = p,
             \A q \in S : \E p \in S : WaitsFor(q, p)
      PROVE  FALSE
  <2>1. ASSUME NEW q \in S, NEW p \in S, WaitsFor(q, p)
        PROVE  Rank[cur[q]] \in Nat /\ Rank[cur[p]] \in Nat /\ Rank[cur[q]] < Rank[cur[p]]
    <3>1. User(q) # User(p)
      BY <1>1, <2>1 DEF WaitsFor
    <3>2. PICK s \in tx[p].skills : s \in op[p].skills /\ SameSkill(s, cur[q])
      BY <1>1, <2>1, <3>1, UsersWaitForSkills
    <3>3. s = cur[q]
      BY <1>1, <2>1, <3>1, <3>2, UsersWaitForSkills DEF SpelledAlike
    <3>4. PICK o \in S : WaitsFor(p, o)
      BY <1>1
    <3>5. pc[p] = "newSkill" /\ pc[q] = "newSkill"
      <4>1. User(p) # User(o)
        BY <1>1, <3>4 DEF WaitsFor
      <4>2. QED
        BY <1>1, <2>1, <3>1, <3>4, <4>1, UsersWaitForSkills
    <3>6. Rank[cur[q]] < Rank[cur[p]]
      BY <1>1, <3>2, <3>3, <3>5 DEF PInv, Sorted
    <3>7. cur[q] \in SkillNames /\ cur[p] \in SkillNames
      BY <1>1, <3>5 DEF IInv, InStep
    <3>8. QED
      BY <3>6, <3>7, ConstantTypes
  <2> DEFINE Later(q) == {p \in S : Rank[cur[q]] < Rank[cur[p]]}
  <2>2. PICK T \in SUBSET (SUBSET Requests) : T = {Later(q) : q \in S}
    OBVIOUS
  <2>3. T # {} /\ T \subseteq FiniteSubsetsOf(Requests)
    <3>1. FiniteSubsetsOf(Requests) = SUBSET Requests
      BY RequestsAssumption, FS_FiniteSubsetsOfFinite
    <3>2. PICK q \in S : TRUE
      BY <1>1
    <3>3. Later(q) \in T
      BY <2>2
    <3> HIDE DEF Later
    <3>4. QED
      BY <3>1, <3>3
  <2>4. PICK X \in T : \A Y \in T : <<Y, X>> \notin StrictSubsetOrdering(Requests)
    BY <2>3, FS_StrictSubsetOrderingWellFounded, WFMin
  <2>5. PICK q \in S : X = Later(q)
    BY <2>2
  <2>6. PICK p \in S : WaitsFor(q, p)
    BY <1>1
  <2>7. Rank[cur[q]] \in Nat /\ Rank[cur[p]] \in Nat /\ Rank[cur[q]] < Rank[cur[p]]
    BY <2>1, <2>6
  <2>8. \A o \in S : Rank[cur[o]] \in Nat
    BY <1>1, <2>1
  <2>9. Later(p) \subseteq Later(q) /\ p \in Later(q) /\ p \notin Later(p)
    BY <2>7, <2>8
  <2>10. Later(p) \in T
    BY <2>2
  <2>11. <<Later(p), X>> \in StrictSubsetOrdering(Requests)
    <3>1. Later(p) \in SUBSET Requests /\ X \in SUBSET Requests
      BY <2>5
    <3>2. Later(p) \subseteq X /\ Later(p) # X
      BY <2>5, <2>9
    <3> HIDE DEF Later
    <3>3. QED
      BY <3>1, <3>2 DEF StrictSubsetOrdering
  <2>12. QED
    BY <2>4, <2>10, <2>11
<1>2. IInv /\ PInv => UsersNeverDeadlock
  BY <1>1 DEF UsersNeverDeadlock
<1>3. QED
  BY NamesInvariance, <1>2, PTL
-----------------------------------------------------------------------------
(* Bookmarking implements BookmarkPromise: each step of a request settles  *)
(* it, or does nothing that BookmarkPromise sees.                          *)

Marking(r) == op[r].kind \in {"add", "remove"}
Pair(r)    == <<User(r), Opp(r)>>

LEMMA SameCallers ==
  /\ Promise!Callers = Requests
  /\ \A r \in Requests : Wants[r].kind = IF Marking(r) THEN op[r].kind ELSE "other"
  /\ \A r \in Requests : Marking(r) => Wants[r].pair = Pair(r)
  BY DEF Promise!Callers, Wants, Wanted, Marking, Pair

LEMMA WantsStay ==
  ASSUME op' = op
  PROVE  Wants' = Wants
  BY DEF Wants, Wanted, User, Opp

LEMMA InitKeeps == Init => Promise!Init
<1> SUFFICES ASSUME Init PROVE Promise!Init
  OBVIOUS
<1>1. Saved = {}
  BY DEF Init, Saved
<1>2. Outcomes = [r \in Requests |-> "open"]
  BY DEF Init, Outcomes, Outcome
<1>3. Lacked = {}
  BY DEF Init, Lacked, Lacks
<1>4. QED
  BY <1>1, <1>2, <1>3, SameCallers DEF Promise!Init

\* A request that ends settles what it was asked for.
LEMMA Settles ==
  ASSUME TypeOK, NEW r \in Requests, Marking(r), op' = op,
         pc[r] # "done", pc'[r] = "done", \A q \in Requests \ {r} : SameLocals(q)
  PROVE  Promise!Settle({r}, IF reply'[r] = "ok" THEN "done" ELSE "failed")
<1> DEFINE how == IF reply'[r] = "ok" THEN "done" ELSE "failed"
<1>1. Wants[r].kind # "other" /\ Outcomes[r] = "open"
  BY SameCallers DEF Marking, Outcomes, Outcome
<1>2. Outcome(r)' = how
  BY DEF Marking, Outcome, Wanted
<1>3. ASSUME NEW q \in Requests \ {r}
      PROVE  Outcome(q)' = Outcome(q)
  BY <1>3 DEF SameLocals, Outcome, Wanted
<1>4. Outcomes' = [q \in Requests |-> IF q \in {r} THEN how ELSE Outcomes[q]]
  BY <1>2, <1>3 DEF Outcomes
<1>5. QED
  BY <1>1, <1>4, SameCallers DEF Promise!Settle

\* A request that goes on, or was asked for something else, settles nothing.
LEMMA SettlesNothing ==
  ASSUME NEW r \in Requests, op' = op,
         ~Marking(r) \/ (pc[r] # "done" /\ pc'[r] # "done"),
         \A q \in Requests \ {r} : SameLocals(q)
  PROVE  Outcomes' = Outcomes
<1>1. Outcome(r)' = Outcome(r)
  BY DEF Marking, Outcome, Wanted
<1>2. ASSUME NEW q \in Requests \ {r}
      PROVE  Outcome(q)' = Outcome(q)
  BY <1>2 DEF SameLocals, Outcome, Wanted
<1>3. QED
  BY <1>1, <1>2 DEF Outcomes

LEMMA FailNothing ==
  ASSUME Outcomes' = Outcomes, Saved' = Saved
  PROVE  Promise!Fail({})
<1>1. Outcomes = [q \in Requests |-> Outcomes[q]]
  BY DEF Outcomes
<1>2. QED
  BY <1>1, SameCallers DEF Promise!Fail, Promise!Settle

\* A row that goes was the only one of its pair, and none comes with it.
LEMMA GoneForGood ==
  ASSUME IInv, [Next]_vars, NEW b \in bookmarks \ bookmarks'
  PROVE  <<b.user, b.opp>> \notin Saved'
<1>1. \A a \in bookmarks : SamePair(a, b) => a = b
  BY DEF IInv, RowsAreSound, SamePair
<1>2. ASSUME NEW r \in Requests, Moves(r)
      PROVE  bookmarks' \subseteq bookmarks
  <2>1. CASE UNCHANGED tables
    BY <2>1 DEF tables
  <2>2. CASE Commit(r)
    <3>1. b \in tx[r].unmarks
      BY <2>2 DEF Commit
    <3>2. tx[r].marks = {}
      BY <3>1 DEF IInv, Wrote
    <3>3. QED
      BY <2>2, <3>2 DEF Commit
  <2>3. QED
    BY <1>2, <2>1, <2>2, Effects
<1>3. bookmarks' \subseteq bookmarks
  BY <1>2 DEF Next, Moves, CloseAccount, AllDone, vars, tables
<1>4. QED
  BY <1>1, <1>3 DEF Saved, SamePair

LEMMA RemovesGoOn ==
  ASSUME TypeOK, NEW r \in Requests, Moves(r), pc'[r] \in {"delete", "removed"}
  PROVE  ScanMarks(r) \/ DeleteMarks(r)
<1> USE DEF Goto, TypeOK
<1>1. CASE Begin(r)
  BY <1>1 DEF Begin
<1>2. CASE DeadlockVictim(r) \/ Crash(r)
  BY <1>2 DEF DeadlockVictim, Crash, Fail, Answer
<1>3. CASE \/ GetProfile(r) \/ MissProfile(r) \/ EnsureAuth(r) \/ InsertProfile(r)
           \/ ProfileClash(r) \/ CommitProfile(r) \/ FindOpp(r) \/ Look(r)
           \/ InsertMark(r) \/ MarkClash(r) \/ Again(r) \/ CommitAdd(r)
           \/ CommitRemove(r)
  BY <1>3 DEF GetProfile, MissProfile, EnsureAuth, InsertProfile, ProfileClash,
       CommitProfile, FindOpp, Look, InsertMark, MarkClash, Again, CommitAdd,
       CommitRemove, Resume, Fail, Answer
<1>4. CASE \/ Reload(r) \/ LostProfile(r) \/ Update(r) \/ DropScan(r) \/ Drop(r)
           \/ NoSkillLeft(r) \/ FindSkill(r) \/ InsertSkill(r) \/ SkillClash(r)
           \/ Own(r) \/ OwnClash(r) \/ CommitPatch(r) \/ Reply(r)
  BY <1>4 DEF Reload, LostProfile, Update, DropScan, Drop, NoSkillLeft, FindSkill,
       InsertSkill, SkillClash, Own, OwnClash, CommitPatch, Reply, Fail, Answer
<1>5. QED
  BY <1>1, <1>2, <1>3, <1>4 DEF Moves, Step

LEMMA RemovesEnd ==
  ASSUME TypeOK, NEW r \in Requests, Moves(r), pc[r] \in {"delete", "removed"}
  PROVE  DeleteMarks(r) \/ pc'[r] = "done"
<1>1. CASE Begin(r)
  BY <1>1 DEF Begin
<1>2. CASE DeadlockVictim(r) \/ Crash(r)
  BY <1>2 DEF DeadlockVictim, Crash, Fail, Answer, Goto, TypeOK
<1>3. CASE Step(r)
  BY <1>3 DEF Step, GetProfile, MissProfile, EnsureAuth, InsertProfile, ProfileClash,
       CommitProfile, FindOpp, Look, InsertMark, MarkClash, Again, CommitAdd, ScanMarks,
       CommitRemove, Reload, LostProfile, Update, DropScan, Drop, NoSkillLeft,
       FindSkill, InsertSkill, SkillClash, Own, OwnClash, CommitPatch, Reply,
       Answer, Goto, TypeOK
<1>4. QED
  BY <1>1, <1>2, <1>3 DEF Moves

\* Steps of a request keep watch for pairs that are missing.
LEMMA MovesWatch ==
  ASSUME IInv, PInv, NEW r \in Requests, Moves(r)
  PROVE  Promise!Watch
<1>1. op' = op /\ [Next]_vars /\ TypeOK
  BY Effects DEF Next, Moves, IInv
<1>2. ASSUME NEW q \in Requests, Lacks(q)', ~Lacks(q)
      PROVE  Wants[q].pair \notin Saved'
  <2>1. op[q].kind = "remove" /\ Wants[q].pair = Pair(q)
    <3>1. InStep(q)'
      BY <1>1, NextSteps DEF IInv
    <3>2. QED
      BY <1>1, <1>2, <3>1, SameCallers DEF Lacks, InStep, Removing, Marking
  <2>2. CASE \E b \in seen[q] \cap bookmarks : b \notin bookmarks' /\ b.opp = Opp(q)
    <3>1. PICK b \in seen[q] \cap bookmarks : b \notin bookmarks' /\ b.opp = Opp(q)
      BY <2>2
    <3>2. b.user = User(q)
      BY <3>1 DEF IInv, InStep
    <3>3. QED
      BY <1>1, <2>1, <3>1, <3>2, GoneForGood DEF Pair
  <2>3. CASE SameLocals(q)
    <3>1. pc[q] \in {"delete", "removed"} /\ seen'[q] = seen[q]
      BY <1>2, <2>3 DEF Lacks, SameLocals
    <3>2. PICK b \in seen[q] \cap bookmarks : b \notin bookmarks'
      BY <1>2, <3>1 DEF Lacks
    <3>3. b.opp = Opp(q)
      BY <3>1, <3>2 DEF IInv, InStep
    <3>4. QED
      BY <2>2, <3>2, <3>3
  <2>4. CASE q = r
    <3>1. ScanMarks(r) \/ DeleteMarks(r)
      BY <1>1, <1>2, <2>1, <2>4, RemovesGoOn DEF Lacks
    <3>2. CASE ScanMarks(r)
      <4>1. seen'[r] = MarksOf(r) /\ bookmarks' = bookmarks
        BY <1>1, <3>2 DEF ScanMarks, TypeOK, tables
      <4>2. MarksOf(r) = {}
        BY <1>2, <2>4, <4>1 DEF Lacks, MarksOf
      <4>3. QED
        BY <2>1, <2>4, <4>1, <4>2 DEF Saved, MarksOf, Pair
    <3>3. CASE DeleteMarks(r)
      BY <1>1, <1>2, <2>4, <3>3 DEF DeleteMarks, Lacks, tables, locals
    <3>4. QED
      BY <3>1, <3>2, <3>3
  <2>5. QED
    BY <1>1, <2>3, <2>4, OthersStay
<1>3. ASSUME NEW q \in Requests, Lacks(q), ~Lacks(q)'
      PROVE  Outcomes'[q] # "open"
  <2>1. pc[q] \in {"delete", "removed"} /\ op[q].kind = "remove" /\ ~Past(q)
    BY <1>3 DEF Lacks, IInv, InStep, Removing, Past
  <2>2. CASE q = r
    <3>1. CASE DeleteMarks(r)
      <4>1. pc'[r] = "removed" /\ seen'[r] = seen[r] /\ bookmarks' = bookmarks
        BY <1>1, <3>1 DEF DeleteMarks, Goto, TypeOK, tables, locals
      <4>2. QED
        BY <1>3, <2>2, <4>1 DEF Lacks
    <3>2. CASE pc'[r] = "done"
      BY <1>1, <2>1, <2>2, <3>2 DEF Outcomes, Outcome, Wanted
    <3>3. QED
      BY <1>1, <2>1, <2>2, <3>1, <3>2, RemovesEnd
  <2>3. CASE q # r
    <3>1. SameLocals(q)
      BY <1>1, <2>3, OthersStay
    <3>2. PICK b \in seen[q] : b \in bookmarks' \ bookmarks
      BY <1>3, <2>1, <3>1 DEF Lacks, SameLocals
    <3>3. b.by = r /\ ~Past(r)
      BY <1>1, <3>2, Effects, CommitsDate DEF tables, IInv
    <3>4. Past(b.by)
      BY <2>1, <3>2 DEF PInv, Dated
    <3>5. QED
      BY <3>3, <3>4
  <2>4. QED
    BY <2>2, <2>3
<1>4. QED
  BY <1>2, <1>3 DEF Promise!Watch, Lacked

\* The answers that are not failures.
LEMMA EndsWell ==
  ASSUME TypeOK, NEW r \in Requests, Moves(r)
  PROVE  /\ pc[r] # "done"
         /\ pc'[r] = "done" /\ reply'[r] = "ok" =>
              Look(r) \/ Again(r) \/ CommitAdd(r) \/ CommitRemove(r) \/ Reply(r)
<1> USE DEF Goto, Answer, Fail, TypeOK
<1>1. CASE Begin(r)
  BY <1>1 DEF Begin
<1>2. CASE DeadlockVictim(r)
  <2>1. PICK q \in Requests : WaitsFor(r, q)
    BY <1>2 DEF DeadlockVictim, Deadlocked
  <2>2. pc[r] # "done"
    BY <2>1 DEF WaitsFor
  <2>3. QED
    BY <1>2, <2>2 DEF DeadlockVictim
<1>3. CASE Crash(r)
  BY <1>3 DEF Crash
<1>4. CASE \/ GetProfile(r) \/ MissProfile(r) \/ EnsureAuth(r) \/ InsertProfile(r)
           \/ ProfileClash(r) \/ CommitProfile(r) \/ FindOpp(r)
           \/ InsertMark(r) \/ MarkClash(r) \/ ScanMarks(r) \/ DeleteMarks(r)
  BY <1>4 DEF GetProfile, MissProfile, EnsureAuth, InsertProfile, ProfileClash,
       CommitProfile, FindOpp, InsertMark, MarkClash, ScanMarks, DeleteMarks, Resume
<1>5. CASE \/ Reload(r) \/ LostProfile(r) \/ Update(r) \/ DropScan(r) \/ Drop(r)
           \/ NoSkillLeft(r) \/ FindSkill(r) \/ InsertSkill(r) \/ SkillClash(r)
           \/ Own(r) \/ OwnClash(r) \/ CommitPatch(r)
  BY <1>5 DEF Reload, LostProfile, Update, DropScan, Drop, NoSkillLeft, FindSkill,
       InsertSkill, SkillClash, Own, OwnClash, CommitPatch
<1>6. CASE Look(r) \/ Again(r) \/ CommitAdd(r) \/ CommitRemove(r) \/ Reply(r)
  BY <1>6 DEF Look, Again, CommitAdd, CommitRemove, Reply
<1>7. QED
  BY <1>1, <1>2, <1>3, <1>4, <1>5, <1>6 DEF Moves, Step

\* The commit of an add saves its pair, the commit of a remove takes it away
\* or it was missing.
LEMMA AddKeeps ==
  ASSUME IInv, PInv, NEW r \in Requests, CommitAdd(r), op' = op,
         \A q \in Requests \ {r} : SameLocals(q)
  PROVE  Promise!Add(r)
<1>1. TypeOK /\ InStep(r) /\ Wrote(r) /\ Underway(r)
  BY DEF IInv, PInv
<1>2. pc[r] = "marked" /\ pc'[r] = "done" /\ reply'[r] = "ok" /\ op[r].kind = "add"
  BY <1>1 DEF CommitAdd, Answer, Goto, TypeOK, InStep, Adding
<1>3. Wants[r].kind = "add" /\ Wants[r].pair = Pair(r)
  BY <1>2, SameCallers DEF Marking
<1>4. Promise!Settle({r}, "done")
  BY <1>1, <1>2, Settles DEF Marking
<1>5. bookmarks' = bookmarks \cup tx[r].marks
  <2>1. tx[r].unmarks = {}
    BY <1>1, <1>2 DEF Wrote
  <2>2. QED
    BY <2>1 DEF CommitAdd, Commit
<1>6. tx[r].marks # {} /\ \A b \in tx[r].marks : <<b.user, b.opp>> = Pair(r)
  BY <1>1, <1>2 DEF Wrote, Underway, Pair
<1>7. Saved' = Saved \cup {Pair(r)}
  BY <1>5, <1>6 DEF Saved
<1>8. QED
  BY <1>3, <1>4, <1>7 DEF Promise!Add

LEMMA RemoveKeeps ==
  ASSUME IInv, PInv, NEW r \in Requests, CommitRemove(r), op' = op,
         \A q \in Requests \ {r} : SameLocals(q)
  PROVE  Promise!Remove(r) \/ Promise!Miss(r)
<1>1. TypeOK /\ InStep(r) /\ Wrote(r) /\ Underway(r) /\ [Next]_vars
  BY DEF IInv, PInv, Next, Step
<1>2. pc[r] = "removed" /\ pc'[r] = "done" /\ reply'[r] = "ok" /\ op[r].kind = "remove"
  BY <1>1 DEF CommitRemove, Answer, Goto, TypeOK, InStep, Removing
<1>3. Wants[r].kind = "remove" /\ Wants[r].pair = Pair(r)
  BY <1>2, SameCallers DEF Marking
<1>4. Promise!Settle({r}, "done")
  BY <1>1, <1>2, Settles DEF Marking
<1>5. bookmarks' = bookmarks \ tx[r].unmarks
  <2>1. tx[r].marks = {}
    BY <1>1, <1>2 DEF Wrote
  <2>2. QED
    BY <2>1 DEF CommitRemove, Commit
<1>6. \A b \in tx[r].unmarks : <<b.user, b.opp>> = Pair(r)
  BY <1>1 DEF Wrote, Pair
<1>7. CASE \E b \in tx[r].unmarks : b \in bookmarks
  <2>1. Pair(r) \notin Saved'
    BY <1>1, <1>5, <1>6, <1>7, GoneForGood
  <2>2. Saved' = Saved \ {Pair(r)}
    BY <1>5, <1>6, <2>1 DEF Saved
  <2>3. QED
    BY <1>3, <1>4, <2>2 DEF Promise!Remove
<1>8. CASE \A b \in tx[r].unmarks : b \notin bookmarks
  <2>1. bookmarks' = bookmarks
    BY <1>5, <1>8
  <2>2. r \in Lacked
    BY <1>1, <1>2, <1>8 DEF Lacked, Lacks, Underway
  <2>3. Saved' = Saved
    BY <2>1 DEF Saved
  <2>4. QED
    BY <1>4, <2>2, <2>3 DEF Promise!Miss
<1>9. QED
  BY <1>7, <1>8

LEMMA MovesKeep ==
  ASSUME IInv, PInv, NEW r \in Requests, Moves(r)
  PROVE  \/ Promise!Add(r) \/ Promise!Remove(r) \/ Promise!Miss(r)
         \/ Promise!Fail({r}) \/ Promise!Fail({})
<1>1. TypeOK /\ op' = op /\ \A q \in Requests \ {r} : SameLocals(q)
  BY Effects, OthersStay DEF IInv
<1>2. pc[r] # "done" /\ InStep(r) /\ Wrote(r)
  BY <1>1, EndsWell DEF IInv
<1>3. CASE CommitAdd(r)
  BY <1>1, <1>3, AddKeeps
<1>4. CASE CommitRemove(r)
  BY <1>1, <1>4, RemoveKeeps
<1>5. CASE ~CommitAdd(r) /\ ~CommitRemove(r)
  <2>1. Saved' = Saved
    <3>1. CASE CommitProfile(r) \/ CommitPatch(r)
      <4>1. tx[r].marks = {} /\ tx[r].unmarks = {} /\ Commit(r)
        BY <1>2, <3>1 DEF CommitProfile, CommitPatch, Wrote
      <4>2. QED
        BY <4>1 DEF Commit, Saved
    <3>2. CASE UNCHANGED tables
      BY <3>2 DEF tables, Saved
    <3>3. QED
      BY <1>5, <3>1, <3>2, Effects DEF Commits
  <2>2. CASE pc'[r] # "done" \/ ~Marking(r)
    BY <1>1, <1>2, <2>1, <2>2, SettlesNothing, FailNothing
  <2>3. CASE pc'[r] = "done" /\ Marking(r) /\ reply'[r] # "ok"
    <3>1. Promise!Settle({r}, "failed")
      BY <1>1, <1>2, <2>3, Settles
    <3>2. QED
      BY <2>1, <3>1 DEF Promise!Fail
  <2>4. CASE pc'[r] = "done" /\ Marking(r) /\ reply'[r] = "ok"
    <3>1. Look(r) \/ Again(r) \/ Reply(r)
      BY <1>1, <1>5, <2>4, EndsWell
    <3>2. ~Reply(r)
      BY <1>2, <2>4 DEF Reply, InStep, Patching, Marking
    <3>3. op[r].kind = "add" /\ MarksOf(r) # {}
      BY <1>1, <1>2, <2>4, <3>1, <3>2
         DEF Look, Again, InStep, Adding, Answer, Goto, TypeOK
    <3>4. Pair(r) \in Saved
      BY <3>3 DEF MarksOf, Saved, Pair
    <3>5. Promise!Settle({r}, "done")
      BY <1>1, <1>2, <2>4, Settles
    <3>6. QED
      BY <2>1, <3>3, <3>4, <3>5, SameCallers DEF Promise!Add, Marking
  <2>5. QED
    BY <2>2, <2>3, <2>4
<1>6. QED
  BY <1>3, <1>4, <1>5

LEMMA CloseKeeps ==
  ASSUME IInv, PInv, NEW u \in Users, CloseAccount(u)
  PROVE  Promise!Close \/ Promise!Fail({})
<1>1. op' = op /\ Outcomes' = Outcomes
  BY DEF CloseAccount, locals, Outcomes, Outcome, Wanted
<1>2. bookmarks' = {b \in bookmarks : b.user # u}
  BY DEF CloseAccount
<1>3. Saved' = {p \in Saved : p[1] # u}
  BY <1>2 DEF Saved
<1>4. CASE \E p \in Saved : p[1] = u
  BY <1>1, <1>3, <1>4 DEF Promise!Close
<1>5. CASE \A p \in Saved : p[1] # u
  BY <1>1, <1>3, <1>5, FailNothing
<1>6. QED
  BY <1>4, <1>5

LEMMA CloseWatches ==
  ASSUME IInv, PInv, NEW u \in Users, CloseAccount(u)
  PROVE  Promise!Watch
<1>1. /\ op' = op /\ pc' = pc /\ seen' = seen /\ bookmarks' \subseteq bookmarks
      /\ [Next]_vars
  BY DEF CloseAccount, locals, Next
<1>2. ASSUME NEW q \in Requests, Lacks(q)', ~Lacks(q)
      PROVE  Wants[q].pair \notin Saved'
  <2>1. pc[q] \in {"delete", "removed"}
    BY <1>1, <1>2 DEF Lacks
  <2>2. PICK b \in seen[q] \cap bookmarks : b \notin bookmarks'
    BY <1>1, <1>2, <2>1 DEF Lacks
  <2>3. op[q].kind = "remove" /\ b.user = User(q) /\ b.opp = Opp(q)
    BY <2>1, <2>2 DEF IInv, InStep, Removing
  <2>4. Wants[q].pair = <<b.user, b.opp>>
    BY <2>3, SameCallers DEF Marking, Pair
  <2>5. QED
    BY <1>1, <2>2, <2>4, GoneForGood
<1>3. \A q \in Requests : Lacks(q) => Lacks(q)'
  BY <1>1 DEF Lacks
<1>4. QED
  BY <1>2, <1>3 DEF Promise!Watch, Lacked

LEMMA NextKeeps ==
  ASSUME IInv, PInv, [Next]_vars
  PROVE  [Promise!Next]_<<Wants, Saved, Outcomes, Lacked>>
<1>1. ASSUME NEW r \in Requests, Moves(r)
      PROVE  Promise!Next
  <2>1. Promise!Watch /\ Wants' = Wants
    BY <1>1, MovesWatch, Effects, WantsStay
  <2>2. /\ r \in Promise!Callers
        /\ {r} \in SUBSET Promise!Callers /\ {} \in SUBSET Promise!Callers
    BY SameCallers
  <2>3. QED
    BY <1>1, <2>1, <2>2, MovesKeep DEF Promise!Next
<1>2. ASSUME NEW u \in Users, CloseAccount(u)
      PROVE  Promise!Next
  <2>1. Promise!Watch /\ Wants' = Wants
    BY <1>2, CloseWatches, WantsStay DEF CloseAccount, locals
  <2>2. {} \in SUBSET Promise!Callers
    OBVIOUS
  <2>3. QED
    BY <1>2, <2>1, <2>2, CloseKeeps DEF Promise!Next
<1>3. CASE UNCHANGED vars
  <2>1. Wants' = Wants
    BY <1>3, WantsStay DEF vars, locals
  <2>2. Saved' = Saved
    BY <1>3 DEF vars, tables, Saved
  <2>3. Outcomes' = Outcomes
    BY <1>3 DEF vars, locals, Outcomes, Outcome, Wanted
  <2>4. Lacked' = Lacked
    BY <1>3 DEF vars, tables, locals, Lacked, Lacks
  <2>5. QED
    BY <2>1, <2>2, <2>3, <2>4
<1>4. QED
  BY <1>1, <1>2, <1>3 DEF Next, Moves, AllDone

\* Bookmarking implements BookmarkPromise, whatever overlaps: an add that was
\* answered saved the pair or met it saved, a remove took it away or it was
\* missing while the remove ran, a failure changed nothing
\* (bookmark_service.py 36-64).
THEOREM KeepsThePromise == Spec => BookmarksKept
<1>1. Init => Promise!Init
  BY InitKeeps
<1>2. IInv /\ PInv /\ [Next]_vars => [Promise!Next]_<<Wants, Saved, Outcomes, Lacked>>
  BY NextKeeps
<1>3. QED
  BY <1>1, <1>2, NamesInvariance, PTL DEF Spec, BookmarksKept, Promise!Spec
=============================================================================
