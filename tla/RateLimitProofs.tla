-------------------------- MODULE RateLimitProofs --------------------------
(***************************************************************************)
(* For any number of requests and identities, any window, budgets and lag  *)
(* of calls: the state stays well typed, both budgets hold, nobody is      *)
(* turned away for what is long past, and counters get a time to live.     *)
(*                                                                         *)
(* The fixed window holds because a counter lives beyond its window, so    *)
(* within it every admitted request is in the count.  The sliding window   *)
(* holds because Redis keeps what was let pass for a window: a request     *)
(* that is not later than its lag finds the entries of all those that      *)
(* passed in an interval shorter than the window by that lag.              *)
(***************************************************************************)
EXTENDS RateLimit, FiniteSetTheorems, TLAPS

\* A request has the verdicts that it has come to, at times that have been.
Staged ==
  \A r \in Requests :
    /\ minute[r] <= now /\ second[r] <= now
    /\ pc[r] \in {"idle", "incr", "expire"} => fixed[r] = "none"
    /\ pc[r] # "done" => sliding[r] = "none"
    /\ pc[r] = "slide" => now <= second[r] + MaxLag

WindowEnd(k) == (k[2] + 1) * Window

\* Requests that made a counter count, and those that it let through within
\* its window.
Counted(k) == {q \in Requests : Key(q) = k /\ pc[q] \notin {"idle", "incr"}}
Admitted(k) ==
  {q \in Requests : /\ Key(q) = k /\ (pc[q] = "expire" \/ fixed[q] = "passed")
                    /\ incrAt[q] \div Window = k[2]}

\* A counter counts what was admitted until its window ends, no more than
\* what came, and lives longer than its window.
InLine(k) ==
  /\ counters[k].ends # Never => counters[k].ends >= WindowEnd(k)
  /\ counters[k].n <= Cardinality(Counted(k))
  /\ Cardinality(Admitted(k)) <= Limit
  /\ now < WindowEnd(k) => Cardinality(Admitted(k)) <= counters[k].n

CountersCount == \A k \in Keys : InLine(k)

Entry(r) == [by |-> r, at |-> second[r]]

\* The log has entries of requests that came to it, and lives for a window
\* after them.
LogIsOfRequests ==
  \A i \in Identities : \A e \in log[i].entries :
    /\ who[e.by] = i /\ e = Entry(e.by) /\ sliding[e.by] # "none"
    /\ log[i].ends # Never /\ log[i].ends >= e.at + Window

\* What was let pass is in the log for a window.
Remembered ==
  \A r \in Requests :
    sliding[r] = "passed" /\ now < second[r] + Window =>
      Entry(r) \in log[who[r]].entries

IInv ==
  /\ TypeOK /\ Staged
  /\ CountersCount /\ CountersExpire
  /\ LogIsOfRequests /\ Remembered
  /\ SlidingBudget /\ OnlyTheRecentCount

-----------------------------------------------------------------------------
USE RateLimitAssumption

(* The operators of the model                                              *)

\* A time lies in its window.
LEMMA InItsWindow ==
  ASSUME NEW t \in Nat
  PROVE  /\ t \div Window \in Nat
         /\ (t \div Window) * Window <= t
         /\ t < (t \div Window + 1) * Window
  OBVIOUS

\* Windows follow each other as times do.
LEMMA WindowsInOrder ==
  ASSUME NEW s \in Nat, NEW t \in Nat, s <= t
  PROVE  s \div Window <= t \div Window
<1>1. (s \div Window) * Window < (t \div Window + 1) * Window
  BY InItsWindow
<1>2. s \div Window \in Nat /\ t \div Window + 1 \in Nat
  BY InItsWindow
<1>3. \A a \in Nat, b \in Nat : a * Window < b * Window => a < b
  OBVIOUS
<1>4. QED
  BY <1>1, <1>2, <1>3

\* The counter of a request is one of the window in which it came.
LEMMA KeyType ==
  ASSUME TypeOK, NEW r \in Requests
  PROVE  Key(r) \in Keys /\ Key(r)[2] = minute[r] \div Window
<1>1. minute[r] \in Nat /\ minute[r] <= MaxTime /\ who[r] \in Identities
  BY DEF TypeOK, Instants
<1>2. minute[r] \div Window \in Windows
  BY <1>1, WindowsInOrder, InItsWindow DEF Windows
<1>3. QED
  BY <1>1, <1>2 DEF Key, Keys

\* Any set of requests can be counted; a greater one counts more, one more
\* request at most one more.
LEMMA CountRequests ==
  ASSUME NEW S \in SUBSET Requests, NEW T \in SUBSET Requests, NEW r,
         T \subseteq S \cup {r}
  PROVE  /\ Cardinality(S) \in Nat /\ Cardinality(T) \in Nat
         /\ Cardinality(T) <= Cardinality(S) + 1
         /\ r \notin T \/ r \in S => Cardinality(T) <= Cardinality(S)
         /\ r \notin S /\ S \cup {r} \subseteq T =>
              Cardinality(T) = Cardinality(S) + 1
<1>1. IsFiniteSet(S) /\ IsFiniteSet(T)
  BY RequestsAssumption, FS_Subset
<1>2. /\ IsFiniteSet(S \cup {r})
      /\ Cardinality(S \cup {r}) =
           IF r \in S THEN Cardinality(S) ELSE Cardinality(S) + 1
  BY <1>1, FS_AddElement
<1>3. Cardinality(S) \in Nat /\ Cardinality(T) \in Nat
  BY <1>1, FS_CardinalityType
<1>4. Cardinality(T) <= Cardinality(S \cup {r})
  BY <1>2, FS_Subset
<1>5. ASSUME r \notin T \/ r \in S
      PROVE  Cardinality(T) <= Cardinality(S)
  <2>1. T \subseteq S
    BY <1>5
  <2>2. QED
    BY <1>1, <2>1, FS_Subset
<1>6. ASSUME S \cup {r} \subseteq T
      PROVE  T = S \cup {r}
  BY <1>6
<1>7. QED
  BY <1>2, <1>3, <1>4, <1>5, <1>6

\* Entries stand for the requests that made them.
LEMMA EntriesOfRequests ==
  ASSUME NEW E, \A e \in E : e.by \in Requests /\ e = Entry(e.by),
         NEW S \in SUBSET Requests
  PROVE  /\ IsFiniteSet(E)
         /\ (\A r \in S : Entry(r) \in E) => Cardinality(S) <= Cardinality(E)
         /\ (\A e \in E : e.by \in S) => Cardinality(E) <= Cardinality(S)
<1> DEFINE f == [e \in E |-> e.by]
           g == [r \in S |-> Entry(r)]
<1>1. f \in Injection(E, Requests)
  BY DEF Injection, IsInjective, Entry
<1>2. IsFiniteSet(E)
  BY <1>1, RequestsAssumption, FS_Injection
<1>3. ASSUME \A r \in S : Entry(r) \in E
      PROVE  Cardinality(S) <= Cardinality(E)
  <2>1. g \in Injection(S, E)
    BY <1>3 DEF Injection, IsInjective, Entry
  <2>2. QED
    BY <1>2, <2>1, FS_Injection
<1>4. ASSUME \A e \in E : e.by \in S
      PROVE  Cardinality(E) <= Cardinality(S)
  <2>1. f \in Injection(E, S)
    BY <1>4 DEF Injection, IsInjective, Entry
  <2>2. IsFiniteSet(S)
    BY RequestsAssumption, FS_Subset
  <2>3. QED
    BY <2>1, <2>2, FS_Injection
<1>5. QED
  BY <1>2, <1>3, <1>4

\* What Redis has of a counter is what was stored, or nothing.
LEMMA CounterFacts ==
  ASSUME TypeOK, NEW k \in Keys
  PROVE  /\ Counter(k) \in Counts /\ counters[k] \in Counts /\ Gone \in Counts
         /\ \/ Counter(k) = counters[k]
            \/ Over(counters[k].ends) /\ Counter(k) = Gone
<1>1. Gone \in Counts /\ counters[k] \in Counts
  BY DEF Gone, Counts, TypeOK
<1>2. QED
  BY <1>1 DEF Counter

\* A request's slide leaves entries of requests.
LEMMA SlidType ==
  ASSUME TypeOK, NEW r \in Requests
  PROVE  Slid(r) \in [entries : SUBSET [by : Requests, at : Instants],
                     ends : Nat \cup {Never}]
<1>1. [by |-> r, at |-> second[r]] \in [by : Requests, at : Instants]
  BY DEF TypeOK
<1>2. log[who[r]].entries \subseteq [by : Requests, at : Instants]
  BY DEF TypeOK
<1>3. Fresh(who[r], second[r]) \subseteq log[who[r]].entries
  BY DEF Fresh, Entries
<1>4. now + Window \in Nat
  BY DEF TypeOK, Instants
<1>5. QED
  BY <1>1, <1>2, <1>3, <1>4 DEF Slid

-----------------------------------------------------------------------------
(* Types                                                                   *)

\* The state is well typed initially.
LEMMA InitType == Init => TypeOK
<1> SUFFICES ASSUME Init
             PROVE  TypeOK
  OBVIOUS
<1>1. 0 \in Instants
  BY DEF Instants
<1>2. counters \in [Keys -> Counts]
  BY DEF Init, Gone, Counts
<1>3. log \in [Identities -> [entries: SUBSET [by: Requests, at: Instants],
                             ends: Nat \cup {Never}]]
  BY DEF Init
<1>4. QED
  BY <1>1, <1>2, <1>3 DEF Init, TypeOK, Verdicts

\* Every step keeps the types.
LEMMA NextType ==
  ASSUME TypeOK, [Next]_vars
  PROVE  TypeOK'
<1>1. ASSUME NEW r \in Requests, Arrive(r) \/ Enter(r)
      PROVE  TypeOK'
  <2>1. CASE Arrive(r)
    BY <2>1 DEF Arrive, Goto, TypeOK, redis
  <2>2. CASE Enter(r)
    BY <2>2 DEF Enter, Goto, TypeOK, redis
  <2>3. QED
    BY <1>1, <2>1, <2>2
<1>2. ASSUME NEW r \in Requests, NEW c \in Counts,
             counters' = [counters EXCEPT ![Key(r)] = c]
      PROVE  counters' \in [Keys -> Counts]
  BY <1>2, KeyType DEF TypeOK
<1>3. ASSUME NEW r \in Requests, Incr(r)
      PROVE  TypeOK'
  <2>1. Key(r) \in Keys
    BY KeyType
  <2>2. PICK c \in Counts : c = Counter(Key(r))
    BY <2>1, CounterFacts
  <2>3. [n |-> c.n + 1, ends |-> c.ends] \in Counts /\ c.n + 1 \in Nat
    BY DEF Counts
  <2>4. counters' \in [Keys -> Counts]
    BY <1>2, <1>3, <2>2, <2>3 DEF Incr
  <2>5. Remaining(c.n + 1) \in 0 .. Limit
    BY <2>3 DEF Remaining
  <2>6. remaining' \in [Requests -> 0 .. Limit] /\ incrAt' \in [Requests -> Instants]
    BY <1>3, <2>2, <2>5 DEF Incr, TypeOK
  <2>7. /\ pc' \in [Requests -> {"idle", "incr", "expire", "enter", "slide", "done"}]
        /\ fixed' \in [Requests -> Verdicts]
    BY <1>3 DEF Incr, Pass, Goto, Verdicts, TypeOK
  <2>8. QED
    BY <1>3, <2>4, <2>6, <2>7 DEF Incr, TypeOK
<1>4. ASSUME NEW r \in Requests, Expire(r)
      PROVE  TypeOK'
  <2>1. Key(r) \in Keys
    BY KeyType
  <2>2. PICK c \in Counts : c = Counter(Key(r))
    BY <2>1, CounterFacts
  <2>3. [n |-> c.n, ends |-> now + Window] \in Counts /\ Gone \in Counts
    BY <2>1, CounterFacts DEF Counts, TypeOK, Instants
  <2>4. counters' \in [Keys -> Counts]
    BY <1>2, <1>4, <2>2, <2>3 DEF Expire
  <2>5. /\ pc' \in [Requests -> {"idle", "incr", "expire", "enter", "slide", "done"}]
        /\ fixed' \in [Requests -> Verdicts]
    BY <1>4 DEF Expire, Pass, Goto, Verdicts, TypeOK
  <2>6. QED
    BY <1>4, <2>4, <2>5 DEF Expire, TypeOK
<1>5. ASSUME NEW r \in Requests, CounterFails(r)
      PROVE  TypeOK'
  <2>1. Key(r) \in Keys
    BY KeyType
  <2>2. PICK c \in Counts : c = Counter(Key(r))
    BY <2>1, CounterFacts
  <2>3. [n |-> c.n + 1, ends |-> c.ends] \in Counts
    BY DEF Counts
  <2>4. now + Window \in Nat
    BY DEF TypeOK, Instants
  <2>5. counters' \in [Keys -> Counts]
    <3>1. CASE counters' = counters
      BY <3>1 DEF TypeOK
    <3>2. CASE counters' = [counters EXCEPT ![Key(r)].ends = now + Window]
      BY <2>1, <2>4, <3>2 DEF TypeOK, Counts
    <3>3. CASE counters' = [counters EXCEPT ![Key(r)] =
                              [n |-> Counter(Key(r)).n + 1,
                               ends |-> Counter(Key(r)).ends]]
      BY <1>2, <2>2, <2>3, <3>3
    <3>4. QED
      BY <1>5, <3>1, <3>2, <3>3 DEF CounterFails
  <2>6. /\ pc' \in [Requests -> {"idle", "incr", "expire", "enter", "slide", "done"}]
        /\ fixed' \in [Requests -> Verdicts] /\ failures' \in 0 .. MaxFailures
    BY <1>5 DEF CounterFails, FailsNow, Pass, Goto, Verdicts, TypeOK
  <2>7. QED
    BY <1>5, <2>5, <2>6 DEF CounterFails, TypeOK
<1>6. ASSUME NEW r \in Requests, Slide(r) \/ LogFails(r)
      PROVE  TypeOK'
  <2>1. who[r] \in Identities
    BY DEF TypeOK
  <2>2. log' = log \/ log' = [log EXCEPT ![who[r]] = Slid(r)]
    BY <1>6 DEF Slide, LogFails
  <2>3. log' \in [Identities -> [entries: SUBSET [by: Requests, at: Instants],
                                ends: Nat \cup {Never}]]
    BY <2>1, <2>2, SlidType DEF TypeOK
  <2>4. /\ pc' \in [Requests -> {"idle", "incr", "expire", "enter", "slide", "done"}]
        /\ sliding' \in [Requests -> Verdicts] /\ failures' \in 0 .. MaxFailures
    BY <1>6 DEF Slide, LogFails, FailsNow, Goto, Verdicts, TypeOK
  <2>5. QED
    BY <1>6, <2>3, <2>4 DEF Slide, LogFails, TypeOK
<1>7. CASE Tick
  BY <1>7 DEF Tick, TypeOK, Instants, redis
<1>8. CASE UNCHANGED vars
  BY <1>8 DEF vars, TypeOK, redis
<1>9. QED
  BY <1>1, <1>3, <1>4, <1>5, <1>6, <1>7, <1>8 DEF Next, AllDone

\* Every step keeps a request's verdicts and times in order.
LEMMA NextStaged ==
  ASSUME TypeOK, Staged, [Next]_vars
  PROVE  Staged'
<1>1. ASSUME NEW r \in Requests, Arrive(r)
      PROVE  Staged'
  BY <1>1 DEF Arrive, Goto, redis, TypeOK, Instants, Staged
<1>2. ASSUME NEW r \in Requests, Incr(r) \/ Expire(r) \/ CounterFails(r)
      PROVE  Staged'
  <2>1. /\ pc[r] \in {"incr", "expire"}
        /\ UNCHANGED <<now, minute, second, sliding>>
        /\ pc'[r] \in {"expire", "enter", "done"}
        /\ pc'[r] = "expire" => fixed' = fixed
        /\ \A q \in Requests \ {r} : pc'[q] = pc[q] /\ fixed'[q] = fixed[q]
    BY <1>2 DEF Incr, Expire, CounterFails, Pass, Goto, TypeOK
  <2>2. QED
    BY <2>1 DEF Staged
<1>3. ASSUME NEW r \in Requests, Enter(r)
      PROVE  Staged'
  BY <1>3 DEF Enter, Goto, redis, TypeOK, Instants, Staged
<1>4. ASSUME NEW r \in Requests, Slide(r) \/ LogFails(r)
      PROVE  Staged'
  BY <1>4 DEF Slide, LogFails, Goto, TypeOK, Staged
<1>5. CASE Tick
  BY <1>5 DEF Tick, redis, TypeOK, Instants, Staged
<1>6. CASE UNCHANGED vars
  BY <1>6 DEF vars, redis, Staged
<1>7. QED
  BY <1>1, <1>2, <1>3, <1>4, <1>5, <1>6 DEF Next, AllDone

-----------------------------------------------------------------------------
(* The fixed window                                                        *)

\* A counter that is over, is over after its window.
LEMMA NotOverInItsWindow ==
  ASSUME TypeOK, CountersCount, NEW k \in Keys, now < WindowEnd(k)
  PROVE  Counter(k) = counters[k]
<1>1. counters[k].ends \in Nat \cup {Never}
  BY DEF TypeOK, Counts
<1>2. now \in Nat /\ WindowEnd(k) \in Nat
  BY DEF TypeOK, Instants, WindowEnd, Keys, Windows
<1>3. QED
  BY <1>1, <1>2 DEF CountersCount, InLine, Counter, Over

\* A time of a window is before its end.
LEMMA BeforeTheEnd ==
  ASSUME NEW k \in Keys, NEW t \in Nat, t \div Window = k[2]
  PROVE  t < WindowEnd(k)
  BY InItsWindow DEF WindowEnd

\* Setting a time to live at any time after the request came makes the counter
\* live beyond its window.
LEMMA LivesBeyondItsWindow ==
  ASSUME TypeOK, Staged, NEW r \in Requests
  PROVE  now + Window >= WindowEnd(Key(r))
<1>1. Key(r)[2] = minute[r] \div Window /\ minute[r] \in Nat /\ now \in Nat
  BY KeyType DEF TypeOK, Instants
<1>2. (minute[r] \div Window) * Window <= minute[r] /\ minute[r] \div Window \in Nat
  BY <1>1, InItsWindow
<1>3. (minute[r] \div Window + 1) * Window = (minute[r] \div Window) * Window + Window
  BY <1>2
<1>4. minute[r] <= now
  BY DEF Staged
<1>5. (minute[r] \div Window) * Window \in Nat
  BY <1>2
<1>6. QED
  BY <1>1, <1>2, <1>3, <1>4, <1>5 DEF WindowEnd

\* Every step keeps counters in line with the requests that they count.
LEMMA NextCountersCount ==
  ASSUME TypeOK, Staged, CountersCount, [Next]_vars
  PROVE  CountersCount'
<1>1. ASSUME NEW k \in Keys
      PROVE  /\ Counted(k) \in SUBSET Requests /\ Admitted(k) \in SUBSET Requests
             /\ Counted(k)' \in SUBSET Requests /\ Admitted(k)' \in SUBSET Requests
             /\ WindowEnd(k) \in Nat
             /\ counters[k].n \in Nat /\ counters[k].ends \in Nat \cup {Never}
             /\ InLine(k)
  <2>1. /\ Counted(k) \in SUBSET Requests /\ Admitted(k) \in SUBSET Requests
        /\ Counted(k)' \in SUBSET Requests /\ Admitted(k)' \in SUBSET Requests
    BY DEF Counted, Admitted
  <2>2. WindowEnd(k) \in Nat
    BY DEF WindowEnd, Keys, Windows
  <2>3. counters[k].n \in Nat /\ counters[k].ends \in Nat \cup {Never}
    BY DEF TypeOK, Counts
  <2>4. QED
    BY <2>1, <2>2, <2>3 DEF CountersCount
<1>2. now \in Nat
  BY DEF TypeOK, Instants
<1>3. ASSUME NEW k \in Keys, Counted(k) \subseteq Counted(k)',
             Admitted(k)' \subseteq Admitted(k),
             counters'[k] = counters[k], now' = now \/ now' = now + 1
      PROVE  InLine(k)'
  <2>1. Cardinality(Counted(k)) <= Cardinality(Counted(k)')
    BY <1>1, <1>3, CountRequests
  <2>2. Cardinality(Admitted(k)') <= Cardinality(Admitted(k))
    BY <1>1, <1>3, CountRequests
  <2>3. /\ Cardinality(Counted(k)) \in Nat /\ Cardinality(Admitted(k)) \in Nat
        /\ Cardinality(Counted(k)') \in Nat /\ Cardinality(Admitted(k)') \in Nat
    BY <1>1, CountRequests
  <2>4. now' < WindowEnd(k) => now < WindowEnd(k)
    BY <1>1, <1>2, <1>3
  <2>5. QED
    BY <1>1, <1>3, <2>1, <2>2, <2>3, <2>4 DEF InLine, WindowEnd
<1>4. ASSUME NEW r \in Requests, Arrive(r)
      PROVE  CountersCount'
  <2>1. /\ pc[r] = "idle" /\ pc'[r] = "incr" /\ fixed[r] = "none"
        /\ UNCHANGED <<now, counters, who, fixed, incrAt>>
        /\ \A q \in Requests \ {r} : pc'[q] = pc[q] /\ minute'[q] = minute[q]
    BY <1>4 DEF Arrive, Goto, TypeOK, redis, Staged
  <2>2. \A k \in Keys : /\ Counted(k) \subseteq Counted(k)'
                        /\ Admitted(k)' \subseteq Admitted(k)
    BY <2>1 DEF Counted, Admitted, Key
  <2>3. QED
    BY <1>3, <2>1, <2>2 DEF CountersCount
<1>5. ASSUME NEW r \in Requests, Enter(r) \/ Slide(r) \/ LogFails(r)
      PROVE  CountersCount'
  <2>1. /\ pc[r] \in {"enter", "slide"} /\ pc'[r] \in {"slide", "done"}
        /\ UNCHANGED <<now, counters, who, minute, fixed, incrAt>>
        /\ \A q \in Requests \ {r} : pc'[q] = pc[q]
    BY <1>5 DEF Enter, Slide, LogFails, Goto, TypeOK, redis
  <2>2. \A k \in Keys : /\ Counted(k) \subseteq Counted(k)'
                        /\ Admitted(k)' \subseteq Admitted(k)
    BY <2>1 DEF Counted, Admitted, Key
  <2>3. QED
    BY <1>3, <2>1, <2>2 DEF CountersCount
<1>6. CASE Tick \/ UNCHANGED vars
  <2>1. /\ UNCHANGED <<counters, who, pc, minute, fixed, incrAt>>
        /\ now' = now \/ now' = now + 1
    BY <1>6 DEF Tick, vars, redis
  <2>2. \A k \in Keys : /\ Counted(k) \subseteq Counted(k)'
                        /\ Admitted(k)' \subseteq Admitted(k)
    BY <2>1 DEF Counted, Admitted, Key
  <2>3. QED
    BY <1>3, <2>1, <2>2 DEF CountersCount
<1>7. ASSUME NEW r \in Requests, Incr(r)
      PROVE  CountersCount'
  <2>0. PICK key \in Keys : key = Key(r)
    BY KeyType
  <2>1. PICK n \in Nat : n = Counter(key).n + 1 /\ Counter(key).n \in Nat
    BY CounterFacts DEF Counts
  <2>2. /\ pc[r] = "incr" /\ pc'[r] # "incr" /\ pc'[r] # "idle"
        /\ incrAt'[r] = now /\ fixed[r] = "none"
        /\ pc'[r] = "expire" \/ fixed'[r] = "passed" => n = 1 \/ n <= Limit
        /\ UNCHANGED <<now, who, minute>>
        /\ \A q \in Requests \ {r} :
             pc'[q] = pc[q] /\ fixed'[q] = fixed[q] /\ incrAt'[q] = incrAt[q]
    BY <1>7, <2>0, <2>1 DEF Incr, SetsTtl, Pass, Goto, TooMany, TypeOK, Staged
  <2>3. /\ counters'[key].n = n /\ counters'[key].ends = Counter(key).ends
        /\ \A k \in Keys \ {key} : counters'[k] = counters[k]
    BY <1>7, <2>0, <2>1 DEF Incr, TypeOK
  <2>4. ASSUME NEW k \in Keys, k # key
        PROVE  InLine(k)'
    <3>1. /\ Counted(k) \subseteq Counted(k)'
          /\ Admitted(k)' \subseteq Admitted(k)
      BY <2>0, <2>2, <2>4 DEF Counted, Admitted, Key
    <3>2. QED
      BY <1>3, <2>2, <2>3, <2>4, <3>1
  <2>5. InLine(key)'
    <3>1. /\ Counted(key)' = Counted(key) \cup {r} /\ r \notin Counted(key)
          /\ Admitted(key)' \subseteq Admitted(key) \cup {r}
          /\ r \in Admitted(key)' => /\ n = 1 \/ n <= Limit
                                    /\ now \div Window = key[2]
      BY <2>0, <2>2 DEF Counted, Admitted, Key
    <3>2. /\ Cardinality(Counted(key)') = Cardinality(Counted(key)) + 1
          /\ Cardinality(Admitted(key)') <= Cardinality(Admitted(key)) + 1
          /\ r \notin Admitted(key)' =>
               Cardinality(Admitted(key)') <= Cardinality(Admitted(key))
          /\ Cardinality(Counted(key)) \in Nat /\ Cardinality(Admitted(key)) \in Nat
          /\ Cardinality(Admitted(key)') \in Nat
      BY <1>1, <2>1, <3>1, CountRequests
    <3>3. now \div Window = key[2] => now < WindowEnd(key)
      BY <1>2, <2>1, BeforeTheEnd
    <3>4. now < WindowEnd(key) => Counter(key) = counters[key]
      BY <2>1, NotOverInItsWindow
    <3>5. Counter(key) = counters[key] \/ Counter(key) = Gone
      BY <2>1, CounterFacts
    <3>6. counters'[key].n <= Cardinality(Counted(key)')
      BY <1>1, <2>1, <2>3, <3>2, <3>5 DEF Gone, InLine
    <3>7. counters'[key].ends # Never => counters'[key].ends >= WindowEnd(key)
      BY <1>1, <2>1, <2>3, <3>5 DEF Gone, InLine
    <3>8. now < WindowEnd(key) => Cardinality(Admitted(key)') <= n
      BY <1>1, <2>1, <3>2, <3>4 DEF InLine
    <3>9. Cardinality(Admitted(key)') <= Limit
      BY <1>1, <2>1, <3>1, <3>2, <3>3, <3>8 DEF InLine
    <3>10. QED
      BY <2>2, <2>3, <3>6, <3>7, <3>8, <3>9 DEF InLine, WindowEnd
  <2>6. QED
    BY <2>4, <2>5 DEF CountersCount
<1>8. ASSUME NEW r \in Requests, Expire(r) \/ CounterFails(r)
      PROVE  CountersCount'
  <2>0. PICK key \in Keys : key = Key(r)
    BY KeyType
  <2>1. Counter(key) \in Counts
    BY CounterFacts
  <2>2. /\ pc[r] \in {"incr", "expire"} /\ pc'[r] \in {"enter", "done"}
        /\ fixed'[r] = "passed" => pc[r] = "expire"
        /\ UNCHANGED <<now, who, minute, incrAt>>
        /\ \A q \in Requests \ {r} : pc'[q] = pc[q] /\ fixed'[q] = fixed[q]
    BY <1>8 DEF Expire, CounterFails, Pass, Goto, TypeOK
  <2>3. \A k \in Keys : /\ Counted(k) \subseteq Counted(k)'
                        /\ Admitted(k)' \subseteq Admitted(k)
    BY <2>2 DEF Counted, Admitted, Key
  <2>4. \A k \in Keys \ {key} : counters'[k] = counters[k]
    BY <1>8, <2>0, <2>1 DEF Expire, CounterFails, TypeOK
  <2>5. CASE counters' = counters
    BY <1>3, <2>2, <2>3, <2>5 DEF CountersCount
  <2>6. CASE counters' # counters
    <3>1. /\ Cardinality(Counted(key)) \in Nat /\ Cardinality(Admitted(key)) \in Nat
          /\ Cardinality(Counted(key)') \in Nat /\ Cardinality(Admitted(key)') \in Nat
          /\ Cardinality(Counted(key)) <= Cardinality(Counted(key)')
          /\ Cardinality(Admitted(key)') <= Cardinality(Admitted(key))
      <4>1. Counted(key) \subseteq Counted(key)' /\ Admitted(key)' \subseteq Admitted(key)
        BY <2>1, <2>3
      <4>2. QED
        BY <1>1, <2>1, <4>1, CountRequests
    <3>2. now < WindowEnd(key) => Counter(key) = counters[key]
      BY <2>1, NotOverInItsWindow
    <3>3. Counter(key) = counters[key] \/ Counter(key) = Gone
      BY <2>1, CounterFacts
    <3>4. now + Window >= WindowEnd(key) /\ now + Window \in Nat
      BY <1>2, <2>0, LivesBeyondItsWindow
    <3>5. \/ counters'[key] = Gone /\ Counter(key) = Gone
          \/ counters'[key] = [n |-> Counter(key).n, ends |-> now + Window]
          \/ counters'[key] = [counters[key] EXCEPT !.ends = now + Window]
          \/ /\ counters'[key] = [n |-> Counter(key).n + 1, ends |-> Counter(key).ends]
             /\ pc[r] = "incr"
      BY <1>8, <2>0, <2>1, <2>6 DEF Expire, CounterFails, TypeOK
    <3>6. InLine(key)'
      <4>1. CASE counters'[key] = Gone /\ Counter(key) = Gone
        BY <1>1, <2>1, <2>2, <3>1, <3>2, <4>1 DEF Gone, InLine, WindowEnd
      <4>2. CASE \/ counters'[key] = [n |-> Counter(key).n, ends |-> now + Window]
                 \/ counters'[key] = [counters[key] EXCEPT !.ends = now + Window]
        <5>1. /\ counters'[key].ends = now + Window
              /\ counters'[key].n \in {Counter(key).n, counters[key].n}
          BY <2>1, <4>2 DEF TypeOK, Counts
        <5>2. counters'[key].n \in Nat /\ counters'[key].n <= counters[key].n
          BY <1>1, <2>1, <3>3, <5>1 DEF Gone
        <5>3. now < WindowEnd(key) => counters'[key].n = counters[key].n
          BY <3>2, <5>1
        <5>4. QED
          BY <1>1, <2>1, <2>2, <3>1, <3>4, <5>1, <5>2, <5>3 DEF InLine, WindowEnd
      <4>3. CASE /\ counters'[key] = [n |-> Counter(key).n + 1,
                                      ends |-> Counter(key).ends]
                 /\ pc[r] = "incr"
        <5>1. Counted(key)' = Counted(key) \cup {r} /\ r \notin Counted(key)
          BY <2>0, <2>2, <4>3 DEF Counted, Key
        <5>2. Cardinality(Counted(key)') = Cardinality(Counted(key)) + 1
          BY <1>1, <2>1, <5>1, CountRequests
        <5>3. counters'[key].n = Counter(key).n + 1 /\ Counter(key).n \in Nat
          BY <2>1, <4>3 DEF Counts
        <5>4. counters'[key].n <= Cardinality(Counted(key)')
          BY <1>1, <2>1, <3>1, <3>3, <5>2, <5>3 DEF Gone, InLine
        <5>5. counters'[key].ends # Never => counters'[key].ends >= WindowEnd(key)
          BY <1>1, <2>1, <3>3, <4>3 DEF Gone, InLine
        <5>6. QED
          BY <1>1, <2>1, <2>2, <3>1, <3>2, <5>3, <5>4, <5>5 DEF InLine, WindowEnd
      <4>4. QED
        BY <3>5, <4>1, <4>2, <4>3
    <3>7. \A k \in Keys \ {key} : InLine(k)'
      BY <1>3, <2>2, <2>3, <2>4
    <3>8. QED
      BY <3>6, <3>7 DEF CountersCount
  <2>7. QED
    BY <2>5, <2>6
<1>9. QED
  BY <1>4, <1>5, <1>6, <1>7, <1>8 DEF Next, AllDone

\* Every step keeps an owner for each counter without a time to live.
LEMMA NextCountersExpire ==
  ASSUME TypeOK, Staged, CountersExpire, [Next]_vars
  PROVE  CountersExpire'
<1> DEFINE Owner(k, q) == Key(q) = k /\ (pc[q] = "expire" \/ fixed[q] = "open")
<1>1. ASSUME NEW r \in Requests, pc[r] # "expire", fixed[r] # "open",
             UNCHANGED <<counters, who, fixed>>,
             \A q \in Requests \ {r} : pc'[q] = pc[q] /\ minute'[q] = minute[q]
      PROVE  CountersExpire'
  <2>1. \A k \in Keys, q \in Requests : Owner(k, q) => Owner(k, q)'
    BY <1>1 DEF Key
  <2>2. QED
    BY <1>1, <2>1 DEF CountersExpire
<1>2. CASE UNCHANGED <<counters, who, fixed, pc, minute>>
  BY <1>2 DEF CountersExpire, Key
<1>3. ASSUME NEW r \in Requests, Arrive(r)
      PROVE  CountersExpire'
  <2>1. /\ pc[r] = "idle" /\ UNCHANGED <<counters, who, fixed>>
        /\ \A q \in Requests \ {r} : pc'[q] = pc[q] /\ minute'[q] = minute[q]
    BY <1>3 DEF Arrive, Goto, TypeOK, redis
  <2>2. QED
    BY <1>1, <2>1 DEF Staged
<1>4. ASSUME NEW r \in Requests, Enter(r) \/ Slide(r) \/ LogFails(r)
      PROVE  CountersExpire'
  <2>1. /\ pc[r] \in {"enter", "slide"}
        /\ UNCHANGED <<counters, who, fixed, minute>>
        /\ \A q \in Requests \ {r} : pc'[q] = pc[q]
    BY <1>4 DEF Enter, Slide, LogFails, Goto, TypeOK, redis
  <2>2. \A k \in Keys, q \in Requests : Owner(k, q) => Owner(k, q)'
    BY <2>1 DEF Key
  <2>3. QED
    BY <2>1, <2>2 DEF CountersExpire
<1>5. ASSUME NEW r \in Requests, Incr(r) \/ Expire(r) \/ CounterFails(r)
      PROVE  CountersExpire'
  <2>1. PICK key \in Keys : key = Key(r)
    BY KeyType
  <2>2. /\ UNCHANGED <<who, minute>> /\ pc[r] \in {"incr", "expire"}
        /\ \A q \in Requests \ {r} : pc'[q] = pc[q] /\ fixed'[q] = fixed[q]
        /\ \A k \in Keys \ {key} : counters'[k] = counters[k]
    BY <1>5, <2>1 DEF Incr, Expire, CounterFails, Pass, Goto, TypeOK
  <2>3. \A k \in Keys, q \in Requests \ {r} : Owner(k, q) => Owner(k, q)'
    BY <2>2 DEF Key
  <2>4. fixed[r] # "open" /\ \A k \in Keys : Owner(k, r) => k = key
    BY <2>1, <2>2 DEF Staged
  <2>5. \A k \in Keys \ {key} :
          counters'[k].n > 0 /\ counters'[k].ends = Never =>
            \E q \in Requests : Owner(k, q)'
    BY <2>2, <2>3, <2>4 DEF CountersExpire
  <2>6. counters'[key].n > 0 /\ counters'[key].ends = Never =>
          \E q \in Requests : Owner(key, q)'
    <3>1. CASE Owner(key, r)'
      BY <3>1
    <3>2. CASE ~Owner(key, r)'
      <4>1. Counter(key) \in Counts
        BY CounterFacts
      <4>2. pc'[r] # "expire" /\ fixed'[r] # "open"
        BY <2>1, <2>2, <3>2 DEF Key
      <4>3. CASE Incr(r)
        <5>1. Counter(key).n # 0 /\ counters'[key].ends = Counter(key).ends
          BY <1>5, <2>1, <4>1, <4>2, <4>3
             DEF Incr, SetsTtl, Goto, TypeOK, Counts
        <5>2. Counter(key) = counters[key]
          BY <5>1, CounterFacts DEF Gone
        <5>3. counters[key].n > 0
          BY <4>1, <5>1, <5>2 DEF Counts
        <5>4. pc[r] = "incr"
          BY <4>3 DEF Incr
        <5>5. QED
          BY <2>3, <5>1, <5>2, <5>3, <5>4, <2>4 DEF CountersExpire
      <4>4. CASE Expire(r)
        <5>1. counters'[key] = Gone \/ counters'[key].ends = now + Window
          BY <2>1, <4>4 DEF Expire, TypeOK
        <5>2. now + Window # Never
          BY DEF TypeOK, Instants
        <5>3. QED
          BY <5>1, <5>2 DEF Gone
      <4>5. CASE CounterFails(r)
        BY <4>2, <4>5 DEF CounterFails, Pass, TypeOK
      <4>6. QED
        BY <1>5, <4>3, <4>4, <4>5
    <3>3. QED
      BY <3>1, <3>2
  <2>7. QED
    BY <2>5, <2>6 DEF CountersExpire
<1>6. CASE Tick \/ UNCHANGED vars
  BY <1>2, <1>6 DEF Tick, vars, redis
<1>7. QED
  BY <1>3, <1>4, <1>5, <1>6 DEF Next, AllDone

-----------------------------------------------------------------------------
(* The sliding window                                                      *)

\* A slide leaves its own entry and those that are not older than a window.
LEMMA SlidFacts ==
  ASSUME TypeOK, Staged, LogIsOfRequests, NEW r \in Requests
  PROVE  /\ Entry(r) \in Slid(r).entries
         /\ Slid(r).ends = now + Window
         /\ \A e \in Slid(r).entries :
              /\ e.by \in Requests /\ e = Entry(e.by) /\ who[e.by] = who[r]
              /\ e.at <= now
              /\ e.by = r \/ (/\ sliding[e.by] # "none"
                              /\ second[e.by] > second[r] - Window)
<1>1. Slid(r).entries = Fresh(who[r], second[r]) \cup {Entry(r)}
      /\ Slid(r).ends = now + Window
  BY DEF Slid, Entry
<1>2. ASSUME NEW e \in Fresh(who[r], second[r])
      PROVE  /\ e.by \in Requests /\ e = Entry(e.by) /\ who[e.by] = who[r]
             /\ sliding[e.by] # "none" /\ e.at = second[e.by]
             /\ second[e.by] > second[r] - Window
  <2>1. e \in log[who[r]].entries /\ e.at > second[r] - Window
    BY DEF Fresh, Entries
  <2>2. who[r] \in Identities
    BY DEF TypeOK
  <2>3. e.by \in Requests
    BY <2>1, <2>2 DEF TypeOK
  <2>4. who[e.by] = who[r] /\ e = Entry(e.by) /\ sliding[e.by] # "none"
    BY <2>1, <2>2 DEF LogIsOfRequests
  <2>5. e.at = second[e.by]
    BY <2>4 DEF Entry
  <2>6. QED
    BY <2>1, <2>3, <2>4, <2>5
<1>3. Entry(r).by = r /\ Entry(r).at = second[r]
  BY DEF Entry
<1>4. QED
  BY <1>1, <1>2, <1>3 DEF Staged

\* What was let pass less than a window ago is among what a slide leaves.
LEMMA SlideSees ==
  ASSUME TypeOK, Staged, LogIsOfRequests, Remembered,
         NEW r \in Requests, NEW q \in Requests, who[q] = who[r],
         sliding[q] = "passed", now < second[q] + Window
  PROVE  Entry(q) \in Slid(r).entries
<1>1. Entry(q) \in log[who[r]].entries
  BY DEF Remembered
<1>2. Entry(q).at = second[q] /\ who[r] \in Identities
  BY DEF Entry, TypeOK
<1>3. log[who[r]].ends # Never /\ log[who[r]].ends >= second[q] + Window
  BY <1>1, <1>2 DEF LogIsOfRequests
<1>4. /\ now \in Nat /\ second[q] \in Nat /\ second[r] \in Nat
      /\ log[who[r]].ends \in Nat
  BY <1>2, <1>3 DEF TypeOK, Instants
<1>5. ~Over(log[who[r]].ends)
  BY <1>3, <1>4 DEF Over
<1>6. second[r] <= now
  BY DEF Staged
<1>7. second[q] > second[r] - Window
  BY <1>4, <1>6
<1>8. QED
  BY <1>1, <1>2, <1>5, <1>7 DEF Slid, Fresh, Entries

\* A step that is no slide and no tick leaves entries and verdicts alone.
LEMMA LogUntouched ==
  ASSUME TypeOK, Staged, [Next]_vars,
         ~\E r \in Requests : Slide(r) \/ LogFails(r)
  PROVE  /\ UNCHANGED <<who, log, sliding>>
         /\ now' = now \/ now' = now + 1
         /\ \A q \in Requests : sliding[q] # "none" => second'[q] = second[q]
<1>1. ASSUME NEW r \in Requests, Enter(r)
      PROVE  /\ UNCHANGED <<now, who, log, sliding>> /\ sliding[r] = "none"
             /\ \A q \in Requests \ {r} : second'[q] = second[q]
  BY <1>1 DEF Enter, Goto, redis, TypeOK, Staged
<1>2. ASSUME NEW r \in Requests,
             Arrive(r) \/ Incr(r) \/ Expire(r) \/ CounterFails(r)
      PROVE  UNCHANGED <<now, who, log, sliding, second>>
  BY <1>2 DEF Arrive, Incr, Expire, CounterFails, redis
<1>3. CASE Tick \/ UNCHANGED vars
  BY <1>3 DEF Tick, vars, redis
<1>4. QED
  BY <1>1, <1>2, <1>3 DEF Next, AllDone

\* What a slide does to the log and the verdicts.
LEMMA SlideFacts ==
  ASSUME TypeOK, Staged, NEW r \in Requests, Slide(r) \/ LogFails(r)
  PROVE  /\ pc[r] = "slide" /\ sliding[r] = "none" /\ sliding'[r] # "none"
         /\ UNCHANGED <<now, who, second>>
         /\ \A q \in Requests \ {r} : sliding'[q] = sliding[q]
         /\ \A i \in Identities \ {who[r]} : log'[i] = log[i]
         /\ log'[who[r]] = Slid(r) \/ log' = log
         /\ sliding'[r] = "passed" =>
              /\ log'[who[r]] = Slid(r)
              /\ ~(Cardinality(Slid(r).entries) > Times)
         /\ sliding'[r] = "rejected" => Cardinality(Slid(r).entries) > Times
<1>1. CASE Slide(r)
  BY <1>1 DEF Slide, TypeOK, Staged
<1>2. CASE LogFails(r)
  BY <1>2 DEF LogFails, TypeOK, Staged
<1>3. QED
  BY <1>1, <1>2

\* Every step leaves entries of requests in the log, for as long as they count.
LEMMA NextLogIsOfRequests ==
  ASSUME TypeOK, Staged, LogIsOfRequests, [Next]_vars
  PROVE  LogIsOfRequests'
<1>1. ASSUME NEW r \in Requests, Slide(r) \/ LogFails(r)
      PROVE  LogIsOfRequests'
  <2>1. SUFFICES ASSUME NEW i \in Identities, NEW e \in log'[i].entries
                 PROVE  /\ who'[e.by] = i /\ e = Entry(e.by)'
                        /\ sliding'[e.by] # "none"
                        /\ log'[i].ends # Never /\ log'[i].ends >= e.at + Window
    BY DEF LogIsOfRequests
  <2>2. Entry(e.by)' = Entry(e.by)
    BY <1>1, SlideFacts DEF Entry
  <2>3. CASE log'[i] = log[i]
    <3>1. /\ who[e.by] = i /\ e = Entry(e.by) /\ sliding[e.by] # "none"
          /\ log[i].ends # Never /\ log[i].ends >= e.at + Window
      BY <2>1, <2>3 DEF LogIsOfRequests
    <3>2. e.by \in Requests
      BY <2>1, <2>3 DEF TypeOK
    <3>3. QED
      BY <1>1, <2>2, <2>3, <3>1, <3>2, SlideFacts
  <2>4. CASE i = who[r] /\ log'[i] = Slid(r)
    <3>1. /\ e.by \in Requests /\ e = Entry(e.by) /\ who[e.by] = who[r]
          /\ e.at <= now /\ Slid(r).ends = now + Window
          /\ e.by = r \/ sliding[e.by] # "none"
      BY <2>1, <2>4, SlidFacts
    <3>2. e.at \in Nat /\ now \in Nat
      BY <3>1 DEF Entry, TypeOK, Instants
    <3>3. log'[i].ends # Never /\ log'[i].ends >= e.at + Window
      BY <2>4, <3>1, <3>2
    <3>4. QED
      BY <1>1, <2>2, <2>4, <3>1, <3>3, SlideFacts
  <2>5. QED
    BY <1>1, <2>3, <2>4, SlideFacts
<1>2. CASE ~\E r \in Requests : Slide(r) \/ LogFails(r)
  <2>1. /\ UNCHANGED <<who, log, sliding>>
        /\ \A q \in Requests : sliding[q] # "none" => second'[q] = second[q]
    BY <1>2, LogUntouched
  <2>2. \A i \in Identities : \A e \in log[i].entries : e.by \in Requests
    BY DEF TypeOK
  <2>3. QED
    BY <2>1, <2>2 DEF LogIsOfRequests, Entry
<1>3. QED
  BY <1>1, <1>2

\* Every step remembers what was let pass, for a window.
LEMMA NextRemembered ==
  ASSUME TypeOK, Staged, LogIsOfRequests, Remembered, [Next]_vars
  PROVE  Remembered'
<1>1. SUFFICES ASSUME NEW q \in Requests, sliding'[q] = "passed",
                      now' < second'[q] + Window
               PROVE  Entry(q)' \in log'[who'[q]].entries
  BY DEF Remembered
<1>2. ASSUME NEW r \in Requests, Slide(r) \/ LogFails(r)
      PROVE  Entry(q)' \in log'[who'[q]].entries
  <2>1. UNCHANGED <<now, who, second>> /\ Entry(q)' = Entry(q)
    BY <1>2, SlideFacts DEF Entry
  <2>2. CASE q = r
    BY <1>1, <1>2, <2>1, <2>2, SlideFacts, SlidFacts
  <2>3. CASE q # r
    <3>1. sliding[q] = "passed"
      BY <1>1, <1>2, <2>3, SlideFacts
    <3>2. Entry(q) \in log[who[q]].entries
      BY <1>1, <2>1, <3>1 DEF Remembered
    <3>3. who[q] = who[r] => Entry(q) \in Slid(r).entries
      BY <1>1, <2>1, <3>1, SlideSees
    <3>4. who[q] \in Identities
      BY DEF TypeOK
    <3>5. QED
      BY <1>2, <2>1, <3>2, <3>3, <3>4, SlideFacts
  <2>4. QED
    BY <2>2, <2>3
<1>3. CASE ~\E r \in Requests : Slide(r) \/ LogFails(r)
  <2>1. /\ UNCHANGED <<who, log, sliding>> /\ second'[q] = second[q]
        /\ now' = now \/ now' = now + 1
    BY <1>1, <1>3, LogUntouched
  <2>2. now < second[q] + Window
    BY <1>1, <2>1 DEF TypeOK, Instants
  <2>3. QED
    BY <1>1, <2>1, <2>2 DEF Remembered, Entry
<1>4. QED
  BY <1>2, <1>3

Served(i, t) ==
  {r \in Requests : /\ who[r] = i /\ sliding[r] = "passed"
                    /\ second[r] >= t /\ second[r] < t + Window - MaxLag}

\* Every step keeps the budget of the sliding window: who is let pass by a
\* slide finds the others of the interval in the log.
LEMMA NextSlidingBudget ==
  ASSUME TypeOK, Staged, LogIsOfRequests, Remembered, SlidingBudget, [Next]_vars
  PROVE  SlidingBudget'
<1>1. SUFFICES ASSUME NEW i \in Identities, NEW t \in Instants
               PROVE  Cardinality(Served(i, t)') <= Times
  BY DEF SlidingBudget, Served
<1>2. /\ Served(i, t) \in SUBSET Requests /\ Served(i, t)' \in SUBSET Requests
      /\ Cardinality(Served(i, t)) <= Times
  BY DEF SlidingBudget, Served
<1>3. /\ Cardinality(Served(i, t)) \in Nat /\ Cardinality(Served(i, t)') \in Nat
      /\ Served(i, t)' \subseteq Served(i, t) =>
           Cardinality(Served(i, t)') <= Cardinality(Served(i, t))
  BY <1>2, CountRequests
<1>4. ASSUME NEW r \in Requests, Slide(r) \/ LogFails(r)
      PROVE  Cardinality(Served(i, t)') <= Times
  <2>1. /\ pc[r] = "slide" /\ UNCHANGED <<now, who, second>>
        /\ \A q \in Requests \ {r} : sliding'[q] = sliding[q]
        /\ sliding'[r] = "passed" => ~(Cardinality(Slid(r).entries) > Times)
    BY <1>4, SlideFacts
  <2>2. CASE r \notin Served(i, t)'
    <3>1. Served(i, t)' \subseteq Served(i, t)
      BY <2>1, <2>2 DEF Served
    <3>2. QED
      BY <1>2, <1>3, <3>1
  <2>3. CASE r \in Served(i, t)'
    <3>1. /\ sliding'[r] = "passed" /\ who[r] = i
          /\ second[r] >= t /\ second[r] < t + Window - MaxLag
      BY <2>1, <2>3 DEF Served
    <3>2. now <= second[r] + MaxLag
      BY <2>1 DEF Staged
    <3>3. ASSUME NEW q \in Served(i, t)'
          PROVE  q \in Requests /\ Entry(q) \in Slid(r).entries
      <4>1. CASE q = r
        BY <4>1, SlidFacts
      <4>2. CASE q # r
        <5>1. /\ q \in Requests /\ who[q] = i /\ sliding[q] = "passed"
              /\ second[q] >= t
          BY <2>1, <3>3, <4>2 DEF Served
        <5>2. /\ now \in Nat /\ t \in Nat /\ second[q] \in Nat /\ second[r] \in Nat
          BY <5>1 DEF TypeOK, Instants
        <5>3. now < second[q] + Window
          BY <3>1, <3>2, <5>1, <5>2
        <5>4. QED
          BY <3>1, <5>1, <5>3, SlideSees
      <4>3. QED
        BY <4>1, <4>2
    <3>4. \A e \in Slid(r).entries : e.by \in Requests /\ e = Entry(e.by)
      BY SlidFacts
    <3>5. /\ IsFiniteSet(Slid(r).entries)
          /\ Cardinality(Served(i, t)') <= Cardinality(Slid(r).entries)
      BY <1>2, <3>3, <3>4, EntriesOfRequests
    <3>6. Cardinality(Slid(r).entries) \in Nat
      BY <3>5, FS_CardinalityType
    <3>7. QED
      BY <1>3, <2>1, <3>1, <3>5, <3>6
  <2>4. QED
    BY <2>2, <2>3
<1>5. CASE ~\E r \in Requests : Slide(r) \/ LogFails(r)
  <2>1. /\ UNCHANGED <<who, sliding>>
        /\ \A q \in Requests : sliding[q] # "none" => second'[q] = second[q]
    BY <1>5, LogUntouched
  <2>2. Served(i, t)' \subseteq Served(i, t)
    BY <2>1 DEF Served
  <2>3. QED
    BY <1>2, <1>3, <2>2
<1>6. QED
  BY <1>4, <1>5

-----------------------------------------------------------------------------
(* Who is turned away                                                      *)

\* The others that a rejected request found in its window, and in its log.
Ahead(r) ==
  {q \in Requests \ {r} :
     who[q] = who[r] /\ minute[q] \div Window = minute[r] \div Window
       /\ pc[q] \notin {"idle", "incr"}}
Recent(r) ==
  {q \in Requests \ {r} :
     who[q] = who[r] /\ sliding[q] # "none" /\ second[q] > second[r] - Window}

\* A step adds to the requests that are counted, and changes nothing of those
\* that are.
LEMMA CountedStay ==
  ASSUME TypeOK, Staged, [Next]_vars
  PROVE  /\ who' = who
         /\ \A q \in Requests :
              /\ pc[q] # "idle" => minute'[q] = minute[q] /\ pc'[q] # "idle"
              /\ pc[q] \notin {"idle", "incr"} => pc'[q] \notin {"idle", "incr"}
              /\ fixed'[q] = "rejected" => fixed[q] = "rejected" \/ Incr(q)
<1>1. ASSUME NEW r \in Requests, Arrive(r)
      PROVE  /\ who' = who /\ fixed' = fixed /\ pc[r] = "idle"
             /\ \A q \in Requests \ {r} : minute'[q] = minute[q] /\ pc'[q] = pc[q]
  BY <1>1 DEF Arrive, Goto, TypeOK
<1>2. ASSUME NEW r \in Requests,
             \/ Incr(r) \/ Expire(r) \/ CounterFails(r) \/ Enter(r) \/ Slide(r)
             \/ LogFails(r)
      PROVE  /\ UNCHANGED <<who, minute>> /\ pc'[r] \notin {"idle", "incr"}
             /\ fixed'[r] = "rejected" => fixed[r] = "rejected" \/ Incr(r)
             /\ \A q \in Requests \ {r} : fixed'[q] = fixed[q] /\ pc'[q] = pc[q]
  <2>1. CASE Incr(r) \/ Expire(r) \/ CounterFails(r)
    BY <2>1 DEF Incr, Expire, CounterFails, Pass, Goto, TypeOK
  <2>2. CASE Enter(r) \/ Slide(r) \/ LogFails(r)
    BY <2>2 DEF Enter, Slide, LogFails, Goto, TypeOK
  <2>3. QED
    BY <1>2, <2>1, <2>2
<1>3. CASE Tick \/ UNCHANGED vars
  BY <1>3 DEF Tick, vars
<1>4. QED
  BY <1>1, <1>2, <1>3 DEF Next, AllDone

\* A request that INCR rejects follows a full budget of others.
LEMMA RejectedAfterOthers ==
  ASSUME TypeOK, Staged, CountersCount, NEW r \in Requests, Incr(r),
         fixed'[r] = "rejected"
  PROVE  Cardinality(Ahead(r)) >= Limit
<1>1. PICK key \in Keys : key = Key(r)
  BY KeyType
<1>2. pc[r] = "incr" /\ fixed[r] = "none"
  BY DEF Incr, Staged
<1>3. Counter(key).n + 1 > Limit
  BY <1>1, <1>2 DEF Incr, Pass, TooMany, TypeOK
<1>4. Counter(key).n <= counters[key].n /\ Counter(key).n \in Nat /\ counters[key].n \in Nat
  BY CounterFacts DEF Counts, Gone
<1>5. counters[key].n <= Cardinality(Counted(key))
  BY DEF CountersCount, InLine
<1>6. Counted(key) \subseteq Ahead(r)
  BY <1>1, <1>2 DEF Counted, Ahead, Key
<1>7. /\ Cardinality(Counted(key)) <= Cardinality(Ahead(r))
      /\ Cardinality(Counted(key)) \in Nat /\ Cardinality(Ahead(r)) \in Nat
  <2>1. Ahead(r) \in SUBSET Requests /\ Counted(key) \in SUBSET Requests
    BY DEF Ahead, Counted
  <2>2. QED
    BY <1>6, <2>1, CountRequests
<1>8. QED
  BY <1>3, <1>4, <1>5, <1>7

\* A request that a slide rejects follows a full budget of others.
LEMMA RejectedByTheLog ==
  ASSUME TypeOK, Staged, LogIsOfRequests, NEW r \in Requests,
         Slide(r) \/ LogFails(r), sliding'[r] = "rejected"
  PROVE  Cardinality(Recent(r)) >= Times
<1>1. Cardinality(Slid(r).entries) > Times
  BY SlideFacts
<1>2. \A e \in Slid(r).entries : /\ e.by \in Requests /\ e = Entry(e.by)
                                 /\ e.by \in Recent(r) \cup {r}
  BY SlidFacts DEF Recent
<1>3. Recent(r) \in SUBSET Requests /\ Recent(r) \cup {r} \in SUBSET Requests
  BY DEF Recent
<1>4. /\ Cardinality(Slid(r).entries) <= Cardinality(Recent(r) \cup {r})
      /\ IsFiniteSet(Slid(r).entries)
  BY <1>2, <1>3, EntriesOfRequests
<1>5. /\ Cardinality(Recent(r) \cup {r}) <= Cardinality(Recent(r)) + 1
      /\ Cardinality(Recent(r)) \in Nat /\ Cardinality(Recent(r) \cup {r}) \in Nat
  BY <1>3, CountRequests
<1>6. Cardinality(Slid(r).entries) \in Nat
  BY <1>4, FS_CardinalityType
<1>7. QED
  BY <1>1, <1>4, <1>5, <1>6

\* Every step keeps, for each rejected request, the others before it.
LEMMA NextOnlyTheRecent ==
  ASSUME TypeOK, Staged, CountersCount, LogIsOfRequests, OnlyTheRecentCount,
         [Next]_vars
  PROVE  OnlyTheRecentCount'
<1>1. SUFFICES ASSUME NEW r \in Requests
               PROVE  /\ fixed'[r] = "rejected" => Cardinality(Ahead(r)') >= Limit
                      /\ sliding'[r] = "rejected" => Cardinality(Recent(r)') >= Times
  BY DEF OnlyTheRecentCount, Ahead, Recent
<1>2. /\ fixed[r] = "rejected" => Cardinality(Ahead(r)) >= Limit
      /\ sliding[r] = "rejected" => Cardinality(Recent(r)) >= Times
  BY DEF OnlyTheRecentCount, Ahead, Recent
<1>3. ASSUME fixed'[r] = "rejected"
      PROVE  Cardinality(Ahead(r)') >= Limit
  <2>1. Cardinality(Ahead(r)) >= Limit
    BY <1>2, <1>3, CountedStay, RejectedAfterOthers
  <2>2. pc[r] # "idle"
    BY <1>3, CountedStay DEF Staged, Incr
  <2>3. Ahead(r) \subseteq Ahead(r)'
    BY <2>2, CountedStay DEF Ahead
  <2>4. Ahead(r) \in SUBSET Requests /\ Ahead(r)' \in SUBSET Requests
    BY DEF Ahead
  <2>5. /\ Cardinality(Ahead(r)) <= Cardinality(Ahead(r)')
        /\ Cardinality(Ahead(r)) \in Nat /\ Cardinality(Ahead(r)') \in Nat
    BY <2>3, <2>4, CountRequests
  <2>6. QED
    BY <2>1, <2>5
<1>4. ASSUME sliding'[r] = "rejected"
      PROVE  Cardinality(Recent(r)') >= Times
  <2>1. /\ sliding[r] = "rejected" \/ Slide(r) \/ LogFails(r)
        /\ who' = who /\ second'[r] = second[r]
        /\ \A q \in Requests : sliding[q] # "none" =>
             sliding'[q] # "none" /\ second'[q] = second[q]
    <3>1. CASE \E q \in Requests : Slide(q) \/ LogFails(q)
      BY <1>4, <3>1, SlideFacts
    <3>2. CASE ~\E q \in Requests : Slide(q) \/ LogFails(q)
      BY <1>4, <3>2, LogUntouched
    <3>3. QED
      BY <3>1, <3>2
  <2>2. Cardinality(Recent(r)) >= Times
    BY <1>2, <1>4, <2>1, RejectedByTheLog
  <2>3. Recent(r) \subseteq Recent(r)'
    BY <2>1 DEF Recent
  <2>4. Recent(r) \in SUBSET Requests /\ Recent(r)' \in SUBSET Requests
    BY DEF Recent
  <2>5. /\ Cardinality(Recent(r)) <= Cardinality(Recent(r)')
        /\ Cardinality(Recent(r)) \in Nat /\ Cardinality(Recent(r)') \in Nat
    BY <2>3, <2>4, CountRequests
  <2>6. QED
    BY <2>2, <2>5
<1>5. QED
  BY <1>3, <1>4

-----------------------------------------------------------------------------
(* The theorems                                                            *)

\* Nothing has been counted initially.
LEMMA InitIInv == Init => IInv
<1> SUFFICES ASSUME Init
             PROVE  IInv
  OBVIOUS
<1>1. TypeOK
  BY InitType
<1>2. Staged
  BY DEF Init, Staged
<1>3. Cardinality({}) = 0
  BY FS_EmptySet
<1>4. CountersCount
  <2>1. \A k \in Keys : Counted(k) = {} /\ Admitted(k) = {}
    BY DEF Init, Counted, Admitted
  <2>2. \A k \in Keys : counters[k].n = 0 /\ counters[k].ends = Never
    BY DEF Init, Gone
  <2>3. QED
    BY <1>3, <2>1, <2>2 DEF CountersCount, InLine
<1>5. CountersExpire
  BY DEF Init, Gone, CountersExpire
<1>6. LogIsOfRequests /\ Remembered
  BY DEF Init, LogIsOfRequests, Remembered
<1>7. SlidingBudget
  <2>1. \A i \in Identities, t \in Instants : Served(i, t) = {}
    BY DEF Init, Served
  <2>2. QED
    BY <1>3, <2>1 DEF SlidingBudget, Served
<1>8. OnlyTheRecentCount
  BY DEF Init, OnlyTheRecentCount
<1>9. QED
  BY <1>1, <1>2, <1>4, <1>5, <1>6, <1>7, <1>8 DEF IInv

\* Every step keeps the invariant.
LEMMA NextIInv == IInv /\ [Next]_vars => IInv'
  BY NextType, NextStaged, NextCountersCount, NextCountersExpire,
     NextLogIsOfRequests, NextRemembered, NextSlidingBudget, NextOnlyTheRecent
     DEF IInv

\* In every reachable state of any instance the inductive invariant holds.
THEOREM Invariance == Spec => []IInv
  BY InitIInv, NextIInv, PTL DEF Spec

\* Every variable of the two limiters and of Redis keeps its type.
THEOREM TypeCorrect == Spec => []TypeOK
  BY Invariance, PTL DEF IInv

\* Both budgets hold: no more than Limit requests of an identity pass that are
\* counted in a window, and no more than Times in any interval that is shorter
\* than the window by the lag of calls, for any number of requests.
THEOREM WithinBudgets == Spec => []BudgetsHold
<1>1. CountersCount => WindowBudget
  <2> SUFFICES ASSUME CountersCount, NEW k \in Keys
               PROVE  Cardinality({r \in Requests :
                                     /\ Key(r) = k /\ fixed[r] = "passed"
                                     /\ incrAt[r] \div Window = k[2]}) <= Limit
    BY DEF WindowBudget
  <2> DEFINE Passed == {r \in Requests : /\ Key(r) = k /\ fixed[r] = "passed"
                                         /\ incrAt[r] \div Window = k[2]}
  <2>1. Passed \in SUBSET Requests /\ Admitted(k) \in SUBSET Requests
        /\ Passed \subseteq Admitted(k)
    BY DEF Admitted
  <2>2. Cardinality(Passed) <= Cardinality(Admitted(k))
        /\ Cardinality(Passed) \in Nat /\ Cardinality(Admitted(k)) \in Nat
    BY <2>1, CountRequests
  <2>3. Cardinality(Admitted(k)) <= Limit
    BY DEF CountersCount, InLine
  <2>4. QED
    BY <2>2, <2>3
<1>2. IInv => BudgetsHold
  BY <1>1 DEF IInv, BudgetsHold
<1>3. QED
  BY <1>2, Invariance, PTL

\* Whoever is turned away follows a full budget of others of his identity, in
\* his window or less than a window before him.
THEOREM TurnedAwayForTheRecent == Spec => []OnlyTheRecentCount
  BY Invariance, PTL DEF IInv

\* A counter without a time to live is one that a request is about to give it
\* to, or that Redis failed for.
THEOREM CountersGetTheirEnd == Spec => []CountersExpire
  BY Invariance, PTL DEF IInv
=============================================================================
