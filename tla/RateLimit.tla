------------------------------ MODULE RateLimit ------------------------------
(***************************************************************************)
(* The two rate limiters of the API (core/rate_limit.py), which a request  *)
(* passes one after the other, and the Redis they share.                   *)
(*                                                                         *)
(* RateLimitMiddleware counts requests per identity and fixed window: INCR *)
(* of a key named after the window, then EXPIRE if it was the first.       *)
(* RateLimiter keeps a log of requests per identity and route: one         *)
(* transaction drops old entries, adds the request and counts.  Both read  *)
(* the clock before they call Redis, and let the request pass if Redis     *)
(* fails.  Redis drops a key when its time to live is over.                *)
(***************************************************************************)
EXTENDS Integers, FiniteSets

CONSTANTS
  Requests, Identities,
  Window,     \* WINDOW_SECONDS
  Limit,      \* the middleware's budget per window
  Times,      \* the route's budget per sliding window
  MaxTime,    \* bound on the clock
  MaxLag,     \* a call reaches Redis at most so long after the clock was read
  MaxFailures,  \* bound on the calls of Redis that fail
  Never       \* no time to live is set

ASSUME RateLimitAssumption ==
  /\ Window \in Nat \ {0} /\ Limit \in Nat \ {0} /\ Times \in Nat
  /\ MaxTime \in Nat /\ MaxLag \in Nat /\ MaxLag < Window
  /\ MaxFailures \in Nat
  /\ Never \notin Nat

\* However many there are.
ASSUME RequestsAssumption == IsFiniteSet(Requests)

Instants == 0 .. MaxTime
Windows  == 0 .. MaxTime \div Window
Keys     == Identities \X Windows

VARIABLES
  now,
  counters,   \* Redis: ratelimit:<identity>:<window>, a count and its end
  log,        \* Redis: slidingrl:<scope>:<identity>, entries and its end
  failures,   \* calls of Redis that failed
  \* one request
  who, pc,
  minute,     \* the clock as the middleware read it
  second,     \* the clock as the limiter read it
  incrAt,     \* when its INCR was made
  fixed,      \* what the middleware made of it
  sliding,    \* what the limiter made of it
  remaining   \* X-RateLimit-Remaining

redis == <<counters, log, failures>>
vars  == <<now, redis, who, pc, minute, second, incrAt, fixed, sliding,
           remaining>>

Key(r) == <<who[r], minute[r] \div Window>>

Gone == [n |-> 0, ends |-> Never]

\* A key as Redis has it now: expired ones are not there.
Over(end)   == end # Never /\ end <= now
Counter(k)  == IF Over(counters[k].ends) THEN Gone ELSE counters[k]
Entries(i)  == IF Over(log[i].ends) THEN {} ELSE log[i].entries

\* Operators named Mutant... are not the code: each is a plausible mistake in
\* the definition after it, which the properties must be able to tell from it.

MutantRemaining(n) == Limit - n
Remaining(n) == IF n > Limit THEN 0 ELSE Limit - n

MutantTooMany(n) == n > Limit + 1
TooMany(n) == n > Limit

MutantAll(i, t) == Entries(i)
MutantFresh(i, t) == {e \in Entries(i) : e.at > t}
\* What zremrangebyscore(key, 0, now - window) leaves.
Fresh(i, t) == {e \in Entries(i) : e.at > t - Window}

-----------------------------------------------------------------------------
Init ==
  /\ now = 0
  /\ counters = [k \in Keys |-> Gone]
  /\ log = [i \in Identities |-> [entries |-> {}, ends |-> Never]]
  /\ failures = 0
  /\ who \in [Requests -> Identities]
  /\ pc = [r \in Requests |-> "idle"]
  /\ minute = [r \in Requests |-> 0]
  /\ second = [r \in Requests |-> 0]
  /\ incrAt = [r \in Requests |-> 0]
  /\ fixed = [r \in Requests |-> "none"]
  /\ sliding = [r \in Requests |-> "none"]
  /\ remaining = [r \in Requests |-> 0]

FailsNow == failures < MaxFailures /\ failures' = failures + 1

Goto(r, step) == pc' = [pc EXCEPT ![r] = step]

-----------------------------------------------------------------------------
(* RateLimitMiddleware                                                     *)

Arrive(r) ==
  /\ pc[r] = "idle"
  /\ minute' = [minute EXCEPT ![r] = now]
  /\ Goto(r, "incr")
  /\ UNCHANGED <<now, redis, who, second, incrAt, fixed, sliding, remaining>>

\* The middleware lets the request through to its route, or answers 429.
Pass(r, how) ==
  /\ fixed' = [fixed EXCEPT ![r] = how]
  /\ Goto(r, IF how = "rejected" THEN "done" ELSE "enter")

MutantSetsTtl(n) == n = 2
SetsTtl(n) == n = 1

Incr(r) ==
  /\ pc[r] = "incr"
  /\ LET n == Counter(Key(r)).n + 1
     IN /\ counters' = [counters EXCEPT ![Key(r)] =
                          [n |-> n, ends |-> Counter(Key(r)).ends]]
        /\ remaining' = [remaining EXCEPT ![r] = Remaining(n)]
        /\ IF SetsTtl(n) THEN Goto(r, "expire") /\ UNCHANGED fixed
           ELSE Pass(r, IF TooMany(n) THEN "rejected" ELSE "passed")
  /\ incrAt' = [incrAt EXCEPT ![r] = now]
  /\ UNCHANGED <<now, log, failures, who, minute, second, sliding>>

Expire(r) ==
  /\ pc[r] = "expire"
  /\ counters' = [counters EXCEPT ![Key(r)] =
                    IF Counter(Key(r)) = Gone THEN Gone
                    ELSE [n |-> Counter(Key(r)).n, ends |-> now + Window]]
  /\ Pass(r, "passed")
  /\ UNCHANGED <<now, log, failures, who, minute, second,
                 incrAt, sliding, remaining>>

\* RedisError at INCR or EXPIRE, whose effect may have taken place.
CounterFails(r) ==
  /\ FailsNow
  /\ pc[r] \in {"incr", "expire"}
  /\ \/ UNCHANGED counters
     \/ /\ pc[r] = "incr"
        /\ counters' = [counters EXCEPT ![Key(r)] =
                          [n |-> Counter(Key(r)).n + 1,
                           ends |-> Counter(Key(r)).ends]]
     \/ /\ pc[r] = "expire"
        /\ Counter(Key(r)) # Gone
        /\ counters' = [counters EXCEPT ![Key(r)].ends = now + Window]
  /\ Pass(r, "open")
  /\ UNCHANGED <<now, log, who, minute, second, incrAt, sliding, remaining>>

-----------------------------------------------------------------------------
(* RateLimiter                                                             *)

Enter(r) ==
  /\ pc[r] = "enter"
  /\ second' = [second EXCEPT ![r] = now]
  /\ Goto(r, "slide")
  /\ UNCHANGED <<now, redis, who, minute, incrAt, fixed, sliding, remaining>>

Slid(r) ==
  [entries |-> Fresh(who[r], second[r]) \cup {[by |-> r, at |-> second[r]]},
   ends |-> now + Window]

Slide(r) ==
  /\ pc[r] = "slide"
  /\ log' = [log EXCEPT ![who[r]] = Slid(r)]
  /\ sliding' = [sliding EXCEPT ![r] =
                   IF Cardinality(Slid(r).entries) > Times THEN "rejected"
                   ELSE "passed"]
  /\ Goto(r, "done")
  /\ UNCHANGED <<now, counters, failures, who, minute, second, incrAt, fixed,
                 remaining>>

LogFails(r) ==
  /\ FailsNow
  /\ pc[r] = "slide"
  /\ log' = log \/ log' = [log EXCEPT ![who[r]] = Slid(r)]
  /\ sliding' = [sliding EXCEPT ![r] = "open"]
  /\ Goto(r, "done")
  /\ UNCHANGED <<now, counters, who, minute, second, incrAt, fixed, remaining>>

-----------------------------------------------------------------------------
\* Time passes, but no call to Redis is later than MaxLag.
Tick ==
  /\ now < MaxTime
  /\ \A r \in Requests :
       /\ pc[r] = "incr" => now - minute[r] < MaxLag
       /\ pc[r] = "expire" => now - incrAt[r] < MaxLag
       /\ pc[r] = "slide" => now - second[r] < MaxLag
  /\ now' = now + 1
  /\ UNCHANGED <<redis, who, pc, minute, second, incrAt, fixed, sliding,
                 remaining>>

AllDone ==
  /\ \A r \in Requests : pc[r] = "done"
  /\ UNCHANGED vars

Next ==
  \/ \E r \in Requests :
       \/ Arrive(r) \/ Incr(r) \/ Expire(r) \/ CounterFails(r)
       \/ Enter(r) \/ Slide(r) \/ LogFails(r)
  \/ Tick
  \/ AllDone

Spec == Init /\ [][Next]_vars

-----------------------------------------------------------------------------
(* Properties                                                              *)

Counts   == [n: Nat, ends: Nat \cup {Never}]
Verdicts == {"none", "passed", "rejected", "open"}

TypeOK ==
  /\ now \in Instants
  /\ counters \in [Keys -> Counts]
  /\ log \in [Identities -> [entries: SUBSET [by: Requests, at: Instants],
                             ends: Nat \cup {Never}]]
  /\ failures \in 0 .. MaxFailures
  /\ who \in [Requests -> Identities]
  /\ pc \in [Requests -> {"idle", "incr", "expire", "enter", "slide", "done"}]
  /\ minute \in [Requests -> Instants]
  /\ second \in [Requests -> Instants]
  /\ incrAt \in [Requests -> Instants]
  /\ fixed \in [Requests -> Verdicts]
  /\ sliding \in [Requests -> Verdicts]
  /\ remaining \in [Requests -> 0 .. Limit]

\* "enforces a per-minute request budget" (rate_limit.py 107): of the requests
\* of one identity that are counted within a window, no more than the budget
\* pass, however they overlap, EXPIRE included; those Redis failed for are let
\* through besides (rate_limit.py 128-141).
WindowBudget ==
  \A k \in Keys :
    Cardinality({r \in Requests : /\ Key(r) = k /\ fixed[r] = "passed"
                                  /\ incrAt[r] \div Window = k[2]}) <= Limit

\* "a true sliding window" (rate_limit.py 49): in any interval as long as the
\* window, less the time calls are under way, the route serves no more of an
\* identity than its budget.  A request overtaken by a later one that has
\* dropped entries does not see them, hence the subtraction.
SlidingBudget ==
  \A i \in Identities, t \in Instants :
    Cardinality({r \in Requests : /\ who[r] = i /\ sliding[r] = "passed"
                                  /\ second[r] >= t
                                  /\ second[r] < t + Window - MaxLag}) <= Times

\* The two budgets of the route.
BudgetsHold == WindowBudget /\ SlidingBudget

\* Nobody is turned away for what is long past: a rejected request follows a
\* full budget of others by its identity, in its window or since a window
\* ago, rejected ones included.  So waiting a window always helps.
OnlyTheRecentCount ==
  \A r \in Requests :
    /\ fixed[r] = "rejected" =>
         Cardinality({q \in Requests \ {r} :
           who[q] = who[r] /\ minute[q] \div Window = minute[r] \div Window
             /\ pc[q] \notin {"idle", "incr"}}) >= Limit
    /\ sliding[r] = "rejected" =>
         Cardinality({q \in Requests \ {r} :
           who[q] = who[r] /\ sliding[q] # "none"
             /\ second[q] > second[r] - Window}) >= Times

\* Redis is not filled with counters for ever: one without a time to live
\* belongs to a request that is about to set it, or that Redis failed for
\* (rate_limit.py 132-136).
CountersExpire ==
  \A k \in Keys :
    counters[k].n > 0 /\ counters[k].ends = Never =>
      \E r \in Requests :
        Key(r) = k /\ (pc[r] = "expire" \/ fixed[r] = "open")
==============================================================================
