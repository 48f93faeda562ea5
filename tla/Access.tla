------------------------------- MODULE Access -------------------------------
(***************************************************************************)
(* What a request passes on its way to a handler and back (main.py):       *)
(* request context, security headers, rate limiting, CORS, and the route's *)
(* dependencies, which are the route's limiter and the check of the token  *)
(* (security.py) or of the job secret.                                     *)
(*                                                                         *)
(* A token is verified up to three times for one request, each time at its *)
(* own moment, with signing keys that PyJWKClient fetches and keeps, while *)
(* Supabase rotates its keys, roles change and tokens expire.  The model   *)
(* follows one request at a time; all that it shares with others of the    *)
(* process is the verifier.  How much a caller may ask for is decided in   *)
(* module RateLimit; here a limiter just lets a request pass or not, under *)
(* the identity that it resolved.                                          *)
(***************************************************************************)
EXTENDS Integers, Sequences

CONSTANTS
  Limited,      \* kinds of routes with a RateLimiter of their own
  Life,         \* of a token
  Proxies,      \* proxies that append to X-Forwarded-For
  Prefixes,     \* what a caller may have put into the header
  HasJobToken,  \* INGEST_TOKEN is set
  MaxTime,      \* bound on the clock
  None

ASSUME AccessAssumption ==
  /\ Life \in Nat /\ Proxies \in Nat /\ MaxTime \in Nat
  /\ HasJobToken \in BOOLEAN
  /\ None \notin Nat

ASSUME PrefixesAssumption == Prefixes \subseteq Seq({"forged", "garbage"})

Instants == 0 .. MaxTime
Routes   == {"probe", "preflight", "public", "user", "admin", "job"}

ASSUME LimitedAssumption == Limited \subseteq {"public", "user", "admin", "job"}

VARIABLES
  now,
  \* Supabase
  published,  \* keys its JWKS endpoint serves
  rotated,    \* when it began to sign with the new key
  demoted,    \* when the one admin lost the role
  \* the process
  keySet,     \* the JWKS as last fetched
  signing,    \* keys it has resolved, for ever
  hops,       \* TRUSTED_PROXY_HOPS
  \* the request
  pc, route, token,
  counted,    \* the identity its middleware budget is counted on ...
  limited,    \* ... and the one of the route's limiter
  outage,     \* a fetch of keys failed for it
  answer      \* status and marks of the last answer

supabase == <<published, rotated, demoted>>
verifier == <<keySet, signing>>
request  == <<pc, route, token, counted, limited, outage, answer>>
vars     == <<now, supabase, verifier, hops, request>>

\* Operators named Mutant... are not the code: each is a plausible mistake in
\* the definition after it, which the properties must be able to tell from it.

-----------------------------------------------------------------------------
(* Tokens                                                                  *)

\* Around a change, a token may be issued with what was or with what is.
Since(change, i, before, after) ==
  (IF change = None \/ i <= change THEN {before} ELSE {})
  \cup (IF change # None /\ i >= change THEN {after} ELSE {})

Tokens == [at : Instants, kid : {"old", "new", "foreign"}, admin : BOOLEAN]

Genuine ==
  {t \in Tokens :
     /\ t.at <= now
     /\ t.kid \in Since(rotated, t.at, "old", "new")
     /\ t.admin \in Since(demoted, t.at, TRUE, FALSE)}

\* Signed by nobody we know, or for another audience.
Foreign == [at |-> 0, kid |-> "foreign", admin |-> TRUE]

MutantExpired(t) == FALSE
\* jwt.decode requires exp, without leeway.
Expired(t) == now >= t.at + Life

MutantFetches(k) == k \notin signing /\ keySet = {}
\* PyJWKClient: a key once resolved is kept; one that is not in the set it
\* has makes it fetch the set anew.
Fetches(k) == k \notin signing /\ k \notin keySet

\* verify finds the key, then checks signature and claims; a fetch that fails
\* leaves no set.
Verify(t, valid, failed) ==
  \/ /\ ~failed
     /\ keySet' = IF Fetches(t.kid) THEN published ELSE keySet
     /\ signing' = signing \cup ({t.kid} \cap keySet')
     /\ valid = (t.kid \in signing' /\ ~Expired(t))
  \/ /\ failed /\ Fetches(t.kid)
     /\ keySet' = {}
     /\ valid = FALSE
     /\ UNCHANGED signing

-----------------------------------------------------------------------------
(* The caller's address                                                    *)

\* Each proxy appends the address it was called from.
Hop(n) == IF n = 0 THEN "caller" ELSE IF n = 1 THEN "proxy" ELSE "proxies"
Appended == [n \in 1 .. Proxies |-> Hop(n - 1)]
Peer == Hop(Proxies)

MutantTrusted(chain) == chain[1]
\* Counted from the right.
Trusted(chain) == chain[Len(chain) - hops + 1]

Mutantget_client_ip(chain) ==
  IF hops = 0 \/ Len(chain) < hops THEN Peer ELSE Trusted(chain)
\* What does not parse as an address is not one.
get_client_ip(chain) ==
  IF hops = 0 \/ Len(chain) < hops \/ Trusted(chain) = "garbage" THEN Peer
  ELSE Trusted(chain)

Identities == {"user", "forged"} \cup {Hop(n) : n \in 0 .. Proxies}

ASSUME NoneAssumption == None \notin Routes \cup Identities

\* resolve_identity and _identify: the user of a token that verifies, or else
\* the address.
Identify(who) ==
  \E verified, failed \in BOOLEAN, prefix \in Prefixes :
    /\ IF token = None THEN ~verified /\ ~failed /\ UNCHANGED verifier
       ELSE Verify(token, verified, failed)
    /\ outage' = (outage \/ failed)
    /\ who = IF verified THEN "user" ELSE get_client_ip(prefix \o Appended)

-----------------------------------------------------------------------------
(* Answers: the context and the headers of the layers outside the one that *)
(* answers mark it.  What budget and CORS add is left out.                 *)

MutantLayers == <<"context", "budget", "headers", "cors", "routes">>
\* Middleware added last is outermost.
Layers == <<"context", "headers", "budget", "cors", "routes">>

Outside(layer) ==
  {Layers[k] : k \in {j \in DOMAIN Layers :
                        \E n \in DOMAIN Layers : j < n /\ Layers[n] = layer}}

Answers == [status : {200, 401, 403, 404, 422, 429, 500, None},
            marks : SUBSET {"context", "headers", "challenge"}]

NoAnswer == [status |-> None, marks |-> {}]

\* The answer ends the request; handle_app_error adds the challenge to a 401.
Respond(layer, code) ==
  /\ answer' = [status |-> code,
                marks |-> (Outside(layer) \cap {"context", "headers"}) \cup
                          (IF code = 401 THEN {"challenge"} ELSE {})]
  /\ pc' = "idle" /\ route' = None /\ token' = None
  /\ counted' = None /\ limited' = None /\ outage' = FALSE

\* On to the next layer, in the step that decided it.
Goto(step) == pc' = step /\ UNCHANGED <<route, token, answer>>

-----------------------------------------------------------------------------
Init ==
  /\ now = 0
  /\ published = {"old"} /\ rotated = None /\ demoted = None
  /\ keySet = {} /\ signing = {}
  /\ hops \in 0 .. Proxies + 1
  /\ pc = "idle" /\ route = None /\ token = None
  /\ counted = None /\ limited = None /\ outage = FALSE
  /\ answer = NoAnswer

\* RequestContextMiddleware and SecurityHeadersMiddleware call on at once.
Arrive ==
  /\ pc = "idle"
  /\ route' \in Routes
  /\ token' \in {None, Foreign} \cup Genuine
  /\ pc' = "budget"
  /\ answer' = NoAnswer
  /\ UNCHANGED <<now, supabase, verifier, hops, counted, limited, outage>>

\* The liveness probe is not counted.
Unmetered ==
  /\ pc = "budget" /\ route = "probe"
  /\ Goto("cors")
  /\ UNCHANGED <<now, supabase, verifier, hops, counted, limited, outage>>

\* RateLimitMiddleware counts the request and lets it pass ...
Budget ==
  /\ pc = "budget" /\ route # "probe"
  /\ Identify(counted')
  /\ Goto("cors")
  /\ UNCHANGED <<now, supabase, hops, limited>>

\* ... or answers 429 itself.
OverBudget ==
  /\ pc = "budget" /\ route # "probe"
  /\ \E t \in {token}, valid, failed \in BOOLEAN :
       IF t = None THEN UNCHANGED verifier ELSE Verify(t, valid, failed)
  /\ Respond("budget", 429)
  /\ UNCHANGED <<now, supabase, hops>>

\* CORSMiddleware answers a preflight request itself.
Cors ==
  /\ pc = "cors"
  /\ IF route = "preflight"
     THEN Respond("cors", 200)
     ELSE /\ Goto(IF route \in Limited THEN "limiter" ELSE "auth")
          /\ UNCHANGED <<counted, limited, outage>>
  /\ UNCHANGED <<now, supabase, verifier, hops>>

\* The route's RateLimiter, before its other dependencies.
Limiter ==
  /\ pc = "limiter"
  /\ Identify(limited')
  /\ Goto("auth")
  /\ UNCHANGED <<now, supabase, hops, counted>>

\* It raises RateLimitedError, which handle_app_error answers.
OverLimit ==
  /\ pc = "limiter"
  /\ \E t \in {token}, valid, failed \in BOOLEAN :
       IF t = None THEN UNCHANGED verifier ELSE Verify(t, valid, failed)
  /\ Respond("routes", 429)
  /\ UNCHANGED <<now, supabase, hops>>

\* get_current_user, and require_admin on top of it, accept the token ...
Accept ==
  /\ pc = "auth" /\ route \in {"user", "admin"} /\ token # None
  /\ Verify(token, TRUE, FALSE)
  /\ route = "admin" => token.admin
  /\ Goto("handle")
  /\ UNCHANGED <<now, supabase, hops, counted, limited, outage>>

\* ... or not.
Refuse ==
  /\ pc = "auth" /\ route \in {"user", "admin"}
  /\ \/ token = None /\ UNCHANGED verifier /\ Respond("routes", 401)
     \/ /\ token # None
        /\ \E failed \in BOOLEAN : Verify(token, FALSE, failed)
        /\ Respond("routes", 401)
     \/ /\ token # None /\ route = "admin" /\ ~token.admin
        /\ Verify(token, TRUE, FALSE)
        /\ Respond("routes", 403)
  /\ UNCHANGED <<now, supabase, hops>>

\* verify_job_token.  compare_digest raises a TypeError at a secret with other
\* characters than those of ASCII, which nobody handles: see Unhandled.
CheckJob ==
  /\ pc = "auth" /\ route = "job"
  /\ \E secret \in {"right", "wrong", "not ASCII", None} :
       IF ~HasJobToken THEN Respond("routes", 403)
       ELSE IF secret = "not ASCII" THEN Respond(Layers[1], 500)
       ELSE IF secret # "right" THEN Respond("routes", 401)
       ELSE Goto("handle") /\ UNCHANGED <<counted, limited, outage>>
  /\ UNCHANGED <<now, supabase, verifier, hops>>

NoCheck ==
  /\ pc = "auth" /\ route \in {"probe", "public"}
  /\ Goto("handle")
  /\ UNCHANGED <<now, supabase, verifier, hops, counted, limited, outage>>

\* AppErrors of the services, and fields that fail validation, are answered
\* by their handlers inside all middleware.
Handle ==
  /\ pc = "handle"
  /\ \E code \in {200, 404, 422} : Respond("routes", code)
  /\ UNCHANGED <<now, supabase, verifier, hops>>

\* Any other exception passes all middleware: its handler is Starlette's
\* ServerErrorMiddleware, outside of what add_middleware adds.
Unhandled ==
  /\ pc = "handle"
  /\ Respond(Layers[1], 500)
  /\ UNCHANGED <<now, supabase, verifier, hops>>

-----------------------------------------------------------------------------
(* Other requests, Supabase and time                                       *)

\* Another request of the process has its token verified.
Elsewhere ==
  /\ \E t \in {Foreign} \cup Genuine, valid, failed \in BOOLEAN :
       Verify(t, valid, failed)
  /\ UNCHANGED <<now, supabase, hops, request>>

Publish ==
  /\ published' = published \cup {"new"}
  /\ UNCHANGED <<now, rotated, demoted, verifier, hops, request>>

\* A new key has been published before anything is signed with it.
Rotate ==
  /\ rotated = None /\ "new" \in published
  /\ rotated' = now
  /\ UNCHANGED <<now, published, demoted, verifier, hops, request>>

Withdraw ==
  /\ rotated # None
  /\ published' = published \ {"old"}
  /\ UNCHANGED <<now, rotated, demoted, verifier, hops, request>>

Demote ==
  /\ demoted = None
  /\ demoted' = now
  /\ UNCHANGED <<now, published, rotated, verifier, hops, request>>

\* The set of keys is kept for some minutes.
DropKeySet ==
  /\ keySet' = {}
  /\ UNCHANGED <<now, supabase, signing, hops, request>>

Tick ==
  /\ now < MaxTime
  /\ now' = now + 1
  /\ UNCHANGED <<supabase, verifier, hops, request>>

Next ==
  \/ Arrive \/ Unmetered \/ Budget \/ OverBudget \/ Cors \/ Limiter \/ OverLimit
  \/ Accept \/ Refuse \/ CheckJob \/ NoCheck \/ Handle \/ Unhandled
  \/ Elsewhere \/ Publish \/ Rotate \/ Withdraw \/ Demote \/ DropKeySet \/ Tick

Spec == Init /\ [][Next]_vars

-----------------------------------------------------------------------------
(* Properties                                                              *)

TypeOK ==
  /\ now \in Instants
  /\ published \subseteq {"old", "new"}
  /\ rotated \in Instants \cup {None} /\ demoted \in Instants \cup {None}
  /\ keySet \subseteq {"old", "new"} /\ signing \subseteq {"old", "new"}
  /\ hops \in 0 .. Proxies + 1
  /\ pc \in {"idle", "budget", "cors", "limiter", "auth", "handle"}
  /\ route \in Routes \cup {None}
  /\ token \in Tokens \cup {None}
  /\ counted \in Identities \cup {None}
  /\ limited \in Identities \cup {None}
  /\ outage \in BOOLEAN
  /\ answer \in Answers

\* Supabase is not asked about a token that it has issued, so what it has taken
\* back still counts; but for no longer than a token lives: an admin who lost
\* the role gets into admin routes until then, and so do tokens of a key that
\* is no longer signed with, although resolved keys are kept for ever.  And no
\* shorter: rotating keys locks nobody out.  A token that has not expired is
\* refused only if its key is not published any more, or if fetching keys
\* failed (security.py 30-66, 107-115).
EndsWithTheToken ==
  pc = "auth" /\ pc' = "handle" /\ route \in {"user", "admin"} =>
    /\ route = "admin" => demoted = None \/ now < demoted + Life
    /\ token.kid = "old" => rotated = None \/ now < rotated + Life
LocksNobodyOut ==
  pc = "auth" /\ answer'.status = 401 /\ route \in {"user", "admin"}
  /\ token \notin {None, Foreign} =>
    Expired(token) \/ token.kid \notin published \/ keySet' = {}
TokensServeTheirLife == [][EndsWithTheToken /\ LocksNobodyOut]_vars

\* "so both bucket the same caller consistently" (rate_limit.py 26-30): who is
\* served as a user was counted as that user, by both limiters, unless fetching
\* keys failed in between.  Whatever a caller wrote into X-Forwarded-For,
\* nobody is counted under it unless more proxies are configured than there
\* are, and if they are as many, everybody under his own address
\* (client_ip.py 56-80).
CountedAsServed ==
  /\ pc = "handle" /\ route \in {"user", "admin"} /\ ~outage =>
       counted = "user" /\ limited \in {"user", None}
  /\ \A who \in {counted, limited} :
       /\ hops <= Proxies => who # "forged"
       /\ hops = Proxies => who \in {"user", "caller", None}

\* Every answer but the one to an unhandled exception carries the request id
\* and the security headers, also one that a middleware gives (main.py 63-69),
\* and every 401 a challenge (exceptions.py 109).
AnswersAreTraced ==
  answer.status \notin {None, 500} =>
    /\ {"context", "headers"} \subseteq answer.marks
    /\ answer.status = 401 => "challenge" \in answer.marks
==============================================================================
