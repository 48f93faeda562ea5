---------------------------- MODULE AccessProofs ----------------------------
(***************************************************************************)
(* For any life of a token, any chain of proxies and whatever callers put  *)
(* into the header: the state stays well typed, a caller is counted as he  *)
(* is served, answers are traced, and a token gives access for as long as  *)
(* it lives.                                                               *)
(*                                                                         *)
(* Two facts hold these together.  Issued: what a token says was true when *)
(* it was issued.  Doomed: a token that a limiter could not verify, though *)
(* the keys could be fetched, will not be verified by anything later       *)
(* either, so its bearer cannot be served as a user he was not counted as. *)
(***************************************************************************)
EXTENDS Access, TLAPS

Behind == {"cors", "limiter", "auth", "handle"}

Issued ==
  /\ rotated # None => "new" \in published
  /\ token # None =>
       /\ token.at <= now
       /\ token.kid = "old" => rotated = None \/ token.at <= rotated
       /\ token.kid = "new" => "new" \in published
       /\ token.admin => demoted = None \/ token.at <= demoted

\* Expired, or signed with a key that nobody has or will publish.
Doomed(t) ==
  \/ Expired(t)
  \/ t.kid # "new" /\ t.kid \notin signing \cup keySet \cup published

CountedOrDoomed ==
  /\ pc = "idle" => counted = None /\ limited = None /\ ~outage
  /\ pc # "idle" => route # None /\ answer = NoAnswer
  /\ pc = "budget" => counted = None /\ limited = None /\ ~outage
  /\ pc \in {"cors", "limiter"} => limited = None
  /\ pc \in Behind /\ route # "probe" /\ token # None /\ ~outage =>
       /\ counted = "user" \/ Doomed(token)
       /\ limited \in {"user", None} \/ Doomed(token)

IInv ==
  TypeOK /\ Issued /\ CountedOrDoomed /\ CountedAsServed /\ AnswersAreTraced

-----------------------------------------------------------------------------
USE AccessAssumption, LimitedAssumption, NoneAssumption

(* The operators of the model                                              *)

\* What an address may be, for the number of proxies that is configured.
NotForged(ip) ==
  /\ ip \in Identities
  /\ hops <= Proxies => ip # "forged"
  /\ hops = Proxies => ip = "caller"

\* The address that is counted is one of a hop or what the caller wrote, and
\* the latter only if more proxies are configured than there are.
LEMMA ClientIp ==
  ASSUME TypeOK, NEW prefix \in Prefixes
  PROVE  NotForged(get_client_ip(prefix \o Appended))
<1> DEFINE chain == prefix \o Appended
<1>1. prefix \in Seq({"forged", "garbage"}) /\ hops \in 0 .. Proxies + 1
  BY PrefixesAssumption DEF TypeOK
<1>2. Appended \in Seq({Hop(n) : n \in 0 .. Proxies}) /\ Len(Appended) = Proxies
  BY DEF Appended
<1>3. /\ Len(chain) = Len(prefix) + Proxies
      /\ \A i \in 1 .. Len(prefix) : chain[i] = prefix[i]
      /\ \A i \in 1 .. Proxies : chain[Len(prefix) + i] = Appended[i]
  BY <1>1, <1>2
<1> SUFFICES NotForged(get_client_ip(chain))
  OBVIOUS
<1> HIDE DEF chain
<1>4. ASSUME NEW n \in 0 .. Proxies
      PROVE  Hop(n) \in Identities /\ Hop(n) # "forged"
  BY DEF Hop, Identities
<1>5. CASE hops = 0 \/ Len(chain) < hops \/ Trusted(chain) = "garbage"
  <2>1. get_client_ip(chain) = Hop(Proxies)
    BY <1>5 DEF get_client_ip, Peer
  <2>2. ASSUME hops = Proxies
        PROVE  Proxies = 0
    <3>1. CASE hops # 0
      <4>1. Trusted(chain) = chain[Len(prefix) + 1]
        BY <1>1, <1>3, <2>2 DEF Trusted
      <4>2. chain[Len(prefix) + 1] = Appended[1]
        BY <1>1, <1>3, <2>2, <3>1
      <4>3. Appended[1] = "caller"
        BY <2>2, <3>1, <1>1 DEF Appended, Hop
      <4>4. QED
        BY <1>1, <1>3, <1>5, <2>2, <3>1, <4>1, <4>2, <4>3
    <3>2. QED
      BY <2>2, <3>1
  <2>3. QED
    BY <2>1, <2>2, <1>4 DEF Hop, NotForged
<1>6. CASE ~(hops = 0 \/ Len(chain) < hops \/ Trusted(chain) = "garbage")
  <2>1. get_client_ip(chain) = chain[Len(chain) - hops + 1]
    BY <1>6 DEF get_client_ip, Trusted
  <2>2. CASE hops <= Proxies
    <3>1. Proxies - hops + 1 \in 1 .. Proxies
      BY <1>1, <1>6, <2>2
    <3>2. Len(chain) - hops + 1 = Len(prefix) + (Proxies - hops + 1)
      BY <1>1, <1>3
    <3>3. chain[Len(chain) - hops + 1] = Appended[Proxies - hops + 1]
      BY <1>3, <3>1, <3>2
    <3>4. Appended[Proxies - hops + 1] = Hop(Proxies - hops)
      BY <1>1, <3>1 DEF Appended
    <3>5. Proxies - hops \in 0 .. Proxies /\ (hops = Proxies => Proxies - hops = 0)
      BY <1>1, <2>2
    <3>6. QED
      BY <1>4, <2>1, <2>2, <3>3, <3>4, <3>5 DEF Hop, NotForged
  <2>3. CASE hops = Proxies + 1
    <3>1. Len(chain) - hops + 1 = Len(prefix) /\ Len(prefix) \in 1 .. Len(prefix)
      BY <1>1, <1>3, <1>6, <2>3
    <3>2. chain[Len(prefix)] = prefix[Len(prefix)]
      BY <1>3, <3>1
    <3>3. prefix[Len(prefix)] \in {"forged", "garbage"}
      BY <1>1, <3>1
    <3>4. QED
      BY <1>6, <2>1, <2>3, <3>1, <3>2, <3>3 DEF Trusted, Identities, NotForged
  <2>4. QED
    BY <1>1, <2>2, <2>3
<1>7. QED
  BY <1>5, <1>6

\* What can be presented is a token.
LEMMA Presented == {Foreign} \cup Genuine \subseteq Tokens
<1>1. Foreign \in Tokens
  BY DEF Foreign, Tokens, Instants
<1>2. Genuine \subseteq Tokens
  BY DEF Genuine
<1>3. QED
  BY <1>1, <1>2

\* Verifying a token brings no key into the process that is not published.
LEMMA VerifyKeys ==
  ASSUME TypeOK, NEW t \in Tokens, NEW valid, NEW failed,
         Verify(t, valid, failed)
  PROVE  /\ keySet' \subseteq keySet \cup published
         /\ signing' \subseteq signing \cup keySet \cup published
         /\ valid = TRUE => ~Expired(t) /\ t.kid \in signing'
  BY DEF Verify

\* A token that the keys could be fetched for and that is refused is doomed.
LEMMA VerifyRefuses ==
  ASSUME TypeOK, NEW t \in Tokens, NEW valid \in BOOLEAN, NEW failed \in BOOLEAN,
         Verify(t, valid, failed), ~valid, ~failed,
         t.kid = "new" => "new" \in published
  PROVE  \/ Expired(t)
         \/ t.kid # "new" /\ t.kid \notin signing' \cup keySet' \cup published
  BY DEF Verify, Fetches

\* Layers outside every layer but the outermost two put both marks.
LEMMA Marks ==
  ASSUME NEW layer \in {"budget", "cors", "routes"}
  PROVE  {"context", "headers"} \subseteq Outside(layer)
<1>1. DOMAIN Layers = 1 .. 5
  BY DEF Layers
<1>2. PICK n \in 3 .. 5 : Layers[n] = layer
  BY DEF Layers
<1>3. Layers[1] = "context" /\ Layers[2] = "headers"
  BY DEF Layers
<1>4. QED
  BY <1>1, <1>2, <1>3 DEF Outside

\* Who is counted was verified, with his token, or is counted by address.
LEMMA IdentifyFacts ==
  ASSUME TypeOK, NEW who, Identify(who)
  PROVE  /\ who = "user" \/ NotForged(who)
         /\ who \in Identities
         /\ outage' \in BOOLEAN /\ (outage => outage')
         /\ keySet' \subseteq keySet \cup published
         /\ signing' \subseteq signing \cup keySet \cup published
         /\ token # None /\ ~outage' /\ who # "user" /\
              (token.kid = "new" => "new" \in published) =>
              \/ Expired(token)
              \/ /\ token.kid # "new"
                 /\ token.kid \notin signing' \cup keySet' \cup published
<1>1. PICK verified \in BOOLEAN, failed \in BOOLEAN, prefix \in Prefixes :
        /\ IF token = None THEN ~verified /\ ~failed /\ UNCHANGED verifier
           ELSE Verify(token, verified, failed)
        /\ outage' = (outage \/ failed)
        /\ who = IF verified THEN "user" ELSE get_client_ip(prefix \o Appended)
  BY DEF Identify
<1>2. who = "user" \/ NotForged(who)
  BY <1>1, ClientIp
<1>3. who \in Identities
  BY <1>2 DEF NotForged, Identities
<1>4. outage' \in BOOLEAN /\ (outage => outage')
  BY <1>1 DEF TypeOK
<1>5. CASE token = None
  BY <1>1, <1>2, <1>3, <1>4, <1>5 DEF verifier
<1>6. CASE token # None
  <2>1. Verify(token, verified, failed) /\ token \in Tokens
    BY <1>1, <1>6 DEF TypeOK
  <2>2. /\ keySet' \subseteq keySet \cup published
        /\ signing' \subseteq signing \cup keySet \cup published
    BY <2>1, VerifyKeys
  <2>3. ASSUME ~outage', who # "user", token.kid = "new" => "new" \in published
        PROVE  \/ Expired(token)
               \/ /\ token.kid # "new"
                  /\ token.kid \notin signing' \cup keySet' \cup published
    BY <1>1, <2>1, <2>3, VerifyRefuses
  <2>4. QED
    BY <1>2, <1>3, <1>4, <2>2, <2>3
<1>7. QED
  BY <1>5, <1>6

-----------------------------------------------------------------------------
(* Types                                                                   *)

LEMMA NoAnswerType == NoAnswer \in Answers
  BY DEF NoAnswer, Answers

\* The state is well typed initially.
LEMMA InitType == Init => TypeOK
<1>1. 0 \in Instants
  BY DEF Instants
<1>2. QED
  BY <1>1, NoAnswerType DEF Init, TypeOK

\* What the check of the job secret comes to.
LEMMA CheckJobSteps ==
  ASSUME CheckJob
  PROVE  /\ pc = "auth" /\ route = "job" /\ UNCHANGED <<now, supabase, verifier, hops>>
         /\ \/ Respond("routes", 401)
            \/ Respond("routes", 403)
            \/ Respond(Layers[1], 500)
            \/ Goto("handle") /\ UNCHANGED <<counted, limited, outage>>
  BY DEF CheckJob

\* Answering keeps the types.
LEMMA RespondType ==
  ASSUME TypeOK, NEW layer, NEW code \in {200, 401, 403, 404, 422, 429, 500},
         Respond(layer, code), UNCHANGED <<now, supabase, hops>>,
         keySet' \subseteq keySet \cup published,
         signing' \subseteq signing \cup keySet \cup published
  PROVE  TypeOK'
<1>1. /\ pc' = "idle" /\ route' = None /\ token' = None
      /\ counted' = None /\ limited' = None /\ outage' = FALSE
      /\ answer' \in Answers
  BY DEF Respond, Answers
<1>2. UNCHANGED <<now, published, rotated, demoted, hops>>
  BY DEF supabase
<1>3. keySet' \subseteq {"old", "new"} /\ signing' \subseteq {"old", "new"}
  BY DEF TypeOK
<1>4. /\ pc' \in {"idle", "budget", "cors", "limiter", "auth", "handle"}
      /\ route' \in Routes \cup {None} /\ token' \in Tokens \cup {None}
      /\ counted' \in Identities \cup {None} /\ limited' \in Identities \cup {None}
  BY <1>1
<1>5. outage' \in BOOLEAN
  BY <1>1
<1>6. QED
  BY <1>1, <1>2, <1>3, <1>4, <1>5 DEF TypeOK

\* Every step keeps the types.
LEMMA NextType ==
  ASSUME TypeOK, [Next]_vars
  PROVE  TypeOK'
<1> USE DEF Instants
<1>1. CASE Arrive
  <2>1. token' \in Tokens \cup {None}
    BY <1>1, Presented DEF Arrive
  <2>2. QED
    BY <1>1, <2>1, NoAnswerType DEF Arrive, TypeOK, supabase, verifier
<1>2. CASE Unmetered
  BY <1>2 DEF Unmetered, Goto, TypeOK, supabase, verifier
<1>3. CASE Budget
  <2>1. /\ counted' \in Identities /\ outage' \in BOOLEAN
        /\ keySet' \subseteq keySet \cup published
        /\ signing' \subseteq signing \cup keySet \cup published
    BY <1>3, IdentifyFacts DEF Budget
  <2>2. QED
    BY <1>3, <2>1 DEF Budget, Goto, TypeOK, supabase
<1>4. CASE OverBudget \/ OverLimit
  <2>1. PICK layer \in {"budget", "routes"} : Respond(layer, 429)
    BY <1>4 DEF OverBudget, OverLimit
  <2>2. /\ keySet' \subseteq keySet \cup published
        /\ signing' \subseteq signing \cup keySet \cup published
    <3>1. CASE token = None
      BY <1>4, <3>1 DEF OverBudget, OverLimit, verifier
    <3>2. CASE token # None
      <4>1. PICK valid \in BOOLEAN, failed \in BOOLEAN : Verify(token, valid, failed)
        BY <1>4, <3>2 DEF OverBudget, OverLimit
      <4>2. token \in Tokens
        BY <3>2 DEF TypeOK
      <4>3. QED
        BY <4>1, <4>2, VerifyKeys
    <3>3. QED
      BY <3>1, <3>2
  <2>3. UNCHANGED <<now, supabase, hops>>
    BY <1>4 DEF OverBudget, OverLimit
  <2>4. QED
    BY <2>1, <2>2, <2>3, RespondType
<1>5. CASE Cors
  <2>1. CASE Respond("cors", 200)
    BY <1>5, <2>1, RespondType DEF Cors, verifier
  <2>2. CASE ~Respond("cors", 200)
    BY <1>5, <2>2 DEF Cors, Goto, TypeOK, supabase, verifier
  <2>3. QED
    BY <2>1, <2>2
<1>6. CASE Limiter
  <2>1. /\ limited' \in Identities /\ outage' \in BOOLEAN
        /\ keySet' \subseteq keySet \cup published
        /\ signing' \subseteq signing \cup keySet \cup published
    BY <1>6, IdentifyFacts DEF Limiter
  <2>2. QED
    BY <1>6, <2>1 DEF Limiter, Goto, TypeOK, supabase
<1>7. CASE Accept
  <2>1. token \in Tokens /\ Verify(token, TRUE, FALSE)
    BY <1>7 DEF Accept, TypeOK
  <2>2. /\ keySet' \subseteq keySet \cup published
        /\ signing' \subseteq signing \cup keySet \cup published
    BY <2>1, VerifyKeys
  <2>3. /\ pc' = "handle"
        /\ UNCHANGED <<now, published, rotated, demoted, hops, route, token, counted,
                       limited, outage, answer>>
    BY <1>7 DEF Accept, Goto, supabase
  <2>4. keySet' \subseteq {"old", "new"} /\ signing' \subseteq {"old", "new"}
    BY <2>2 DEF TypeOK
  <2> HIDE DEF Instants
  <2>5. QED
    BY <2>3, <2>4 DEF TypeOK
<1>8. CASE Refuse
  <2>1. PICK code \in {401, 403} : Respond("routes", code)
    <3>1. Respond("routes", 401) \/ Respond("routes", 403)
      BY <1>8 DEF Refuse
    <3>2. QED
      BY <3>1
  <2>2. /\ keySet' \subseteq keySet \cup published
        /\ signing' \subseteq signing \cup keySet \cup published
    <3>1. CASE token = None
      BY <1>8, <3>1 DEF Refuse, verifier
    <3>2. CASE token # None
      <4>1. PICK valid \in BOOLEAN, failed \in BOOLEAN : Verify(token, valid, failed)
        BY <1>8, <3>2 DEF Refuse
      <4>2. token \in Tokens
        BY <3>2 DEF TypeOK
      <4>3. QED
        BY <4>1, <4>2, VerifyKeys
    <3>3. QED
      BY <3>1, <3>2
  <2>3. UNCHANGED <<now, supabase, hops>>
    BY <1>8 DEF Refuse
  <2>4. QED
    BY <2>1, <2>2, <2>3, RespondType
<1>9. CASE CheckJob
  <2>1. CASE \E code \in {401, 403} : Respond("routes", code)
    BY <1>9, <2>1, CheckJobSteps, RespondType DEF verifier
  <2>2. CASE Respond(Layers[1], 500)
    BY <1>9, <2>2, CheckJobSteps, RespondType DEF verifier
  <2>3. CASE Goto("handle") /\ UNCHANGED <<counted, limited, outage>>
    <3>1. /\ pc' = "handle"
          /\ UNCHANGED <<now, published, rotated, demoted, keySet, signing, hops,
                         route, token, counted, limited, outage, answer>>
      BY <1>9, <2>3, CheckJobSteps DEF Goto, supabase, verifier
    <3> HIDE DEF Instants
    <3>2. QED
      BY <3>1 DEF TypeOK
  <2>4. QED
    BY <1>9, <2>1, <2>2, <2>3, CheckJobSteps
<1>10. CASE NoCheck
  BY <1>10 DEF NoCheck, Goto, TypeOK, supabase, verifier
<1>11. CASE Handle \/ Unhandled
  <2>1. PICK layer \in {"routes", Layers[1]}, code \in {200, 404, 422, 500} :
          Respond(layer, code)
    BY <1>11 DEF Handle, Unhandled
  <2>2. UNCHANGED <<now, supabase, verifier, hops>>
    BY <1>11 DEF Handle, Unhandled
  <2>3. QED
    BY <2>1, <2>2, RespondType DEF verifier
<1>12. CASE Elsewhere
  <2>1. PICK t \in {Foreign} \cup Genuine, valid \in BOOLEAN, failed \in BOOLEAN :
          Verify(t, valid, failed)
    BY <1>12 DEF Elsewhere
  <2>2. t \in Tokens
    BY Presented
  <2>3. /\ keySet' \subseteq keySet \cup published
        /\ signing' \subseteq signing \cup keySet \cup published
    BY <2>1, <2>2, VerifyKeys
  <2>4. QED
    BY <1>12, <2>3 DEF Elsewhere, TypeOK, supabase, request
<1>13. CASE Publish \/ Rotate \/ Withdraw \/ Demote \/ DropKeySet \/ Tick
  <2>1. UNCHANGED <<hops, request>> /\ signing' = signing /\ keySet' \in {keySet, {}}
    BY <1>13 DEF Publish, Rotate, Withdraw, Demote, DropKeySet, Tick, verifier
  <2>2. now' \in Instants
    BY <1>13 DEF Publish, Rotate, Withdraw, Demote, DropKeySet, Tick, TypeOK
  <2>3. /\ published' \subseteq {"old", "new"}
        /\ rotated' \in Instants \cup {None} /\ demoted' \in Instants \cup {None}
    BY <1>13 DEF Publish, Rotate, Withdraw, Demote, DropKeySet, Tick, TypeOK,
                 supabase
  <2>4. QED
    BY <2>1, <2>2, <2>3 DEF TypeOK, request
<1>14. CASE UNCHANGED vars
  BY <1>14 DEF vars, TypeOK, supabase, verifier, request
<1>15. QED
  BY <1>1, <1>2, <1>3, <1>4, <1>5, <1>6, <1>7, <1>8, <1>9, <1>10, <1>11,
     <1>12, <1>13, <1>14 DEF Next

-----------------------------------------------------------------------------
(* Tokens, and who is counted                                              *)

\* What has been signed or given is true of the time it was issued.
LEMMA NextIssued ==
  ASSUME TypeOK, Issued, [Next]_vars
  PROVE  Issued'
<1> DEFINE Before(change, t) == change = None \/ t.at <= change
           Told(t) == /\ t.at <= now
                      /\ t.kid = "old" => Before(rotated, t)
                      /\ t.kid = "new" => "new" \in published
                      /\ t.admin => Before(demoted, t)
<1>1. CASE Arrive
  <2>1. UNCHANGED <<now, published, rotated, demoted>>
    BY <1>1 DEF Arrive, supabase
  <2>2. Told(Foreign)
    BY DEF Foreign, TypeOK, Instants
  <2>3. ASSUME NEW t \in Genuine
        PROVE  Told(t)
    <3>1. /\ t \in Tokens /\ t.at <= now
          /\ t.kid \in Since(rotated, t.at, "old", "new")
          /\ t.admin \in Since(demoted, t.at, TRUE, FALSE)
      BY DEF Genuine
    <3>2. t.kid = "old" => Before(rotated, t)
      BY <3>1 DEF Since
    <3>3. t.kid = "new" => rotated # None
      BY <3>1 DEF Since
    <3>4. t.admin => Before(demoted, t)
      BY <3>1 DEF Since
    <3>5. QED
      BY <3>1, <3>2, <3>3, <3>4 DEF Issued
  <2>4. token' # None => Told(token')
    BY <1>1, <2>2, <2>3 DEF Arrive
  <2>5. QED
    BY <2>1, <2>4 DEF Issued
<1>2. CASE Rotate
  <2>1. /\ rotated = None /\ rotated' = now /\ "new" \in published
        /\ UNCHANGED <<now, published, demoted, token>>
    BY <1>2 DEF Rotate, request
  <2>2. QED
    BY <2>1 DEF Issued
<1>3. CASE Demote
  <2>1. demoted' = now /\ UNCHANGED <<now, published, rotated, token>>
    BY <1>3 DEF Demote, request
  <2>2. QED
    BY <2>1 DEF Issued
<1>4. CASE Tick
  <2>1. now' = now + 1 /\ UNCHANGED <<published, rotated, demoted, token>>
    BY <1>4 DEF Tick, supabase, request
  <2>2. token # None => token.at \in Nat /\ now \in Nat
    BY DEF TypeOK, Tokens, Instants
  <2>3. QED
    BY <2>1, <2>2 DEF Issued
<1>5. ASSUME UNCHANGED <<now, rotated, demoted>>,
             "new" \in published => "new" \in published',
             token' \in {token, None}
      PROVE  Issued'
  BY <1>5 DEF Issued
<1>6. CASE \/ Unmetered \/ Budget \/ OverBudget \/ Cors \/ Limiter \/ OverLimit
           \/ Accept \/ Refuse \/ CheckJob \/ NoCheck \/ Handle \/ Unhandled
  <2>1. token' \in {token, None}
    <3>1. CASE \/ Unmetered \/ Budget \/ Cors \/ Limiter \/ Accept \/ CheckJob
               \/ NoCheck
      <4>1. CASE Cors
        BY <4>1 DEF Cors, Goto, Respond
      <4>2. CASE CheckJob
        BY <4>2, CheckJobSteps DEF Goto, Respond
      <4>3. QED
        BY <3>1, <4>1, <4>2 DEF Unmetered, Budget, Limiter, Accept, NoCheck, Goto
    <3>2. CASE OverBudget \/ OverLimit \/ Refuse \/ Handle \/ Unhandled
      <4>1. CASE OverBudget \/ OverLimit \/ Unhandled
        BY <4>1 DEF OverBudget, OverLimit, Unhandled, Respond
      <4>2. CASE Refuse
        BY <4>2 DEF Refuse, Respond
      <4>3. CASE Handle
        BY <4>3 DEF Handle, Respond
      <4>4. QED
        BY <3>2, <4>1, <4>2, <4>3
    <3>3. QED
      BY <1>6, <3>1, <3>2
  <2>2. UNCHANGED <<now, supabase>>
    BY <1>6 DEF Unmetered, Budget, OverBudget, Cors, Limiter, OverLimit, Accept,
                Refuse, CheckJob, NoCheck, Handle, Unhandled
  <2>3. QED
    BY <1>5, <2>1, <2>2 DEF supabase
<1>7. CASE Elsewhere \/ Publish \/ Withdraw \/ DropKeySet \/ UNCHANGED vars
  BY <1>5, <1>7 DEF Elsewhere, Publish, Withdraw, DropKeySet, vars, supabase,
                    request
<1>8. QED
  BY <1>1, <1>2, <1>3, <1>4, <1>6, <1>7 DEF Next

\* Only the new key ever comes into the system, and time passes.
LEMMA OnlyTheNewKeyComes ==
  ASSUME TypeOK, [Next]_vars
  PROVE  /\ now <= now'
         /\ signing' \cup keySet' \cup published'
              \subseteq signing \cup keySet \cup published \cup {"new"}
<1> DEFINE Keys == signing \cup keySet \cup published
<1>1. ASSUME NEW t \in Tokens, NEW valid, NEW failed, Verify(t, valid, failed),
             UNCHANGED <<now, supabase>>
      PROVE  now' = now /\ Keys' \subseteq Keys
  BY <1>1, VerifyKeys DEF supabase
<1>2. ASSUME UNCHANGED <<now, supabase, verifier>>
      PROVE  now' = now /\ Keys' \subseteq Keys
  BY <1>2 DEF supabase, verifier
<1>3. CASE Budget \/ Limiter
  <2>1. PICK who : Identify(who)
    BY <1>3 DEF Budget, Limiter
  <2>2. UNCHANGED <<now, supabase>>
    BY <1>3 DEF Budget, Limiter
  <2>3. QED
    BY <2>1, <2>2, IdentifyFacts DEF supabase, TypeOK, Instants
<1>4. CASE OverBudget \/ OverLimit \/ Accept \/ Refuse
  <2>1. UNCHANGED <<now, supabase>>
    BY <1>4 DEF OverBudget, OverLimit, Accept, Refuse
  <2>2. CASE token = None
    BY <1>2, <1>4, <2>1, <2>2 DEF OverBudget, OverLimit, Accept, Refuse, TypeOK,
                                  Instants
  <2>3. CASE token # None
    <3>1. PICK valid \in BOOLEAN, failed \in BOOLEAN : Verify(token, valid, failed)
      BY <1>4, <2>3 DEF OverBudget, OverLimit, Accept, Refuse
    <3>2. QED
      BY <1>1, <2>1, <2>3, <3>1 DEF TypeOK, Instants
  <2>4. QED
    BY <2>2, <2>3
<1>5. CASE Elsewhere
  <2>1. PICK t \in {Foreign} \cup Genuine, valid \in BOOLEAN, failed \in BOOLEAN :
          Verify(t, valid, failed)
    BY <1>5 DEF Elsewhere
  <2>2. QED
    BY <1>1, <1>5, <2>1, Presented DEF Elsewhere, TypeOK, Instants
<1>6. CASE \/ Arrive \/ Unmetered \/ Cors \/ CheckJob \/ NoCheck \/ Handle \/ Unhandled
           \/ UNCHANGED vars
  <2>1. UNCHANGED <<now, supabase, verifier>>
    BY <1>6, CheckJobSteps
       DEF Arrive, Unmetered, Cors, NoCheck, Handle, Unhandled, vars
  <2>2. QED
    BY <1>2, <2>1 DEF TypeOK, Instants
<1>7. CASE Publish \/ Rotate \/ Withdraw \/ Demote \/ DropKeySet \/ Tick
  <2>1. now <= now'
    BY <1>7 DEF Publish, Rotate, Withdraw, Demote, DropKeySet, Tick, TypeOK, Instants
  <2>2. /\ published' \subseteq published \cup {"new"}
        /\ keySet' \subseteq keySet /\ signing' = signing
    BY <1>7 DEF Publish, Rotate, Withdraw, Demote, DropKeySet, Tick, supabase,
                verifier
  <2>3. QED
    BY <2>1, <2>2
<1>8. QED
  BY <1>3, <1>4, <1>5, <1>6, <1>7 DEF Next

\* Who is doomed stays so.
LEMMA DoomedStays ==
  ASSUME TypeOK, [Next]_vars, token # None, token' = token, Doomed(token)
  PROVE  Doomed(token)'
<1>1. token.at \in Nat /\ now \in Nat
  BY DEF TypeOK, Tokens, Instants
<1>2. now' \in Nat /\ now <= now'
  BY OnlyTheNewKeyComes, NextType DEF TypeOK, Instants
<1>3. Expired(token) => Expired(token)'
  BY <1>1, <1>2 DEF Expired
<1>4. QED
  BY <1>3, OnlyTheNewKeyComes DEF Doomed

\* Who is not counted as a user, though keys could be fetched, is doomed.
LEMMA IdentifyDooms ==
  ASSUME TypeOK, Issued, NEW who, Identify(who), token # None,
         UNCHANGED <<now, supabase, token>>
  PROVE  outage' \/ who = "user" \/ Doomed(token)'
<1>1. SUFFICES ASSUME ~outage', who # "user"
               PROVE  Doomed(token)'
  OBVIOUS
<1>2. \/ Expired(token)
      \/ token.kid # "new" /\ token.kid \notin signing' \cup keySet' \cup published
  BY <1>1, IdentifyFacts DEF Issued
<1>3. QED
  BY <1>2 DEF Doomed, Expired, supabase

\* Who could be verified is counted as a user; who could not is doomed.
LEMMA NextCounted ==
  ASSUME TypeOK, Issued, CountedOrDoomed, [Next]_vars
  PROVE  CountedOrDoomed'
<1>1. ASSUME pc' = "idle", counted' = None, limited' = None, outage' = FALSE
      PROVE  CountedOrDoomed'
  BY <1>1 DEF CountedOrDoomed, Behind
<1>2. CASE OverBudget \/ OverLimit \/ Refuse \/ Handle \/ Unhandled
  <2>1. pc' = "idle" /\ counted' = None /\ limited' = None /\ outage' = FALSE
    <3>1. CASE OverBudget \/ OverLimit \/ Unhandled
      BY <3>1 DEF OverBudget, OverLimit, Unhandled, Respond
    <3>2. CASE Refuse
      BY <3>2 DEF Refuse, Respond
    <3>3. CASE Handle
      BY <3>3 DEF Handle, Respond
    <3>4. QED
      BY <1>2, <3>1, <3>2, <3>3
  <2>2. QED
    BY <1>1, <2>1
<1>3. CASE Arrive
  BY <1>3 DEF Arrive, CountedOrDoomed, Behind, TypeOK, Routes
<1>4. CASE Budget
  <2>1. /\ pc = "budget" /\ pc' = "cors" /\ limited' = limited
        /\ UNCHANGED <<route, answer, token, now, supabase>>
    BY <1>4 DEF Budget, Goto
  <2>2. token # None => outage' \/ counted' = "user" \/ Doomed(token)'
    BY <1>4, <2>1, IdentifyDooms DEF Budget
  <2>3. QED
    BY <2>1, <2>2 DEF CountedOrDoomed, Behind
<1>5. CASE Limiter
  <2>1. /\ pc = "limiter" /\ pc' = "auth" /\ counted' = counted
        /\ UNCHANGED <<route, answer, token, now, supabase>>
    BY <1>5 DEF Limiter, Goto
  <2>2. token # None => outage' \/ limited' = "user" \/ Doomed(token)'
    BY <1>5, <2>1, IdentifyDooms DEF Limiter
  <2>3. outage => outage'
    BY <1>5, IdentifyFacts DEF Limiter
  <2>4. token # None /\ Doomed(token) => Doomed(token)'
    BY <2>1, DoomedStays
  <2>5. QED
    BY <2>1, <2>2, <2>3, <2>4 DEF CountedOrDoomed, Behind
<1>6. ASSUME UNCHANGED <<route, token, answer, counted, limited, outage>>,
             \/ pc' = pc
             \/ pc = "budget" /\ route = "probe" /\ pc' = "cors"
             \/ pc \in Behind /\ pc' \in Behind \ {"cors", "limiter"}
             \/ pc = "cors" /\ pc' = "limiter"
      PROVE  CountedOrDoomed'
  <2>1. token # None /\ Doomed(token) => Doomed(token)'
    BY <1>6, DoomedStays
  <2>2. QED
    BY <1>6, <2>1 DEF CountedOrDoomed, Behind
<1>7. CASE Unmetered \/ Accept \/ NoCheck
  BY <1>6, <1>7 DEF Unmetered, Accept, NoCheck, Goto, Behind
<1>8. CASE Cors
  <2>1. CASE route = "preflight"
    BY <1>1, <1>8, <2>1 DEF Cors, Respond
  <2>2. CASE route # "preflight"
    BY <1>6, <1>8, <2>2 DEF Cors, Goto, Behind
  <2>3. QED
    BY <2>1, <2>2
<1>9. CASE CheckJob
  <2>1. CASE \E code \in {401, 403} : Respond("routes", code)
    BY <1>1, <2>1 DEF Respond
  <2>2. CASE Respond(Layers[1], 500)
    BY <1>1, <2>2 DEF Respond
  <2>3. CASE pc = "auth" /\ Goto("handle") /\ UNCHANGED <<counted, limited, outage>>
    BY <1>6, <2>3 DEF Goto, Behind
  <2>4. QED
    BY <1>9, <2>1, <2>2, <2>3, CheckJobSteps
<1>10. CASE \/ Elsewhere \/ Publish \/ Rotate \/ Withdraw \/ Demote \/ DropKeySet
            \/ Tick \/ UNCHANGED vars
  BY <1>6, <1>10 DEF Elsewhere, Publish, Rotate, Withdraw, Demote, DropKeySet,
                     Tick, vars, request
<1>11. QED
  BY <1>2, <1>3, <1>4, <1>5, <1>7, <1>8, <1>9, <1>10 DEF Next

\* Whoever reaches a handler as a user was counted as one, and no address is
\* what a caller made of it.
LEMMA NextCountedAsServed ==
  ASSUME TypeOK, Issued, CountedOrDoomed, CountedAsServed, [Next]_vars
  PROVE  CountedAsServed'
<1> DEFINE Fair(who) == /\ hops <= Proxies => who # "forged"
                        /\ hops = Proxies => who \in {"user", "caller", None}
<1>1. Fair(None) /\ Fair("user")
  BY DEF Identities
<1>2. ASSUME NEW who, Identify(who)
      PROVE  Fair(who)
  BY <1>2, IdentifyFacts DEF NotForged
<1>3. hops' = hops
  BY DEF Next, vars, Arrive, Unmetered, Budget, OverBudget, Cors, Limiter, OverLimit,
         Accept, Refuse, CheckJob, NoCheck, Handle, Unhandled, Elsewhere,
         Publish, Rotate, Withdraw, Demote, DropKeySet, Tick
<1>4. /\ counted' \in {counted, None} \/ Identify(counted')
      /\ limited' \in {limited, None} \/ Identify(limited')
  <2>1. CASE \/ Arrive \/ Unmetered \/ Budget \/ OverBudget \/ Cors \/ Limiter
             \/ OverLimit
    BY <2>1 DEF Arrive, Unmetered, Budget, OverBudget, Cors, Limiter, OverLimit, Respond
  <2>2. CASE Accept \/ Refuse \/ CheckJob \/ NoCheck \/ Handle \/ Unhandled
    <3>1. CASE Accept \/ NoCheck
      BY <3>1 DEF Accept, NoCheck
    <3>2. CASE Refuse \/ CheckJob
      BY <3>2 DEF Refuse, CheckJob, Respond
    <3>3. CASE Handle \/ Unhandled
      BY <3>3 DEF Handle, Unhandled, Respond
    <3>4. QED
      BY <2>2, <3>1, <3>2, <3>3
  <2>3. CASE \/ Elsewhere \/ Publish \/ Rotate \/ Withdraw \/ Demote \/ DropKeySet
             \/ Tick \/ UNCHANGED vars
    BY <2>3 DEF Elsewhere, Publish, Rotate, Withdraw, Demote, DropKeySet, Tick, vars, request
  <2>4. QED
    BY <2>1, <2>2, <2>3 DEF Next
<1>5. Fair(counted') /\ Fair(limited')
  BY <1>1, <1>2, <1>4 DEF CountedAsServed
<1>6. ASSUME pc' = "handle", route' \in {"user", "admin"}, ~outage'
      PROVE  counted' = "user" /\ limited' \in {"user", None}
  <2>1. CASE Accept
    <3>1. /\ token \in Tokens /\ Verify(token, TRUE, FALSE) /\ pc = "auth"
          /\ UNCHANGED <<now, published, route, counted, limited, outage>>
      BY <2>1 DEF Accept, TypeOK, Goto, supabase
    <3>2. ~Expired(token) /\ token.kid \in signing \cup keySet \cup published
      BY <3>1, VerifyKeys
    <3>3. ~Doomed(token) /\ token # None
      BY <2>1, <3>2 DEF Doomed, Accept
    <3>4. QED
      BY <1>6, <3>1, <3>3 DEF CountedOrDoomed, Behind
  <2>2. CASE UNCHANGED <<pc, route, outage, counted, limited>>
    BY <1>6, <2>2 DEF CountedAsServed
  <2>3. CASE \/ Elsewhere \/ Publish \/ Rotate \/ Withdraw \/ Demote
             \/ DropKeySet \/ Tick \/ UNCHANGED vars
    BY <2>2, <2>3 DEF Elsewhere, Publish, Rotate, Withdraw, Demote, DropKeySet,
                      Tick, vars, request
  <2>4. CASE \/ Arrive \/ Unmetered \/ Budget \/ OverBudget \/ Cors \/ Limiter
             \/ OverLimit \/ Refuse \/ Handle \/ Unhandled
    BY <1>6, <2>4 DEF Arrive, Unmetered, Budget, OverBudget, Cors, Limiter, OverLimit,
                      Refuse, Handle, Unhandled, Respond, Goto
  <2>5. CASE CheckJob \/ NoCheck
    BY <1>6, <2>5 DEF CheckJob, NoCheck, Respond, Goto
  <2>6. QED
    BY <2>1, <2>3, <2>4, <2>5 DEF Next
<1>7. QED
  BY <1>3, <1>5, <1>6 DEF CountedAsServed

-----------------------------------------------------------------------------
(* Answers                                                                 *)

\* Every answer a handler or a middleware gives passes the outer layers.
LEMMA NextTraced ==
  ASSUME AnswersAreTraced, [Next]_vars
  PROVE  AnswersAreTraced'
<1>1. ASSUME NEW layer \in {"budget", "cors", "routes"},
             NEW code \in {200, 401, 403, 404, 422, 429, 500}, Respond(layer, code)
      PROVE  AnswersAreTraced'
  <2>1. {"context", "headers"} \subseteq Outside(layer)
    BY Marks
  <2>2. QED
    BY <1>1, <2>1 DEF Respond, AnswersAreTraced
<1>2. ASSUME Respond(Layers[1], 500)
      PROVE  AnswersAreTraced'
  BY <1>2 DEF Respond, AnswersAreTraced
<1>3. ASSUME answer' \in {answer, NoAnswer}
      PROVE  AnswersAreTraced'
  BY <1>3 DEF NoAnswer, AnswersAreTraced
<1>4. CASE OverBudget \/ OverLimit \/ Refuse \/ Handle \/ Unhandled
  <2>1. CASE OverBudget \/ OverLimit
    BY <1>1, <2>1 DEF OverBudget, OverLimit
  <2>2. CASE Refuse
    <3>1. Respond("routes", 401) \/ Respond("routes", 403)
      BY <2>2 DEF Refuse
    <3>2. QED
      BY <1>1, <3>1
  <2>3. CASE Handle \/ Unhandled
    BY <1>1, <1>2, <2>3 DEF Handle, Unhandled
  <2>4. QED
    BY <1>4, <2>1, <2>2, <2>3
<1>5. CASE Cors \/ CheckJob
  <2>1. CASE Cors
    BY <1>1, <1>3, <2>1 DEF Cors, Goto
  <2>2. CASE CheckJob
    BY <1>1, <1>2, <1>3, <2>2, CheckJobSteps DEF Goto
  <2>3. QED
    BY <1>5, <2>1, <2>2
<1>6. CASE Arrive \/ Unmetered \/ Budget \/ Limiter \/ Accept \/ NoCheck
  BY <1>3, <1>6 DEF Arrive, Unmetered, Budget, Limiter, Accept, NoCheck, Goto
<1>7. CASE \/ Elsewhere \/ Publish \/ Rotate \/ Withdraw \/ Demote \/ DropKeySet
           \/ Tick \/ UNCHANGED vars
  BY <1>3, <1>7 DEF Elsewhere, Publish, Rotate, Withdraw, Demote, DropKeySet,
                    Tick, vars, request
<1>8. QED
  BY <1>4, <1>5, <1>6, <1>7 DEF Next

-----------------------------------------------------------------------------
(* The theorems                                                            *)

\* The invariant holds initially.
LEMMA InitIInv == Init => IInv
<1>1. Init => Issued /\ CountedOrDoomed
  BY DEF Init, Issued, CountedOrDoomed, Behind
<1>2. Init => CountedAsServed /\ AnswersAreTraced
  BY DEF Init, CountedAsServed, AnswersAreTraced, NoAnswer, Identities
<1>3. QED
  BY <1>1, <1>2, InitType DEF IInv

\* Every step keeps the invariant.
LEMMA NextIInv == IInv /\ [Next]_vars => IInv'
  BY NextType, NextIssued, NextCounted, NextCountedAsServed, NextTraced DEF IInv

\* In every reachable state of any instance the inductive invariant holds.
THEOREM Invariance == Spec => []IInv
  BY InitIInv, NextIInv, PTL DEF Spec

\* Every variable of a request's way through the layers keeps its type.
THEOREM TypeCorrect == Spec => []TypeOK
  BY Invariance, PTL DEF IInv

\* Who is served as a user was counted as that user by both limiters unless
\* fetching keys failed, and addresses cannot be forged, for any life of
\* tokens and any number of proxies.
THEOREM ServedAsCounted == Spec => []CountedAsServed
  BY Invariance, PTL DEF IInv

\* Every answer but that to an unhandled exception carries its marks.
THEOREM Traced == Spec => []AnswersAreTraced
  BY Invariance, PTL DEF IInv

\* A token opens routes only within its life of what took it back.
LEMMA NextEndsWithTheToken ==
  ASSUME IInv, [Next]_vars
  PROVE  EndsWithTheToken
<1>1. SUFFICES ASSUME pc = "auth", pc' = "handle", route \in {"user", "admin"}
               PROVE  /\ route = "admin" => demoted = None \/ now < demoted + Life
                      /\ token.kid = "old" => rotated = None \/ now < rotated + Life
  BY DEF EndsWithTheToken
<1>2. Accept
  <2>1. CASE \/ Elsewhere \/ Publish \/ Rotate \/ Withdraw \/ Demote
             \/ DropKeySet \/ Tick \/ UNCHANGED vars
    BY <1>1, <2>1 DEF Elsewhere, Publish, Rotate, Withdraw, Demote, DropKeySet,
                      Tick, vars, request
  <2>2. CASE \/ Arrive \/ Unmetered \/ Budget \/ OverBudget \/ Cors \/ Limiter
             \/ OverLimit \/ Refuse \/ CheckJob \/ NoCheck \/ Handle \/ Unhandled
    BY <1>1, <2>2 DEF Arrive, Unmetered, Budget, OverBudget, Cors, Limiter, OverLimit,
                      Refuse, CheckJob, NoCheck, Handle, Unhandled, Respond
  <2>3. QED
    BY <2>1, <2>2 DEF Next
<1>3. token \in Tokens /\ Verify(token, TRUE, FALSE) /\ token # None
  BY <1>2 DEF Accept, IInv, TypeOK
<1>4. ~Expired(token)
  BY <1>3, VerifyKeys DEF IInv
<1>5. now < token.at + Life /\ token.at \in Nat /\ now \in Nat
  BY <1>3, <1>4 DEF Expired, Tokens, Instants, IInv, TypeOK
<1>6. (demoted = None \/ demoted \in Nat) /\ (rotated = None \/ rotated \in Nat)
  BY DEF IInv, TypeOK, Instants
<1>7. route = "admin" => token.admin
  BY <1>2 DEF Accept
<1>8. QED
  BY <1>3, <1>5, <1>6, <1>7 DEF IInv, Issued

\* A token that lives, and whose key is published, is refused only when keys
\* could not be fetched.
LEMMA NextLocksNobodyOut ==
  ASSUME IInv, [Next]_vars
  PROVE  LocksNobodyOut
<1>1. SUFFICES ASSUME pc = "auth", answer'.status = 401,
                      route \in {"user", "admin"}, token \notin {None, Foreign}
               PROVE  Expired(token) \/ token.kid \notin published \/ keySet' = {}
  BY DEF LocksNobodyOut
<1>2. answer.status # 401
  BY <1>1 DEF IInv, CountedOrDoomed, NoAnswer
<1>3. Refuse
  <2>1. CASE \/ Elsewhere \/ Publish \/ Rotate \/ Withdraw \/ Demote
             \/ DropKeySet \/ Tick \/ UNCHANGED vars
    BY <1>1, <1>2, <2>1 DEF Elsewhere, Publish, Rotate, Withdraw, Demote,
                            DropKeySet, Tick, vars, request
  <2>2. CASE \/ Arrive \/ Unmetered \/ Budget \/ OverBudget \/ Cors \/ Limiter
             \/ OverLimit \/ CheckJob \/ NoCheck \/ Handle \/ Unhandled
    BY <1>1, <2>2 DEF Arrive, Unmetered, Budget, OverBudget, Cors, Limiter, OverLimit,
                      CheckJob, NoCheck, Handle, Unhandled
  <2>3. CASE Accept
    BY <1>1, <1>2, <2>3 DEF Accept, Goto
  <2>4. QED
    BY <2>1, <2>2, <2>3 DEF Next
<1>4. PICK valid \in BOOLEAN, failed \in BOOLEAN :
        Verify(token, valid, failed) /\ (~valid \/ answer'.status = 403)
  <2>1. CASE \E failed \in BOOLEAN : Verify(token, FALSE, failed)
    BY <2>1
  <2>2. CASE Verify(token, TRUE, FALSE) /\ Respond("routes", 403)
    BY <2>2 DEF Respond
  <2>3. QED
    BY <1>1, <1>3, <2>1, <2>2 DEF Refuse
<1>5. QED
  BY <1>1, <1>4 DEF Verify, Fetches

\* For any life of a token: what was taken back counts no longer than a token
\* lives, and a token that lives is not refused while its key is published,
\* unless fetching keys failed.
THEOREM TokensServe == Spec => TokensServeTheirLife
<1>1. IInv /\ [Next]_vars => [EndsWithTheToken /\ LocksNobodyOut]_vars
  BY NextEndsWithTheToken, NextLocksNobodyOut
<1>2. QED
  BY <1>1, Invariance, PTL DEF Spec, TokensServeTheirLife
=============================================================================
