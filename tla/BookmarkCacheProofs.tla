------------------------- MODULE BookmarkCacheProofs -------------------------
(***************************************************************************)
(* For any users, bookmarks, toggles and losses: no answer asked for       *)
(* before a click undoes it, a click stays on the screen until something   *)
(* of a short list crosses it, and a quiet cache shows what the server has.*)
(*                                                                         *)
(* That the cache is right when all is quiet says nothing of the moment    *)
(* before, when an answer is about to land.  Fresh does: an answer that    *)
(* was read when no toggle was in flight is still what the server has,     *)
(* because whatever changes the server afterwards is either a toggle in    *)
(* flight, which begins the fetch anew, or sets missed.  In the same way   *)
(* the screen keeps a click because the answer under way, and the server   *)
(* it was read from, already agree with it, and because no other toggle    *)
(* has to do with its bookmark.                                            *)
(***************************************************************************)
EXTENDS BookmarkCache, TLAPS

Statuses == {"idle", "sent", "late", "done", "refused", "settled"}
Fetches  == [by: Users \cup {None}, answer: (SUBSET Opps) \cup {None}, try: Nat]
Clicks   == [by: Users \cup {None}, opp: Opps, adds: BOOLEAN]

Types ==
  /\ session \in Users \cup {None}
  /\ server \in [Users -> SUBSET Opps]
  /\ ids \in (SUBSET Opps) \cup {None}
  /\ owner \in Users \cup {None}
  /\ fetch \in Fetches
  /\ pc \in [Toggles -> Statuses]
  /\ click \in [Toggles -> Clicks \cup {None}]
  /\ \A m \in Toggles :
       /\ pc[m] \notin {"idle", "settled"} => click[m] \in Clicks
       /\ pc[m] \in {"late", "done"} => click[m].by \in Users
  /\ previous \in [Toggles -> SUBSET Opps]

\* An answer under way is what the server has, when nothing else is.
Fresh ==
  fetch.answer # None /\ InFlight = {} /\ ~missed => fetch.answer = server[fetch.by]

Quiet == OldFetchesAreDropped /\ Fresh /\ QuietCacheIsServer

Agrees(set, c) == c.opp \in set <=> c.adds

\* What may replace the screen agrees with a click that nothing has crossed.
AnswerAgrees ==
  fetch.answer # None => \A m \in InFlight \ crossed : Agrees(fetch.answer, click[m])

ServerAgrees ==
  \A m \in InFlight \ crossed :
    pc[m] # "sent" /\ click[m].by # None => Agrees(server[click[m].by], click[m])

NoRivals == \A m \in InFlight \ crossed : Rivals(m, click[m].opp) = {}

Screen == AnswerAgrees /\ ServerAgrees /\ NoRivals /\ ClicksAreShown

IInv == Types /\ Quiet /\ Screen

-----------------------------------------------------------------------------
(* Types                                                                   *)

LEMMA NoFetchType == NoFetch \in Fetches /\ NoFetch.answer = None
  BY DEF NoFetch, Fetches

LEMMA BeginType ==
  ASSUME Types, Begin
  PROVE  /\ fetch' \in Fetches /\ fetch'.answer = None /\ fetch' # NoFetch
         /\ unheard' = InFlight /\ missed' = FALSE
  BY DEF Types, Begin, Fetches, NoFetch

LEMMA SettledType ==
  ASSUME Types, Settled
  PROVE  fetch' \in Fetches
  BY BeginType DEF Types, Settled

LEMMA ToggledType ==
  ASSUME NEW S \in SUBSET Opps, NEW c \in Clicks
  PROVE  Toggled(S, c) \in SUBSET Opps
  BY DEF Toggled, Clicks

\* A toggle brings about what it wants, and touches nothing else.
LEMMA ToggledAgrees ==
  ASSUME NEW S, NEW c
  PROVE  /\ Agrees(Toggled(S, c), c)
         /\ \A d : d.opp # c.opp => (Agrees(Toggled(S, c), d) <=> Agrees(S, d))
  BY DEF Toggled, Agrees

LEMMA OverType ==
  ASSUME Types, NEW m \in Toggles, Over(m)
  PROVE  /\ pc' \in [Toggles -> Statuses] /\ pc'[m] = "settled"
         /\ click' \in [Toggles -> Clicks \cup {None}]
         /\ previous' \in [Toggles -> SUBSET Opps]
         /\ \A n \in Toggles \ {m} : pc'[n] = pc[n] /\ click'[n] = click[n]
  BY DEF Types, Over, Statuses

LEMMA FailedType ==
  ASSUME Types, FetchFails
  PROVE  /\ fetch' \in Fetches /\ fetch'.answer = None /\ fetch # NoFetch
         /\ \/ fetch' = NoFetch /\ stale' = TRUE
            \/ fetch' # NoFetch /\ UNCHANGED <<stale, unheard>>
<1>1. CASE GivesUp
  BY <1>1, NoFetchType DEF FetchFails, GivesUp
<1>2. CASE TriesAgain
  BY <1>2 DEF FetchFails, TriesAgain, Types, Fetches, NoFetch
<1>3. QED
  BY <1>1, <1>2 DEF FetchFails

LEMMA ReadType ==
  ASSUME Types, Read
  PROVE  /\ fetch' \in Fetches /\ fetch # NoFetch /\ fetch' # NoFetch
         /\ fetch.by \in Users /\ fetch'.by = fetch.by
         /\ fetch'.answer = server[fetch.by]
<1>1. fetch.by \in Users /\ server[fetch.by] \in SUBSET Opps
  BY DEF Read, Types, Fetches
<1>2. /\ fetch' \in Fetches /\ fetch'.by = fetch.by
      /\ fetch'.answer = server[fetch.by] /\ fetch'.try = fetch.try
  BY <1>1 DEF Read, Types, Fetches
<1>3. fetch' # NoFetch
  BY <1>1, <1>2, BookmarkCacheAssumption DEF NoFetch
<1>4. QED
  BY <1>1, <1>2, <1>3 DEF Read

LEMMA QueryTypes ==
  ASSUME Types, Mount \/ Hide \/ Collect \/ Read \/ Land \/ FetchFails \/ Age
  PROVE  Types'
<1>1. CASE Mount
  BY <1>1, BeginType DEF Mount, Types, mutations
<1>2. CASE Hide \/ Age
  BY <1>2 DEF Hide, Age, Types, query, mutations
<1>3. CASE Collect
  BY <1>3 DEF Collect, Types, mutations
<1>4. CASE Read
  BY <1>4, ReadType DEF Read, Types, mutations
<1>5. CASE Land
  BY <1>5, NoFetchType DEF Land, Types, Fetches, mutations
<1>6. CASE FetchFails
  BY <1>6, FailedType DEF FetchFails, Types, mutations
<1>7. QED
  BY <1>1, <1>2, <1>3, <1>4, <1>5, <1>6

\* The click that onMutate works with.
LEMMA ClickType ==
  ASSUME Types, NEW m \in Toggles, NEW o \in Opps, Click(m, o)
  PROVE  /\ click'[m] \in Clicks /\ click'[m].opp = o
         /\ ids' = Toggled(Shown, click'[m]) /\ ids' \in SUBSET Opps
         /\ click' \in [Toggles -> Clicks \cup {None}]
         /\ pc' \in [Toggles -> Statuses] /\ pc'[m] = "sent"
         /\ \A n \in Toggles \ {m} : pc'[n] = pc[n] /\ click'[n] = click[n]
<1>1. PICK c \in {[by |-> session, opp |-> o, adds |-> o \notin Shown]} :
        click' = [click EXCEPT ![m] = c] /\ ids' = Toggled(Shown, c)
  BY DEF Click
<1>2. c \in Clicks /\ c.opp = o
  <2>1. session \in Users \cup {None}
    BY DEF Types
  <2>2. (o \notin Shown) \in BOOLEAN
    OBVIOUS
  <2>3. [by |-> session, opp |-> o, adds |-> o \notin Shown] \in Clicks
    BY <2>1, <2>2, Zenon DEF Clicks
  <2>4. QED
    BY <2>3
<1>3. Shown \in SUBSET Opps
  BY DEF Shown, Types
<1>4. ids' \in SUBSET Opps
  BY <1>1, <1>2, <1>3, ToggledType
<1>5. /\ click' \in [Toggles -> Clicks \cup {None}] /\ click'[m] = c
      /\ \A n \in Toggles \ {m} : click'[n] = click[n]
  BY <1>1, <1>2 DEF Types
<1>6. /\ pc' \in [Toggles -> Statuses] /\ pc'[m] = "sent"
      /\ \A n \in Toggles \ {m} : pc'[n] = pc[n]
  BY DEF Click, Types, Statuses
<1>7. QED
  BY <1>1, <1>2, <1>4, <1>5, <1>6

LEMMA ApplyType ==
  ASSUME Types, NEW m \in Toggles, Apply(m) \/ ApplyLate(m)
  PROVE  /\ click[m] \in Clicks /\ click[m].by \in Users
         /\ server' = [server EXCEPT ![click[m].by] = Toggled(@, click[m])]
         /\ server' \in [Users -> SUBSET Opps]
<1>1. /\ pc[m] \in {"sent", "late"}
      /\ server' = [server EXCEPT ![click[m].by] = Toggled(@, click[m])]
  BY DEF Apply, ApplyLate
<1>2. click[m] \in Clicks
  BY <1>1 DEF Types
<1>3. click[m].by \in Users
  BY <1>2 DEF Apply, ApplyLate, Types, Clicks
<1>4. server[click[m].by] \in SUBSET Opps
  BY <1>3 DEF Types
<1>5. QED
  BY <1>1, <1>2, <1>3, <1>4, ToggledType DEF Types

LEMMA MutationTypes ==
  ASSUME Types, NEW m \in Toggles,
         \/ \E o \in Opps : Click(m, o)
         \/ Apply(m) \/ ApplyLate(m) \/ Unauthorized(m)
         \/ Succeed(m) \/ Refused(m) \/ Lost(m)
  PROVE  Types'
<1>1. ASSUME NEW o \in Opps, Click(m, o)
      PROVE  Types'
  <2>1. fetch' \in Fetches /\ UNCHANGED <<session, server, owner>>
    BY <1>1, NoFetchType DEF Click, Cancel
  <2>2. previous' \in [Toggles -> SUBSET Opps]
    BY <1>1 DEF Click, Types, Shown
  <2>3. QED
    BY <1>1, <2>1, <2>2, ClickType DEF Types
<1>2. CASE Apply(m)
  <2>1. /\ pc' \in [Toggles -> Statuses] /\ pc'[m] \in {"done", "refused"}
        /\ \A n \in Toggles \ {m} : pc'[n] = pc[n]
    BY <1>2 DEF Apply, Types, Statuses
  <2>2. UNCHANGED <<session, ids, owner, fetch, click, previous>>
    BY <1>2 DEF Apply, query
  <2>3. QED
    BY <1>2, <2>1, <2>2, ApplyType DEF Types
<1>3. CASE ApplyLate(m)
  BY <1>3, ApplyType, OverType DEF ApplyLate, Types
<1>4. CASE Unauthorized(m)
  <2>1. /\ pc' \in [Toggles -> Statuses] /\ pc'[m] = "refused" /\ pc[m] = "sent"
        /\ \A n \in Toggles \ {m} : pc'[n] = pc[n]
    BY <1>4 DEF Unauthorized, Types, Statuses
  <2>2. QED
    BY <1>4, <2>1 DEF Unauthorized, Types, query
<1>5. CASE Succeed(m) \/ Refused(m) \/ Lost(m)
  <2>1. Settled /\ UNCHANGED <<session, server, owner>>
    BY <1>5 DEF Succeed, Refused, Lost, RollBack
  <2>2. ids' \in (SUBSET Opps) \cup {None}
    BY <1>5 DEF Succeed, Refused, Lost, RollBack, Types
  <2>3. CASE Over(m)
    BY <2>1, <2>2, <2>3, SettledType, OverType DEF Types
  <2>4. CASE ~Over(m)
    <3>1. /\ Lost(m) /\ pc[m] = "sent" /\ click[m].by # None
          /\ pc' = [pc EXCEPT ![m] = "late"]
          /\ previous' = [previous EXCEPT ![m] = {}]
          /\ UNCHANGED click
      BY <1>5, <2>4 DEF Succeed, Refused, Lost
    <3>2. /\ pc' \in [Toggles -> Statuses] /\ pc'[m] = "late"
          /\ \A n \in Toggles \ {m} : pc'[n] = pc[n]
      BY <3>1 DEF Types, Statuses
    <3>3. click[m] \in Clicks /\ click[m].by \in Users
      BY <3>1 DEF Types, Clicks
    <3>4. QED
      BY <2>1, <2>2, <3>1, <3>2, <3>3, SettledType DEF Types
  <2>5. QED
    BY <2>3, <2>4
<1>6. QED
  BY <1>1, <1>2, <1>3, <1>4, <1>5

LEMMA NextTypes ==
  ASSUME Types, [Next]_vars
  PROVE  Types'
<1>1. CASE UNCHANGED vars
  BY <1>1 DEF vars, query, mutations, Types
<1>2. CASE SignOut \/ \E u \in Users : SignIn(u)
  BY <1>2 DEF SignOut, SignIn, query, mutations, Types
<1>3. QED
  BY <1>1, <1>2, QueryTypes, MutationTypes DEF Next

-----------------------------------------------------------------------------
(* Quiet                                                                   *)

\* onSettled: either the fetch is begun anew, or what is under way is missed.
LEMMA SettledStaysQuiet ==
  ASSUME Types, Quiet, Settled, server' = server, InFlight' \subseteq InFlight
  PROVE  Quiet'
<1>1. stale' = TRUE
  BY DEF Settled
<1>2. CASE Begin
  BY <1>1, <1>2, BeginType DEF Quiet, OldFetchesAreDropped, Fresh, QuietCacheIsServer
<1>3. CASE ~Begin
  <2>1. UNCHANGED <<fetch, unheard>> /\ (fetch'.answer # None => missed')
    BY <1>3 DEF Settled
  <2>2. QED
    BY <1>1, <2>1 DEF Quiet, OldFetchesAreDropped, Fresh, QuietCacheIsServer
<1>4. QED
  BY <1>2, <1>3

LEMMA QueryStaysQuiet ==
  ASSUME Types, Quiet, Mount \/ Hide \/ Collect \/ Read \/ Land \/ FetchFails \/ Age
  PROVE  Quiet'
<1> USE DEF Quiet, OldFetchesAreDropped, Fresh, QuietCacheIsServer
<1>1. InFlight' = InFlight /\ server' = server
  BY DEF Mount, Hide, Collect, Read, Land, FetchFails, Age, InFlight, mutations
<1>2. CASE Mount
  BY <1>1, <1>2, BeginType DEF Mount
<1>3. CASE Hide \/ Collect \/ Age
  BY <1>1, <1>3 DEF Hide, Collect, Age, query
<1>4. CASE Read
  BY <1>1, <1>4, ReadType DEF Read
<1>5. CASE Land
  BY <1>1, <1>5, NoFetchType DEF Land
<1>6. CASE FetchFails
  <2>1. UNCHANGED <<ids, owner, missed>>
    BY <1>6 DEF FetchFails
  <2>2. QED
    BY <1>1, <1>6, <2>1, FailedType
<1>7. QED
  BY <1>2, <1>3, <1>4, <1>5, <1>6

LEMMA MutationsStayQuiet ==
  ASSUME Types, Quiet, NEW m \in Toggles,
         \/ \E o \in Opps : Click(m, o)
         \/ Apply(m) \/ ApplyLate(m) \/ Unauthorized(m)
         \/ Succeed(m) \/ Refused(m) \/ Lost(m)
  PROVE  Quiet'
<1>1. ASSUME NEW o \in Opps, Click(m, o)
      PROVE  Quiet'
  <2>1. fetch' = NoFetch /\ m \in InFlight'
    BY <1>1 DEF Click, Cancel, InFlight, Types
  <2>2. QED
    BY <2>1, NoFetchType DEF Quiet, OldFetchesAreDropped, Fresh, QuietCacheIsServer
<1>2. CASE Apply(m) \/ Unauthorized(m)
  <2>1. UNCHANGED <<fetch, unheard>>
    BY <1>2 DEF Apply, Unauthorized, query
  <2>2. InFlight' = InFlight /\ m \in InFlight
    BY <1>2 DEF Apply, Unauthorized, InFlight, Types
  <2>3. QED
    BY <2>1, <2>2 DEF Quiet, OldFetchesAreDropped, Fresh, QuietCacheIsServer
<1>3. CASE ApplyLate(m)
  <2>1. UNCHANGED <<fetch, unheard>> /\ missed'
    BY <1>3 DEF ApplyLate
  <2>2. InFlight' = InFlight
    BY <1>3 DEF ApplyLate, Over, InFlight, Types
  <2>3. QED
    BY <2>1, <2>2 DEF Quiet, OldFetchesAreDropped, Fresh, QuietCacheIsServer
<1>4. CASE Succeed(m) \/ Refused(m) \/ Lost(m)
  <2>1. Settled /\ server' = server
    BY <1>4 DEF Succeed, Refused, Lost, RollBack
  <2>2. InFlight' \subseteq InFlight
    BY <1>4 DEF Succeed, Refused, Lost, Over, InFlight, Types
  <2>3. QED
    BY <2>1, <2>2, SettledStaysQuiet
<1>5. QED
  BY <1>1, <1>2, <1>3, <1>4

-----------------------------------------------------------------------------
(* Screen                                                                  *)

\* A toggle in flight that nothing has crossed.
LEMMA InFlightType ==
  ASSUME Types, NEW m \in InFlight
  PROVE  m \in Toggles /\ click[m] \in Clicks /\ pc[m] \in {"sent", "done", "refused"}
  BY DEF Types, InFlight

LEMMA QueryKeepsScreen ==
  ASSUME Types, Screen, Mount \/ Hide \/ Collect \/ Read \/ Land \/ FetchFails \/ Age
  PROVE  Screen'
<1>1. /\ UNCHANGED <<pc, click, server>> /\ InFlight' = InFlight
      /\ crossed \subseteq crossed'
  BY DEF Mount, Hide, Collect, Read, Land, FetchFails, Age, InFlight, mutations, Crosses
<1>2. ServerAgrees' /\ NoRivals'
  BY <1>1 DEF Screen, ServerAgrees, NoRivals, Rivals
<1>3. CASE ids' = ids
  <2>1. ClicksAreShown'
    BY <1>1, <1>3 DEF Screen, ClicksAreShown, Shown
  <2>2. CASE fetch' = fetch \/ fetch'.answer = None
    BY <1>1, <1>2, <2>1, <2>2 DEF Screen, AnswerAgrees
  <2>3. CASE Read
    <3>1. SUFFICES ASSUME NEW m \in InFlight \ crossed'
                   PROVE  Agrees(fetch'.answer, click[m])
      BY <1>1, <1>2, <2>1 DEF Screen, AnswerAgrees
    <3>2. pc[m] # "sent" /\ click[m].by = fetch.by
      BY <2>3, <3>1 DEF Read, Crosses
    <3>3. m \in InFlight \ crossed /\ click[m].by # None
      BY <1>1, <2>3, <3>1, <3>2, ReadType DEF Read
    <3>4. QED
      BY <2>3, <3>2, <3>3, ReadType DEF Screen, ServerAgrees
  <2>4. CASE Mount \/ FetchFails
    <3>1. fetch' = fetch \/ fetch'.answer = None
      BY <2>4, BeginType, FailedType DEF Mount
    <3>2. QED
      BY <3>1, <2>2
  <2>5. CASE Hide \/ Age
    BY <2>2, <2>5 DEF Hide, Age, query
  <2>6. CASE Collect \/ Land
    BY <2>2, <2>6, NoFetchType DEF Collect, Land
  <2>7. QED
    BY <2>3, <2>4, <2>5, <2>6
<1>4. CASE Collect
  <2>1. InFlight' \ crossed' = {}
    BY <1>1, <1>4 DEF Collect, Crosses
  <2>2. QED
    BY <1>2, <2>1 DEF Screen, ClicksAreShown, AnswerAgrees
<1>5. CASE Land /\ ids' # ids
  <2>1. /\ ids' = fetch.answer /\ fetch.answer # None /\ fetch'.answer = None
        /\ crossed' = crossed
    BY <1>5, NoFetchType DEF Land
  <2>2. Shown' = fetch.answer
    BY <2>1 DEF Shown
  <2>3. ClicksAreShown'
    BY <1>1, <2>1, <2>2 DEF Screen, AnswerAgrees, Agrees, ClicksAreShown
  <2>4. QED
    BY <1>2, <2>1, <2>3 DEF Screen, AnswerAgrees
<1>6. QED
  BY <1>3, <1>4, <1>5 DEF Mount, Hide, Read, FetchFails, Age, query

LEMMA ClickKeepsScreen ==
  ASSUME Types, Screen, NEW m \in Toggles, NEW o \in Opps, Click(m, o)
  PROVE  Screen'
<1>1. /\ fetch'.answer = None /\ server' = server
      /\ crossed' = crossed \cup
           (IF Rivals(m, o) = {} THEN {} ELSE {m} \cup (Rivals(m, o) \cap InFlight))
      /\ pc[m] = "idle"
  BY NoFetchType DEF Click, Cancel, Crosses
<1>2. /\ pc'[m] = "sent" /\ click'[m].opp = o /\ ids' = Toggled(Shown, click'[m])
      /\ ids' \in SUBSET Opps
      /\ \A n \in Toggles \ {m} : pc'[n] = pc[n] /\ click'[n] = click[n]
  BY ClickType
<1>3. InFlight' = InFlight \cup {m} /\ m \notin InFlight
  BY <1>1, <1>2 DEF InFlight
<1>4. Shown' = Toggled(Shown, click'[m])
  BY <1>2, BookmarkCacheAssumption DEF Shown
\* No uncrossed toggle has the bookmark that is clicked.
<1>5. ASSUME NEW n \in InFlight \ crossed'
      PROVE  n \in Toggles \ {m} /\ n \in InFlight \ crossed /\ click[n].opp # o
  BY <1>1, <1>3, <1>5, InFlightType DEF Rivals
<1>6. NoRivals'
  <2>1. SUFFICES ASSUME NEW n \in InFlight' \ crossed'
                 PROVE  Rivals(n, click[n].opp)' = {}
    BY DEF NoRivals
  <2>2. CASE n = m
    <3>1. Rivals(m, o) = {}
      BY <1>1, <2>1, <2>2
    <3>2. Rivals(m, click[m].opp)' = {}
      BY <1>2, <3>1 DEF Rivals
    <3>3. QED
      BY <2>2, <3>2
  <2>3. CASE n # m
    <3>1. n \in InFlight \ crossed'
      BY <1>3, <2>1, <2>3
    <3>2. n \in Toggles \ {m} /\ click[n].opp # o /\ Rivals(n, click[n].opp) = {}
      BY <1>5, <3>1 DEF Screen, NoRivals
    <3>3. QED
      BY <1>2, <3>2 DEF Rivals
  <2>4. QED
    BY <2>2, <2>3
<1>7. ServerAgrees'
  <2>1. SUFFICES ASSUME NEW n \in InFlight' \ crossed', pc'[n] # "sent"
                 PROVE  click'[n].by # None => Agrees(server[click'[n].by], click'[n])
    BY <1>1 DEF ServerAgrees
  <2>2. n \in InFlight \ crossed'
    BY <1>2, <1>3, <2>1
  <2>3. n \in Toggles \ {m} /\ n \in InFlight \ crossed
    BY <1>5, <2>2
  <2>4. QED
    BY <1>2, <2>1, <2>3 DEF Screen, ServerAgrees
<1>8. ClicksAreShown'
  <2>1. SUFFICES ASSUME NEW n \in InFlight' \ crossed'
                 PROVE  Agrees(Shown', click'[n])
    BY DEF ClicksAreShown, Agrees
  <2>2. CASE n = m
    BY <1>4, <2>2, ToggledAgrees
  <2>3. CASE n # m
    <3>1. n \in InFlight \ crossed'
      BY <1>3, <2>1, <2>3
    <3>2. /\ n \in Toggles \ {m} /\ click'[n] = click[n]
          /\ click[n].opp # click'[m].opp /\ Agrees(Shown, click[n])
      BY <1>2, <1>5, <3>1 DEF Screen, ClicksAreShown, Agrees
    <3>3. QED
      BY <1>4, <3>2, ToggledAgrees
  <2>4. QED
    BY <2>2, <2>3
<1>9. QED
  BY <1>1, <1>6, <1>7, <1>8 DEF Screen, AnswerAgrees

\* What a toggle changes on the server is no other uncrossed toggle's bookmark.
LEMMA ServerStepKeepsScreen ==
  ASSUME Types, Screen, NEW m \in Toggles, Apply(m) \/ ApplyLate(m)
  PROVE  Screen'
<1>1. /\ click[m] \in Clicks /\ click[m].by \in Users
      /\ server' = [server EXCEPT ![click[m].by] = Toggled(@, click[m])]
  BY ApplyType
<1>2. /\ UNCHANGED <<ids, fetch, crossed>>
      /\ \A n \in Toggles \ {m} : pc'[n] = pc[n] /\ click'[n] = click[n]
      /\ pc[m] \notin {"idle", "settled"}
      /\ pc[m] = "sent" => pc'[m] # "sent" /\ click'[m] = click[m]
      /\ pc[m] = "late" => pc'[m] = "settled"
      /\ pc[m] \in {"sent", "late"}
  BY OverType DEF Apply, ApplyLate, query, Types
<1>3. InFlight' = InFlight
  BY <1>2 DEF Apply, ApplyLate, InFlight, Over, Types
<1>4. \A n \in InFlight : click'[n] = click[n]
  BY <1>2, InFlightType
<1>5. AnswerAgrees' /\ ClicksAreShown'
  BY <1>2, <1>3, <1>4 DEF Screen, AnswerAgrees, ClicksAreShown, Shown
<1>6. NoRivals'
  <2>1. SUFFICES ASSUME NEW n \in InFlight \ crossed
                 PROVE  Rivals(n, click[n].opp)' = {}
    BY <1>2, <1>3 DEF NoRivals
  <2>2. Rivals(n, click[n].opp) = {} /\ click'[n] = click[n]
    BY <1>4 DEF Screen, NoRivals
  <2>3. QED
    BY <1>2, <2>2 DEF Rivals
<1>7. ServerAgrees'
  <2>1. SUFFICES ASSUME NEW n \in InFlight \ crossed, pc'[n] # "sent", click[n].by # None
                 PROVE  Agrees(server'[click[n].by], click[n])
    BY <1>2, <1>3, <1>4 DEF ServerAgrees
  <2>2. n \in Toggles /\ click[n] \in Clicks /\ click[n].by \in Users
    BY <2>1, InFlightType DEF Clicks
  <2>3. CASE n = m
    <3>1. server'[click[n].by] = Toggled(server[click[n].by], click[n])
      BY <1>1, <2>3 DEF Types
    <3>2. QED
      BY <3>1, ToggledAgrees
  <2>4. CASE n # m
    <3>1. Agrees(server[click[n].by], click[n])
      BY <1>2, <2>1, <2>2, <2>4 DEF Screen, ServerAgrees
    <3>2. click[m].opp # click[n].opp
      BY <1>2, <2>1, <2>4 DEF Screen, NoRivals, Rivals
    <3>3. CASE click[n].by = click[m].by
      <4>1. server'[click[n].by] = Toggled(server[click[n].by], click[m])
        BY <1>1, <3>3 DEF Types
      <4>2. QED
        BY <3>1, <3>2, <4>1, ToggledAgrees
    <3>4. CASE click[n].by # click[m].by
      BY <1>1, <2>2, <3>1, <3>4 DEF Types
    <3>5. QED
      BY <3>3, <3>4
  <2>5. QED
    BY <2>3, <2>4
<1>8. QED
  BY <1>5, <1>6, <1>7 DEF Screen

LEMMA SettleKeepsScreen ==
  ASSUME Types, Screen, NEW m \in Toggles, Succeed(m) \/ Refused(m) \/ Lost(m)
  PROVE  Screen'
<1>1. Settled /\ server' = server /\ m \in InFlight
  BY DEF Succeed, Refused, Lost, RollBack, InFlight
<1>2. /\ \A n \in Toggles \ {m} : pc'[n] = pc[n] /\ click'[n] = click[n]
      /\ pc'[m] = "settled" \/ pc'[m] = "late"
      /\ pc'[m] = "late" => click'[m] = click[m]
  BY OverType DEF Succeed, Refused, Lost, Types
<1>3. InFlight' = InFlight \ {m}
  BY <1>2 DEF InFlight
<1>4. fetch' = fetch \/ fetch'.answer = None
  BY <1>1, BeginType DEF Settled
<1>5. CASE Succeed(m)
  <2>1. ids' = ids /\ crossed' = crossed \ {m} /\ pc'[m] = "settled"
    BY <1>5, OverType DEF Succeed
  <2>2. \A n \in InFlight' \ crossed' : /\ n \in InFlight \ crossed /\ n \in Toggles \ {m}
                                       /\ pc'[n] = pc[n] /\ click'[n] = click[n]
    BY <1>2, <1>3, <2>1, InFlightType
  <2>3. AnswerAgrees' /\ ServerAgrees' /\ ClicksAreShown'
    BY <1>1, <1>4, <2>1, <2>2
       DEF Screen, AnswerAgrees, ServerAgrees, ClicksAreShown, Shown
  <2>4. NoRivals'
    <3>1. SUFFICES ASSUME NEW n \in InFlight' \ crossed'
                   PROVE  Rivals(n, click[n].opp)' = {}
      BY DEF NoRivals
    <3>2. Rivals(n, click[n].opp) = {} /\ click'[n] = click[n]
      BY <2>2, <3>1 DEF Screen, NoRivals
    <3>3. QED
      BY <1>2, <2>1, <3>2 DEF Rivals
  <2>5. QED
    BY <2>3, <2>4 DEF Screen
<1>6. CASE Refused(m) \/ Lost(m)
  <2>1. InFlight' \ crossed' = {}
    BY <1>3, <1>6 DEF Refused, Lost, RollBack
  <2>2. QED
    BY <2>1 DEF Screen, AnswerAgrees, ServerAgrees, NoRivals, ClicksAreShown
<1>7. QED
  BY <1>5, <1>6

LEMMA UnauthorizedKeepsScreen ==
  ASSUME Types, Screen, NEW m \in Toggles, Unauthorized(m)
  PROVE  Screen'
<1>1. /\ UNCHANGED <<ids, fetch, crossed, server, click>>
      /\ pc[m] = "sent" /\ pc'[m] = "refused" /\ click[m].by = None
      /\ \A n \in Toggles \ {m} : pc'[n] = pc[n]
  BY DEF Unauthorized, query, Types
<1>2. InFlight' = InFlight
  BY <1>1 DEF InFlight
<1>3. AnswerAgrees' /\ ServerAgrees' /\ ClicksAreShown'
  BY <1>1, <1>2, InFlightType
     DEF Screen, AnswerAgrees, ServerAgrees, ClicksAreShown, Shown
<1>4. NoRivals'
  BY <1>1, <1>2 DEF Screen, NoRivals, Rivals
<1>5. QED
  BY <1>3, <1>4 DEF Screen

-----------------------------------------------------------------------------
LEMMA InitHolds == Init => IInv
<1> SUFFICES ASSUME Init PROVE IInv
  OBVIOUS
<1>1. Types
  BY NoFetchType DEF Init, Types, Statuses
<1>2. Quiet
  BY NoFetchType DEF Init, Quiet, OldFetchesAreDropped, Fresh, QuietCacheIsServer
<1>3. InFlight = {}
  BY DEF Init, InFlight
<1>4. QED
  BY <1>1, <1>2, <1>3
     DEF IInv, Screen, AnswerAgrees, ServerAgrees, NoRivals, ClicksAreShown

LEMMA NextHolds == IInv /\ [Next]_vars => IInv'
<1> SUFFICES ASSUME IInv, [Next]_vars PROVE IInv'
  OBVIOUS
<1>1. Types' /\ Types /\ Quiet /\ Screen
  BY NextTypes DEF IInv
<1>2. CASE Mount \/ Hide \/ Collect \/ Read \/ Land \/ FetchFails \/ Age
  BY <1>1, <1>2, QueryStaysQuiet, QueryKeepsScreen DEF IInv
<1>3. CASE \E m \in Toggles :
             \/ \E o \in Opps : Click(m, o)
             \/ Apply(m) \/ ApplyLate(m) \/ Unauthorized(m)
             \/ Succeed(m) \/ Refused(m) \/ Lost(m)
  <2>1. PICK m \in Toggles :
             \/ \E o \in Opps : Click(m, o)
             \/ Apply(m) \/ ApplyLate(m) \/ Unauthorized(m)
             \/ Succeed(m) \/ Refused(m) \/ Lost(m)
    BY <1>3
  <2>2. Quiet'
    BY <1>1, <2>1, MutationsStayQuiet
  <2>3. Screen'
    BY <1>1, <2>1, ClickKeepsScreen, ServerStepKeepsScreen, SettleKeepsScreen,
       UnauthorizedKeepsScreen
  <2>4. QED
    BY <1>1, <2>2, <2>3 DEF IInv
<1>4. CASE SignOut \/ (\E u \in Users : SignIn(u)) \/ UNCHANGED vars
  <2>1. UNCHANGED <<server, query, mutations, crossed>>
    BY <1>4 DEF SignOut, SignIn, vars
  <2>2. InFlight' = InFlight
    BY <2>1 DEF InFlight, mutations
  <2>3. Quiet'
    BY <1>1, <2>1, <2>2 DEF query, Quiet, OldFetchesAreDropped, Fresh, QuietCacheIsServer
  <2>4. Screen'
    BY <1>1, <2>1, <2>2 DEF query, mutations, Screen, AnswerAgrees, ServerAgrees,
       NoRivals, Rivals, ClicksAreShown, Shown
  <2>5. QED
    BY <1>1, <2>3, <2>4 DEF IInv
<1>5. QED
  BY <1>2, <1>3, <1>4 DEF Next

\* What is under way is as the lemmas above say in every reachable state.
THEOREM Invariance == Spec => []IInv
  BY InitHolds, NextHolds, PTL DEF Spec

\* Once all toggles are settled and the fetch after the last is in, the buttons
\* show what the server has for the user it was fetched for, whatever was
\* refused, lost, rolled back or retried (use-bookmarks.ts 30-42); not so after a
\* request that was given up for lost and came late, nor after a toggle settled
\* without a mounted button, or without data, under a fetch answered before.
THEOREM QuietIsServer == Spec => []QuietCacheIsServer
<1>1. IInv => QuietCacheIsServer
  BY DEF IInv, Quiet
<1>2. QED
  BY <1>1, Invariance, PTL

\* A fetch under way was begun after every toggle in flight (use-bookmarks.ts
\* 29), and what was clicked stays shown until its toggle is settled, or until
\* it is crossed: by an answer asked for later but read before the server had
\* applied it, or for another user, by another's rollback, by a second click on
\* the same bookmark, or by the loss of the data.
THEOREM ClicksStay == Spec => []NoAnswerUndoesAClick
<1>1. IInv => NoAnswerUndoesAClick
  BY DEF IInv, Quiet, Screen, NoAnswerUndoesAClick
<1>2. QED
  BY <1>1, Invariance, PTL
=============================================================================
