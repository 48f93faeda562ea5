---------------------------- MODULE BookmarkCache ----------------------------
(***************************************************************************)
(* The bookmark buttons of a browser tab (use-bookmarks.ts): the query of  *)
(* bookmarked ids in TanStack Query's cache, and toggles that change it    *)
(* before the server has answered, put it back on an error, and fetch it   *)
(* anew when they are settled, several of them at a time.  The cache is    *)
(* that of the layout: it outlives the page the buttons were on.           *)
(*                                                                         *)
(* onMutate, and the callbacks of an answer, run without waiting for       *)
(* anything but resolved promises: each is one step.  The server saves and *)
(* takes away bookmarks as module UserData says; here that is one step     *)
(* between a request and its answer, and either of these may be lost.      *)
(***************************************************************************)
EXTENDS Naturals, FiniteSets

CONSTANTS
  Users, Opps,
  Toggles,      \* clicks
  MaxFailures,  \* bound on lost requests and answers
  None

ASSUME BookmarkCacheAssumption ==
  /\ MaxFailures \in Nat
  /\ None \notin Users
  /\ \A S \in SUBSET Opps : S # None

VARIABLES
  session,  \* who is signed in
  active,   \* some button is mounted, and was rendered for someone signed in
  server,   \* user |-> what is bookmarked
  \* the query
  ids,      \* its data
  stale,    \* invalidated, or older than staleTime
  owner,    \* whose answer the data goes back to
  fetch,    \* the request for it that is under way
  \* the mutations
  pc,
  click,    \* who wants which one to be bookmarked, or not to be
  previous, \* the snapshot to go back to
  \* history
  unheard,  \* toggles in flight when the fetch was begun
  missed,   \* the server changed, or may have, and no fetch was begun since
  crossed,  \* toggles in flight whose click something else may take back
  failures

query     == <<ids, stale, owner, fetch, unheard, missed>>
mutations == <<pc, click, previous>>
vars      == <<session, active, server, query, mutations, crossed, failures>>

\* Operators named Mutant... are not the code: each is a plausible mistake in
\* the definition after it, which the properties must be able to tell from it.

Shown == IF ids = None THEN {} ELSE ids

InFlight == {m \in Toggles : pc[m] \in {"sent", "done", "refused"}}

NoFetch == [by |-> None, answer |-> None, try |-> 0]

\* api-client.ts takes the token of the session.
Begin ==
  /\ fetch' = [by |-> session, answer |-> None, try |-> 1]
  /\ unheard' = InFlight
  /\ missed' = FALSE

Toggled(set, c) == IF c.adds THEN set \cup {c.opp} ELSE set \ {c.opp}

\* The other toggles of a bookmark that the server may yet have to apply.
Rivals(m, o) ==
  {n \in Toggles \ {m} : pc[n] \notin {"idle", "settled"} /\ click[n].opp = o}

Crosses(toggles) == crossed' = crossed \cup toggles

-----------------------------------------------------------------------------
Init ==
  /\ session \in Users
  /\ active = FALSE
  /\ server \in [Users -> SUBSET Opps]
  /\ ids = None /\ stale = TRUE /\ owner = None
  /\ fetch = NoFetch /\ unheard = {} /\ missed = FALSE
  /\ pc = [m \in Toggles |-> "idle"]
  /\ click = [m \in Toggles |-> None]
  /\ previous = [m \in Toggles |-> {}]
  /\ crossed = {}
  /\ failures = 0

FailsNow == failures < MaxFailures /\ failures' = failures + 1

-----------------------------------------------------------------------------
(* The query                                                               *)

\* An enabled button appears, or the network is back: stale data is fetched.
\* A page may have been rendered before the sign-out.
Mount ==
  /\ active' = TRUE
  /\ IF stale /\ fetch = NoFetch THEN Begin ELSE UNCHANGED <<fetch, unheard, missed>>
  /\ UNCHANGED <<session, server, ids, stale, owner, mutations, crossed, failures>>

\* The page is left.  getBookmarkIds takes no abort signal: a fetch goes on.
Hide ==
  /\ active /\ active' = FALSE
  /\ UNCHANGED <<session, server, query, mutations, crossed, failures>>

\* Data nobody shows is thrown away in the end, unless it is being fetched.
Collect ==
  /\ ~active /\ fetch = NoFetch /\ ids # None
  /\ ids' = None /\ stale' = TRUE /\ owner' = None
  /\ Crosses(InFlight)
  /\ UNCHANGED <<session, active, server, fetch, unheard, missed, mutations, failures>>

\* list_bookmark_ids reads, perhaps before a toggle under way is applied.
Read ==
  /\ fetch # NoFetch /\ fetch.answer = None /\ fetch.by # None
  /\ fetch' = [fetch EXCEPT !.answer = server[fetch.by]]
  /\ Crosses({m \in InFlight : pc[m] = "sent" \/ click[m].by # fetch.by})
  /\ UNCHANGED <<session, active, server, ids, stale, owner, unheard, missed,
                 mutations, failures>>

Land ==
  /\ fetch # NoFetch /\ fetch.answer # None
  /\ ids' = fetch.answer
  /\ stale' = FALSE
  /\ owner' = fetch.by
  /\ fetch' = NoFetch /\ unheard' = {}
  /\ UNCHANGED <<session, active, server, missed, mutations, crossed, failures>>

\* retry: 1.  When the last button goes, a retry still to come is called off,
\* unless a button without a session keeps it.
GivesUp ==
  /\ fetch.try > 1 \/ ~active
  /\ fetch' = NoFetch /\ stale' = TRUE /\ unheard' = {}

\* A try stands here for its failure and for the wait before the next one.
TriesAgain ==
  /\ fetch.try = 1
  /\ fetch' = [by |-> session, answer |-> None, try |-> 2]
  /\ UNCHANGED <<stale, unheard>>

\* The last failure leaves the data, as invalidated.  Without a session the
\* server answers 401, which is retried like any other.
FetchFails ==
  /\ fetch # NoFetch
  /\ \/ FailsNow
     \/ fetch.by = None /\ UNCHANGED failures
  /\ GivesUp \/ TriesAgain
  /\ UNCHANGED <<session, active, server, ids, owner, missed, mutations, crossed>>

Age ==
  /\ ids # None /\ ~stale
  /\ stale' = TRUE
  /\ UNCHANGED <<session, active, server, ids, owner, fetch, unheard, missed,
                 mutations, crossed, failures>>

-----------------------------------------------------------------------------
(* The mutations                                                           *)

MutantCancel == UNCHANGED <<fetch, unheard>>
\* The result of a fetch under way will be ignored.
Cancel == fetch' = NoFetch /\ unheard' = {}

\* handleClick, onMutate and the request: the opposite of what is shown.
Click(m, o) ==
  /\ pc[m] = "idle" /\ active
  /\ LET c == [by |-> session, opp |-> o, adds |-> o \notin Shown]
     IN /\ click' = [click EXCEPT ![m] = c]
        /\ ids' = Toggled(Shown, c)
  /\ previous' = [previous EXCEPT ![m] = Shown]
  /\ stale' = FALSE
  /\ Cancel
  /\ pc' = [pc EXCEPT ![m] = "sent"]
  /\ Crosses(IF Rivals(m, o) = {} THEN {} ELSE {m} \cup (Rivals(m, o) \cap InFlight))
  /\ UNCHANGED <<session, active, server, owner, missed, failures>>

\* Nothing looks at a settled toggle again.
Over(m) ==
  /\ pc' = [pc EXCEPT ![m] = "settled"]
  /\ click' = [click EXCEPT ![m] = None]
  /\ previous' = [previous EXCEPT ![m] = {}]

\* The server saves what is not saved, and takes away what is.
Apply(m) ==
  /\ pc[m] = "sent" /\ click[m].by # None
  /\ LET c == click[m]
     IN /\ server' = [server EXCEPT ![c.by] = Toggled(@, c)]
        /\ pc' = [pc EXCEPT ![m] =
                    IF c.adds \/ c.opp \in server[c.by] THEN "done" ELSE "refused"]
  /\ UNCHANGED <<session, active, query, click, previous, crossed, failures>>

\* A request given up for lost comes to the server after all.
ApplyLate(m) ==
  /\ pc[m] = "late"
  /\ server' = [server EXCEPT ![click[m].by] = Toggled(@, click[m])]
  /\ missed' = TRUE
  /\ Over(m)
  /\ UNCHANGED <<session, active, ids, stale, owner, fetch, unheard, crossed, failures>>

\* Without a session the server answers 401.
Unauthorized(m) ==
  /\ pc[m] = "sent" /\ click[m].by = None
  /\ pc' = [pc EXCEPT ![m] = "refused"]
  /\ UNCHANGED <<session, active, server, query, click, previous, crossed, failures>>

MutantSettled ==
  /\ stale' = TRUE
  /\ IF active /\ fetch = NoFetch THEN Begin
     ELSE /\ missed' = (missed \/ (~active /\ fetch.answer # None))
          /\ UNCHANGED <<fetch, unheard>>
\* onSettled invalidates.  While a button is mounted a fetch under way is
\* dropped for a new one, if there is data.  Otherwise the data is marked, no
\* more: a fetch under way goes on, and will take the mark away.
Settled ==
  /\ stale' = TRUE
  /\ IF active /\ (fetch = NoFetch \/ ids' # None) THEN Begin
     ELSE /\ missed' = (missed \/ fetch.answer # None)
          /\ UNCHANGED <<fetch, unheard>>

Succeed(m) ==
  /\ pc[m] = "done"
  /\ ids' = ids
  /\ Settled
  /\ Over(m)
  /\ crossed' = crossed \ {m}
  /\ UNCHANGED <<session, active, server, owner, failures>>

\* onError puts the snapshot back, and with it what others have changed since.
RollBack(m) == ids' = previous[m] /\ Settled /\ crossed' = InFlight \ {m}

Refused(m) ==
  /\ pc[m] = "refused"
  /\ RollBack(m)
  /\ Over(m)
  /\ UNCHANGED <<session, active, server, owner, failures>>

\* The request, or the answer, is lost; a request may come to the server late.
Lost(m) ==
  /\ pc[m] \in {"sent", "done"}
  /\ FailsNow
  /\ RollBack(m)
  /\ \/ Over(m)
     \/ /\ pc[m] = "sent" /\ click[m].by # None
        /\ pc' = [pc EXCEPT ![m] = "late"]
        /\ previous' = [previous EXCEPT ![m] = {}]
        /\ UNCHANGED click
  /\ UNCHANGED <<session, active, server, owner>>

-----------------------------------------------------------------------------
(* user-menu.tsx and auth-form.tsx, in this tab or another: the cookies are *)
(* shared.  The tab stays, and with it the cache.                           *)

SignOut ==
  /\ session # None
  /\ session' = None
  /\ UNCHANGED <<active, server, query, mutations, crossed, failures>>

SignIn(u) ==
  /\ session = None
  /\ session' = u
  /\ UNCHANGED <<active, server, query, mutations, crossed, failures>>

Next ==
  \/ Mount \/ Hide \/ Collect \/ Read \/ Land \/ FetchFails \/ Age
  \/ \E m \in Toggles :
       \/ \E o \in Opps : Click(m, o)
       \/ Apply(m) \/ ApplyLate(m) \/ Unauthorized(m) \/ Succeed(m) \/ Refused(m) \/ Lost(m)
  \/ SignOut \/ \E u \in Users : SignIn(u)

Spec == Init /\ [][Next]_vars

-----------------------------------------------------------------------------
(* Properties                                                              *)

\* Whatever toggles overlapped, were refused or got lost, and whatever their
\* rollbacks brought back: once all are settled and the fetch after the last is
\* in, the buttons show what the server has for the user it was fetched for
\* (use-bookmarks.ts 30-42).  Outside it, as missed says: a request given up for
\* lost that came to the server after all, which nothing tells the tab of, and a
\* toggle settled while no button was mounted (or the data was gone) and an older
\* fetch had been answered already, which lands and passes for fresh.
QuietCacheIsServer ==
  InFlight = {} /\ fetch = NoFetch /\ ~stale /\ ~missed =>
    ids = server[owner]

OldFetchesAreDropped == fetch # NoFetch => InFlight \subseteq unheard

ClicksAreShown ==
  \A m \in InFlight \ crossed : click[m].opp \in Shown <=> click[m].adds

\* A click is not undone on the screen by an answer asked for before it
\* (use-bookmarks.ts 29): a fetch under way was begun after every toggle still in
\* flight.  So what was clicked stays shown until its toggle is settled, unless
\* an answer asked for later was read before the server had applied it, or for
\* another user, another toggle was rolled back over it, the same bookmark was
\* clicked again, or the data was thrown away: these, and nothing else, are in
\* crossed.
NoAnswerUndoesAClick == OldFetchesAreDropped /\ ClicksAreShown
==============================================================================
