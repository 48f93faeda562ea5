--------------------------- MODULE BookmarkPromise ---------------------------
(***************************************************************************)
(* What POST and DELETE /bookmarks promise, however requests overlap.  An  *)
(* add saves the pair, at one moment or not at all.  A remove takes the    *)
(* pair away at one moment, or there was a moment while it ran at which    *)
(* the pair was not saved.  Nothing else changes what a user saved, except *)
(* that closing the account empties it.                                    *)
(***************************************************************************)
VARIABLES
  wants,      \* of each request: [kind |-> "add", "remove" or "other",
              \*                   pair |-> <<user, opportunity>> or none]
  saved,      \* the pairs that are bookmarked
  outcome,    \* of each request: "open", "done", "failed"
  lacked      \* open removes whose pair was seen missing

Callers == DOMAIN wants

Init ==
  /\ saved = {}
  /\ outcome = [r \in Callers |-> "open"]
  /\ lacked = {}

Settle(S, how) ==
  /\ \A r \in S : wants[r].kind # "other" /\ outcome[r] = "open"
  /\ outcome' = [r \in Callers |-> IF r \in S THEN how ELSE outcome[r]]

Add(r) ==
  /\ wants[r].kind = "add"
  /\ Settle({r}, "done")
  /\ saved' = saved \cup {wants[r].pair}

Remove(r) ==
  /\ wants[r].kind = "remove"
  /\ Settle({r}, "done")
  /\ saved' = saved \ {wants[r].pair}

Miss(r) ==
  /\ r \in lacked
  /\ Settle({r}, "done")
  /\ UNCHANGED saved

Fail(S) ==
  /\ Settle(S, "failed")
  /\ UNCHANGED saved

Close ==
  /\ \E p \in saved : saved' = {q \in saved : q[1] # p[1]}
  /\ UNCHANGED outcome

\* Removes may see that their pair is missing, and stop caring once settled.
Watch ==
  /\ \A r \in lacked' \ lacked : wants[r].pair \notin saved'
  /\ \A r \in lacked \ lacked' : outcome'[r] # "open"

Next ==
  /\ \/ \E r \in Callers : Add(r) \/ Remove(r) \/ Miss(r)
     \/ \E S \in SUBSET Callers : Fail(S)
     \/ Close
  /\ Watch
  /\ UNCHANGED wants

Spec == Init /\ [][Next]_<<wants, saved, outcome, lacked>>
==============================================================================
