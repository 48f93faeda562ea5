--------------------------- MODULE ReminderPromise ---------------------------
(***************************************************************************)
(* What deadline reminders promise a user: for a bookmarked opportunity    *)
(* and an event (a week ahead, a day ahead) there is at most one           *)
(* notification, ever; it appears unread, is read at most once, and only   *)
(* disappears with its user's account.  A run's notifications all appear   *)
(* at once or not at all.                                                  *)
(***************************************************************************)
CONSTANTS Users, Opportunities, Events

VARIABLE status

Keys == Users \X Opportunities \X Events

Init == status = [k \in Keys |-> "none"]

\* A run delivers the notifications of K.
Deliver ==
  \E K \in SUBSET Keys :
    /\ \A k \in K : status[k] = "none"
    /\ status' = [k \in Keys |-> IF k \in K THEN "unread" ELSE status[k]]

\* A user reads some of their notifications.
Read ==
  \E u \in Users : \E K \in SUBSET Keys :
    /\ \A k \in K : k[1] = u /\ status[k] \in {"unread", "read"}
    /\ status' = [k \in Keys |-> IF k \in K THEN "read" ELSE status[k]]

\* A user's account goes, and everything in it.
Erase ==
  \E u \in Users :
    status' = [k \in Keys |-> IF k[1] = u THEN "erased" ELSE status[k]]

Next == Deliver \/ Read \/ Erase

Spec == Init /\ [][Next]_status
==============================================================================
