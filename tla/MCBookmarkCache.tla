--------------------------- MODULE MCBookmarkCache ---------------------------
(***************************************************************************)
(* Instance of BookmarkCache for TLC: two users of one tab, two bookmarks, *)
(* overlapping toggles.                                                    *)
(***************************************************************************)
EXTENDS BookmarkCache, TLC

Symmetric == Permutations(Users) \cup Permutations(Opps) \cup Permutations(Toggles)
=============================================================================
