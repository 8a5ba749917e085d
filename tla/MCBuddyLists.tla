--------------------------- MODULE MCBuddyLists ---------------------------
(***************************************************************************)
(* Three orders over eight pages. Lists of several blocks in every order   *)
(* they can be linked in; page 6 is not usable, frame 8 is beyond the      *)
(* bitmap.                                                                 *)
(***************************************************************************)
EXTENDS BuddyLists

MCFrames == {0, 1, 2, 3, 4, 7, 8}
=============================================================================
