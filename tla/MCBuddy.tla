------------------------------ MODULE MCBuddy ------------------------------
(***************************************************************************)
(* Three orders over eight pages. Page 6 is not usable memory, so page 7   *)
(* can never merge; frame 8 lies beyond the bitmap.                        *)
(***************************************************************************)
EXTENDS Buddy

MCFrames == {0, 1, 2, 3, 4, 5, 7, 8}
=============================================================================
