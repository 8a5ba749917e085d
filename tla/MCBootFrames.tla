---------------------------- MODULE MCBootFrames ----------------------------
(***************************************************************************)
(* Pages of 4 bytes, huge pages of two pages, room for three ranges.       *)
(***************************************************************************)
EXTENDS BootFrames

Region(start, end, usable) == [start |-> start, end |-> end, usable |-> usable]

\* Regions out of order and not page-aligned, one too small for a page, one
\* reserved.
Scattered == <<Region(22, 36, TRUE), Region(36, 39, TRUE), Region(4, 17, TRUE),
               Region(17, 22, FALSE)>>

\* Two usable regions that touch.
Adjacent == <<Region(4, 12, TRUE), Region(12, 20, TRUE), Region(28, 36, TRUE)>>

\* More usable regions than the array has room for; a huge page cuts the first
\* one in two while the array is full.
TooMany == <<Region(4, 20, TRUE), Region(24, 28, TRUE), Region(32, 40, TRUE),
             Region(44, 48, TRUE)>>

MCMemoryMaps == {Scattered, Adjacent, TooMany}
=============================================================================
