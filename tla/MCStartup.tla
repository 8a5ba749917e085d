----------------------------- MODULE MCStartup ------------------------------
(***************************************************************************)
(* Two usable regions of two pages each around a reserved one; a back      *)
(* buffer that fits a page, one that needs two, and one of three, which no *)
(* run can hold; two page tables. The last page is beyond the range of the *)
(* buddy allocator.                                                        *)
(***************************************************************************)
EXTENDS Startup

Region(first, last, usable) ==
  [start |-> first * PAGE_SIZE, end |-> last * PAGE_SIZE, usable |-> usable]

MCMemoryMaps == {<<Region(0, 2, TRUE), Region(2, 3, FALSE), Region(3, 5, TRUE)>>}

Mode(width, height, stride) == [width |-> width, height |-> height, stride |-> stride]

MCModes == {Mode(30, 32, 32), Mode(40, 30, 41), Mode(60, 40, 64)}

MCPages == {PAGE_SIZE * n : n \in 0 .. 4}
=============================================================================
