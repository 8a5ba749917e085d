------------------------------- MODULE MCHeap -------------------------------
(***************************************************************************)
(* The real page, header and object sizes of the two largest caches: three *)
(* objects per slab, and one. Requests for each of them, for a page, and   *)
(* for more than a page. A fourth page lies beyond the buddy allocator's   *)
(* range; the other three are interchangeable.                             *)
(***************************************************************************)
EXTENDS Heap, TLC

MCLayoutSizes == {1000, 2048, 4096, 4097}

Symmetry == Permutations(Managed)
=============================================================================
