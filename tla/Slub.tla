-------------------------------- MODULE Slub --------------------------------
(***************************************************************************)
(* SCache (kernel/src/mm/slub.rs): caches of equal-sized objects, carved   *)
(* out of pages. The header of a slab is what the code writes at the start *)
(* of its page: next_slab, freelist, in_use. A freelist is the sequence of *)
(* the slots linked through FreeObject::next; the partial list is linked   *)
(* through next_slab as in the code. The page provider is external: it     *)
(* gives out pages and takes them back.                                    *)
(***************************************************************************)
EXTENDS Integers, FiniteSets, Sequences, Functions

CONSTANTS
  PAGE_SIZE,    \* 4096 in the code
  HEADER_SIZE,  \* size_of::<SlabHeader>(), 24
  Sizes,        \* object sizes, one cache each; 16 .. 2048 in the code
  Pages,        \* the provider's pages
  None          \* Option::None

ASSUME SlabAssumption ==
  /\ PAGE_SIZE \in Nat /\ HEADER_SIZE \in Nat
  /\ Sizes \subseteq Nat \ {0}
  /\ IsFiniteSet(Pages) /\ None \notin Pages

VARIABLES
  partial,     \* size -> first slab of the cache's partial list
  next_slab,   \* page -> header field
  freelist,    \* page -> free slots, in list order
  in_use,      \* page -> header field
  free_pages,  \* pages the provider can give
  live         \* ghost: <<size, page, slot>> the callers hold

slab_vars == <<partial, next_slab, freelist, in_use, free_pages, live>>

IsPowerOfTwo(n) == \E k \in 0 .. 12 : n = 2^k

ObjectStart_NotAligned(size) == HEADER_SIZE

\* The header, rounded up to the object size (to 8 if that is no power of 2).
ObjectStart(size) ==
  LET align == IF IsPowerOfTwo(size) THEN size ELSE 8
  IN  ((HEADER_SIZE + align - 1) \div align) * align

Capacity(size) ==
  IF ObjectStart(size) >= PAGE_SIZE THEN 0
  ELSE (PAGE_SIZE - ObjectStart(size)) \div size

\* Offset of a slot in its page.
SlotOffset(size, slot) == ObjectStart(size) + (slot - 1) * size

\* The first slab with a free slot that n links from q lead to: slabs without
\* one are dropped.
RoomWithin[n \in 0 .. Cardinality(Pages)] ==
  [q \in Pages \union {None} |->
     IF q = None \/ n = 0 THEN None
     ELSE IF freelist[q] # <<>> THEN q ELSE RoomWithin[n - 1][next_slab[q]]]

WithRoom(p) == RoomWithin[Cardinality(Pages)][p]

\* The pages that n links from q lead to.
ListWithin[n \in 0 .. Cardinality(Pages)] ==
  [q \in Pages \union {None} |->
     IF q = None \/ n = 0 THEN <<>> ELSE <<q>> \o ListWithin[n - 1][next_slab[q]]]

\* The pages on the list that starts at p.
ListFrom(p) == ListWithin[Cardinality(Pages)][p]

\* The effect of remove_slab_from_partial on the head and on the links.
head_without(p, head) == IF head = p THEN next_slab[p] ELSE head

links_without(p, head) ==
  LET list == ListFrom(head)
  IN  [q \in Pages |->
         IF q \in Range(list) /\ p # head /\ next_slab[q] = p
         THEN next_slab[p] ELSE next_slab[q]]
-----------------------------------------------------------------------------
SlabInit ==
  /\ partial = [s \in Sizes |-> None]
  /\ next_slab = [p \in Pages |-> None]
  /\ freelist = [p \in Pages |-> <<>>]
  /\ in_use = [p \in Pages |-> 0]
  /\ free_pages = {}
  /\ live = {}

\* alloc from the first partial slab; a slab that is now full leaves the list.
AllocPartial(size) ==
  LET p == WithRoom(partial[size])
  IN  /\ p # None
      /\ freelist' = [freelist EXCEPT ![p] = Tail(@)]
      /\ in_use' = [in_use EXCEPT ![p] = @ + 1]
      /\ IF Tail(freelist[p]) = <<>>
         THEN /\ partial' = [partial EXCEPT ![size] = next_slab[p]]
              /\ next_slab' = [next_slab EXCEPT ![p] = None]
         ELSE /\ partial' = [partial EXCEPT ![size] = p]
              /\ UNCHANGED next_slab
      /\ live' = live \union {<<size, p, Head(freelist[p])>>}
      /\ UNCHANGED free_pages

AllocNew_FirstSlotStaysFree(size) ==
  /\ WithRoom(partial[size]) = None
  /\ \E p \in free_pages :
       /\ free_pages' = free_pages \ {p}
       /\ freelist' = [freelist EXCEPT ![p] = [i \in 1 .. Capacity(size) |-> i]]
       /\ in_use' = [in_use EXCEPT ![p] = 1]
       /\ next_slab' = [next_slab EXCEPT ![p] = None]
       /\ partial' = [partial EXCEPT ![size] = p]
       /\ live' = live \union {<<size, p, 1>>}

\* alloc from a new page: slot 1 is taken, the others are linked in order. A
\* page that holds no object is not given back.
AllocNew(size) ==
  /\ WithRoom(partial[size]) = None
  /\ \E p \in free_pages :
       /\ free_pages' = free_pages \ {p}
       /\ IF Capacity(size) = 0
          THEN /\ partial' = [partial EXCEPT ![size] = None]
               /\ UNCHANGED <<next_slab, freelist, in_use, live>>
          ELSE /\ freelist' = [freelist EXCEPT ![p] = [i \in 1 .. Capacity(size) - 1 |-> i + 1]]
               /\ in_use' = [in_use EXCEPT ![p] = 1]
               /\ next_slab' = [next_slab EXCEPT ![p] = None]
               /\ partial' = [partial EXCEPT ![size] = IF Capacity(size) > 1 THEN p ELSE None]
               /\ live' = live \union {<<size, p, 1>>}

\* The provider has no page: None.
AllocFail(size) ==
  /\ WithRoom(partial[size]) = None
  /\ free_pages = {}
  /\ partial' = [partial EXCEPT ![size] = None]
  /\ UNCHANGED <<next_slab, freelist, in_use, free_pages, live>>

SlabDealloc_AlwaysLink(size, p, slot) ==
  /\ <<size, p, slot>> \in live
  /\ live' = live \ {<<size, p, slot>>}
  /\ freelist' = [freelist EXCEPT ![p] = <<slot>> \o @]
  /\ in_use' = [in_use EXCEPT ![p] = @ - 1]
  /\ IF in_use[p] = 1
     THEN /\ partial' = [partial EXCEPT ![size] = head_without(p, @)]
          /\ next_slab' = links_without(p, partial[size])
          /\ free_pages' = free_pages \union {p}
     ELSE /\ next_slab' = [next_slab EXCEPT ![p] = partial[size]]
          /\ partial' = [partial EXCEPT ![size] = p]
          /\ UNCHANGED free_pages

SlabDealloc_PageKept(size, p, slot) ==
  /\ <<size, p, slot>> \in live
  /\ live' = live \ {<<size, p, slot>>}
  /\ freelist' = [freelist EXCEPT ![p] = <<slot>> \o @]
  /\ in_use' = [in_use EXCEPT ![p] = @ - 1]
  /\ IF freelist[p] = <<>>
     THEN /\ next_slab' = [next_slab EXCEPT ![p] = partial[size]]
          /\ partial' = [partial EXCEPT ![size] = p]
     ELSE UNCHANGED <<next_slab, partial>>
  /\ UNCHANGED free_pages

\* dealloc of a slot the caller holds.
SlabDealloc(size, p, slot) ==
  /\ <<size, p, slot>> \in live
  /\ live' = live \ {<<size, p, slot>>}
  /\ freelist' = [freelist EXCEPT ![p] = <<slot>> \o @]
  /\ in_use' = [in_use EXCEPT ![p] = @ - 1]
  /\ IF in_use[p] = 1
     THEN /\ partial' = [partial EXCEPT ![size] = head_without(p, @)]
          /\ next_slab' = links_without(p, partial[size])
          /\ free_pages' = free_pages \union {p}
     ELSE /\ IF freelist[p] = <<>>
             THEN /\ next_slab' = [next_slab EXCEPT ![p] = partial[size]]
                  /\ partial' = [partial EXCEPT ![size] = p]
             ELSE UNCHANGED <<next_slab, partial>>
          /\ UNCHANGED free_pages
=============================================================================
