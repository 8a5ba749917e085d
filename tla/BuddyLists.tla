----------------------------- MODULE BuddyLists -----------------------------
(***************************************************************************)
(* BuddyAllocator with its data structures as they are in memory: the head *)
(* of every free list, the FreeFrame {next, prev} the allocator writes     *)
(* into the first bytes of a free block, and the bitmap as one array       *)
(* shared by all orders. The control is that of module Buddy, which this   *)
(* module implements (Refinement).                                         *)
(*                                                                         *)
(* A frame outside the lists may hold anything: frames start as Junk and   *)
(* the caller overwrites every page it is given.                           *)
(***************************************************************************)
EXTENDS Integers

CONSTANTS MAX_ORDER, MAX_PAGES, Frames,
          None,  \* Option::None
          Junk   \* bytes that are no pointer

\* Every order has a whole number of pairs.
ASSUME BitmapAssumption ==
  /\ MAX_ORDER \in Nat \ {0}
  /\ MAX_PAGES \in Nat \ {0}
  /\ Frames \subseteq Nat
  /\ MAX_PAGES % 2^(MAX_ORDER - 1) = 0

\* None and Junk are no pages.
ASSUME PointerAssumption ==
  None # Junk /\ None \notin 0 .. MAX_PAGES - 1 /\ Junk \notin 0 .. MAX_PAGES - 1

\* What the proofs need to know of powers of two.
ASSUME PowersOfTwo ==
  /\ 2^0 = 1
  /\ \A o \in 0 .. MAX_ORDER : 2^o \in Nat \ {0} /\ 2^(o + 1) = 2 * 2^o

VARIABLES
  free_lists,  \* order -> head of its list
  next, prev,  \* the FreeFrame at every page
  bitmap,      \* BITMAP_STORAGE, bit by bit
  op, ptr, order, want, used, fed  \* as in Buddy

vars == <<free_lists, next, prev, bitmap, op, ptr, order, want, used, fed>>

Orders == 0 .. MAX_ORDER - 1
Pages  == 0 .. MAX_PAGES - 1

\* Where the bits of an order start: the sum of the sizes of the lower orders.
order_offset[o \in 0 .. MAX_ORDER] ==
  IF o = 0 THEN 0 ELSE order_offset[o - 1] + MAX_PAGES \div 2^o

get_bit_index_OffsetShort(p, o) ==
  (IF o = 0 THEN 0 ELSE order_offset[o] - 1) + p \div 2^(o + 1)

get_bit_index(p, o) == order_offset[o] + p \div 2^(o + 1)

toggled(p, o) == [bitmap EXCEPT ![get_bit_index(p, o)] = ~@]

\* The new value toggle_bit returns.
toggles_to(p, o) == ~bitmap[get_bit_index(p, o)]

\* XOR with the block size.
calculate_buddy_address(p, o) ==
  IF (p \div 2^o) % 2 = 0 THEN p + 2^o ELSE p - 2^o

\* f with v written at x, where x is None if there is nothing to write to.
Put(f, x, v) == [y \in DOMAIN f |-> IF y = x THEN v ELSE f[y]]

push_free_NoBackLink(p, o) ==
  /\ next' = Put(next, p, free_lists[o])
  /\ prev' = Put(prev, p, None)
  /\ free_lists' = [free_lists EXCEPT ![o] = p]

push_free(p, o) ==
  /\ next' = Put(next, p, free_lists[o])
  /\ prev' = Put(Put(prev, p, None), free_lists[o], p)
  /\ free_lists' = [free_lists EXCEPT ![o] = p]

remove_frame(p, o) ==
  /\ next' = Put(Put(next, prev[p], next[p]), p, None)
  /\ prev' = Put(Put(prev, next[p], prev[p]), p, None)
  /\ free_lists' = IF prev[p] = None THEN [free_lists EXCEPT ![o] = next[p]]
                                     ELSE free_lists

InRange(p) == p < MAX_PAGES

Return == op' = "idle" /\ ptr' = 0 /\ order' = 0 /\ want' = 0

Call(o, p, k, w) == op' = o /\ ptr' = p /\ order' = k /\ want' = w

lists == <<free_lists, next, prev>>
-----------------------------------------------------------------------------
Init ==
  /\ free_lists = [o \in Orders |-> None]
  /\ next = [p \in Pages |-> Junk]
  /\ prev = [p \in Pages |-> Junk]
  /\ bitmap = [i \in Pages |-> FALSE]
  /\ op = "idle" /\ ptr = 0 /\ order = 0 /\ want = 0
  /\ used = {} /\ fed = {}

Alloc(o) ==
  /\ op = "idle"
  /\ Call("alloc", 0, o, o)
  /\ UNCHANGED <<lists, bitmap, used, fed>>

AllocNone ==
  /\ op = "alloc"
  /\ order >= MAX_ORDER
  /\ Return
  /\ UNCHANGED <<lists, bitmap, used, fed>>

AllocSearch ==
  /\ op = "alloc"
  /\ order < MAX_ORDER
  /\ free_lists[order] = None
  /\ Call("alloc", 0, order + 1, want)
  /\ UNCHANGED <<lists, bitmap, used, fed>>

\* The head of the list.
AllocTake ==
  /\ op = "alloc"
  /\ order < MAX_ORDER
  /\ free_lists[order] # None
  /\ remove_frame(free_lists[order], order)
  /\ bitmap' = IF order < MAX_ORDER - 1 THEN toggled(free_lists[order], order)
                                        ELSE bitmap
  /\ Call("split", free_lists[order], order, want)
  /\ UNCHANGED <<used, fed>>

AllocSplit ==
  /\ op = "split"
  /\ order > want
  /\ bitmap' = toggled(ptr, order - 1)
  /\ push_free(calculate_buddy_address(ptr, order - 1), order - 1)
  /\ Call("split", ptr, order - 1, want)
  /\ UNCHANGED <<used, fed>>

\* From here on the caller writes what it likes into the block.
AllocReturn ==
  /\ op = "split"
  /\ order = want
  /\ used' = used \union {<<ptr, order>>}
  /\ LET Given == ptr .. ptr + 2^order - 1
     IN  /\ next' = [p \in Pages |-> IF p \in Given THEN Junk ELSE next[p]]
         /\ prev' = [p \in Pages |-> IF p \in Given THEN Junk ELSE prev[p]]
  /\ Return
  /\ UNCHANGED <<free_lists, bitmap, fed>>

Dealloc(p, o) ==
  /\ op = "idle"
  /\ <<p, o>> \in used
  /\ used' = used \ {<<p, o>>}
  /\ Call("dealloc", p, o, 0)
  /\ UNCHANGED <<lists, bitmap, fed>>

\* "we can't merge further"
DeallocTop ==
  /\ op = "dealloc"
  /\ InRange(ptr)
  /\ order >= MAX_ORDER - 1
  /\ push_free(ptr, order)
  /\ Return
  /\ UNCHANGED <<bitmap, used, fed>>

DeallocKeep ==
  /\ op = "dealloc"
  /\ InRange(ptr)
  /\ order < MAX_ORDER - 1
  /\ toggles_to(ptr, order)
  /\ bitmap' = toggled(ptr, order)
  /\ push_free(ptr, order)
  /\ Return
  /\ UNCHANGED <<used, fed>>

DeallocMerge ==
  /\ op = "dealloc"
  /\ InRange(ptr)
  /\ order < MAX_ORDER - 1
  /\ ~toggles_to(ptr, order)
  /\ bitmap' = toggled(ptr, order)
  /\ LET buddy == calculate_buddy_address(ptr, order)
     IN  /\ remove_frame(buddy, order)
         /\ Call("dealloc", IF ptr < buddy THEN ptr ELSE buddy, order + 1, 0)
  /\ UNCHANGED <<used, fed>>

AddFrame(f) ==
  /\ op = "idle"
  /\ f \notin fed
  /\ fed' = fed \union {f}
  /\ IF InRange(f) THEN Call("dealloc", f, 0, 0)
                   ELSE UNCHANGED <<op, ptr, order, want>>
  /\ UNCHANGED <<lists, bitmap, used>>

Step ==
  \/ AllocNone \/ AllocSearch \/ AllocTake \/ AllocSplit \/ AllocReturn
  \/ DeallocTop \/ DeallocKeep \/ DeallocMerge

Next ==
  \/ \E f \in Frames : AddFrame(f)
  \/ \E o \in 0 .. MAX_ORDER : Alloc(o)
  \/ \E p \in Pages, o \in Orders : Dealloc(p, o)
  \/ Step

Spec == Init /\ [][Next]_vars /\ WF_vars(Step)
-----------------------------------------------------------------------------
Links == Pages \union {None, Junk}

\* What is met when following n links from p.
ListedWithin[n \in 0 .. MAX_PAGES] ==
  [p \in Links |-> IF p \in Pages /\ n > 0 THEN {p} \union ListedWithin[n - 1][next[p]] ELSE {p}]

\* What is met when following `next` from a head.
Listed(o) == ListedWithin[MAX_PAGES][free_lists[o]]

\* push_free and remove_frame keep every list doubly linked and ended by None:
\* following `next` never leaves the free frames for memory a caller has
\* written, and prev is the inverse of next, which remove_frame relies on to
\* unlink from the middle; and no frame is on the lists of two orders.
DoublyLinked ==
  \A o \in Orders :
    /\ Junk \notin Listed(o) /\ None \in Listed(o)
    /\ \A p \in Listed(o) \ {None} :
         /\ p = free_lists[o] <=> prev[p] = None
         /\ next[p] # None => prev[next[p]] = p
    /\ \A r \in Orders \ {o} : Listed(o) \intersect Listed(r) = {None}

\* The abstract allocator: lists are sets, and every order has its own bits.
ListSets == [o \in Orders |-> Listed(o) \ {None}]

PairBits ==
  [o \in Orders |-> [i \in Pages |->
     /\ o < MAX_ORDER - 1
     /\ i < MAX_PAGES \div 2^(o + 1)
     /\ bitmap[order_offset[o] + i]]]

Abstract == INSTANCE Buddy WITH free_lists <- ListSets, bitmap <- PairBits

\* The linked lists and the shared bitmap implement the allocator of module
\* Buddy: every step of alloc, dealloc and add_frame on them is that step there,
\* and calls return.
Refinement == Abstract!FairSpec
=============================================================================
