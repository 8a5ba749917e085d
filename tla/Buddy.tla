------------------------------- MODULE Buddy -------------------------------
(***************************************************************************)
(* BuddyAllocator (kernel/src/mm/buddy.rs): the page allocator under the   *)
(* kernel heap and the user page tables.                                   *)
(*                                                                         *)
(* A pointer is the index of the page it points to, relative to `offset`.  *)
(* The free list of an order is the SET of the blocks on it; module        *)
(* BuddyLists has the lists as the code links them and the bitmap as one   *)
(* flat array, and implements this specification.                          *)
(*                                                                         *)
(* `alloc` and `dealloc` call themselves with order + 1. One action is one *)
(* activation of the recursive function; `op`, `ptr`, `order`, `want` are  *)
(* the arguments and locals of the activation in progress. The mutex       *)
(* PAGE_ALLOCATOR is held for the whole outer call, so no second call      *)
(* starts before the first is back to "idle".                              *)
(***************************************************************************)
EXTENDS Integers

CONSTANTS
  MAX_ORDER,  \* number of block orders; 12 in the code
  MAX_PAGES,  \* pages the bitmap can describe; 262144 in the code
  Frames      \* indices of the usable physical frames, some beyond MAX_PAGES

ASSUME ConstantsAssumption ==
  /\ MAX_ORDER \in Nat \ {0}
  /\ MAX_PAGES \in Nat \ {0}
  /\ Frames \subseteq Nat

\* What the proofs need to know of powers of two.
ASSUME PowersOfTwo ==
  /\ 2^0 = 1
  /\ \A o \in 0 .. MAX_ORDER : 2^o \in Nat \ {0} /\ 2^(o + 1) = 2 * 2^o

VARIABLES
  free_lists,  \* order -> blocks on that order's free list
  bitmap,      \* order -> pair of buddies -> its bit
  op,          \* which function is active: "idle", "alloc", "split", "dealloc"
  ptr,         \* its block
  order,       \* its order
  want,        \* alloc: the order the caller asked for
  used,        \* ghost: the <<block, order>> the callers hold
  fed          \* ghost: the pages add_frame was called with

vars == <<free_lists, bitmap, op, ptr, order, want, used, fed>>

Orders == 0 .. MAX_ORDER - 1
Pages  == 0 .. MAX_PAGES - 1
Ops    == {"idle", "alloc", "split", "dealloc"}

calculate_buddy_address_NoXor(p, o) == p + 2^o

\* relative_addr ^ (block_size * PAGE_SIZE), in pages: flips bit `o` of p.
calculate_buddy_address(p, o) ==
  IF (p \div 2^o) % 2 = 0 THEN p + 2^o ELSE p - 2^o

\* page_idx >> (order + 1), the pair within its order.
pair_index(p, o) == p \div 2^(o + 1)

Bit(p, o) == bitmap[o][pair_index(p, o)]

\* The bitmap after toggle_bit; the top order has no bits.
toggle_bit(p, o) ==
  IF o < MAX_ORDER - 1
  THEN [bitmap EXCEPT ![o][pair_index(p, o)] = ~@]
  ELSE bitmap

push_free(p, o)    == [free_lists EXCEPT ![o] = @ \union {p}]
remove_frame(p, o) == [free_lists EXCEPT ![o] = @ \ {p}]

InRange_OffByOne(p) == p <= MAX_PAGES

InRange(p) == p < MAX_PAGES

Return == op' = "idle" /\ ptr' = 0 /\ order' = 0 /\ want' = 0

Call(o, p, k, w) == op' = o /\ ptr' = p /\ order' = k /\ want' = w
-----------------------------------------------------------------------------
Init ==
  /\ free_lists = [o \in Orders |-> {}]
  /\ bitmap = [o \in Orders |-> [i \in Pages |-> FALSE]]
  /\ op = "idle" /\ ptr = 0 /\ order = 0 /\ want = 0
  /\ used = {}
  /\ fed = {}

(***************************************************************************)
(* alloc(order).                                                           *)
(***************************************************************************)
Alloc(o) ==
  /\ op = "idle"
  /\ Call("alloc", 0, o, o)
  /\ UNCHANGED <<free_lists, bitmap, used, fed>>

AllocNone_OneOrderEarly ==
  /\ op = "alloc"
  /\ order >= MAX_ORDER - 1
  /\ Return
  /\ UNCHANGED <<free_lists, bitmap, used, fed>>

\* order >= MAX_ORDER: None, through every pending activation.
AllocNone ==
  /\ op = "alloc"
  /\ order >= MAX_ORDER
  /\ Return
  /\ UNCHANGED <<free_lists, bitmap, used, fed>>

AllocSearch_SameOrder ==
  /\ op = "alloc"
  /\ order < MAX_ORDER
  /\ free_lists[order] = {}
  /\ Call("alloc", 0, order, want)
  /\ UNCHANGED <<free_lists, bitmap, used, fed>>

\* The list is empty: ask for a larger block.
AllocSearch ==
  /\ op = "alloc"
  /\ order < MAX_ORDER
  /\ free_lists[order] = {}
  /\ Call("alloc", 0, order + 1, want)
  /\ UNCHANGED <<free_lists, bitmap, used, fed>>

AllocTake_NoToggle ==
  /\ op = "alloc"
  /\ order < MAX_ORDER
  /\ \E p \in free_lists[order] :
       /\ free_lists' = remove_frame(p, order)
       /\ Call("split", p, order, want)
  /\ UNCHANGED <<bitmap, used, fed>>

\* Unlink a block and toggle the bit of its pair.
AllocTake ==
  /\ op = "alloc"
  /\ order < MAX_ORDER
  /\ \E p \in free_lists[order] :
       /\ free_lists' = remove_frame(p, order)
       /\ bitmap' = toggle_bit(p, order)
       /\ Call("split", p, order, want)
  /\ UNCHANGED <<used, fed>>

AllocSplit_NoToggle ==
  /\ op = "split"
  /\ order > want
  /\ free_lists' = push_free(calculate_buddy_address(ptr, order - 1), order - 1)
  /\ Call("split", ptr, order - 1, want)
  /\ UNCHANGED <<bitmap, used, fed>>

AllocSplit_DropBuddy ==
  /\ op = "split"
  /\ order > want
  /\ bitmap' = toggle_bit(ptr, order - 1)
  /\ Call("split", ptr, order - 1, want)
  /\ UNCHANGED <<free_lists, used, fed>>

\* Back in the caller one order below: keep ptr, free its buddy.
AllocSplit ==
  /\ op = "split"
  /\ order > want
  /\ bitmap' = toggle_bit(ptr, order - 1)
  /\ free_lists' = push_free(calculate_buddy_address(ptr, order - 1), order - 1)
  /\ Call("split", ptr, order - 1, want)
  /\ UNCHANGED <<used, fed>>

AllocReturn ==
  /\ op = "split"
  /\ order = want
  /\ used' = used \union {<<ptr, order>>}
  /\ Return
  /\ UNCHANGED <<free_lists, bitmap, fed>>

(***************************************************************************)
(* dealloc(ptr, order), called on a block the caller holds.                *)
(***************************************************************************)
Dealloc(p, o) ==
  /\ op = "idle"
  /\ <<p, o>> \in used
  /\ used' = used \ {<<p, o>>}
  /\ Call("dealloc", p, o, 0)
  /\ UNCHANGED <<free_lists, bitmap, fed>>

DeallocKeep_MergeStopsEarly ==
  /\ op = "dealloc"
  /\ InRange(ptr)
  /\ order >= MAX_ORDER - 2 \/ ~Bit(ptr, order)
  /\ bitmap' = toggle_bit(ptr, order)
  /\ free_lists' = push_free(ptr, order)
  /\ Return
  /\ UNCHANGED <<used, fed>>

\* Top order, or the bit became 1: the block stays as it is.
DeallocKeep ==
  /\ op = "dealloc"
  /\ InRange(ptr)
  /\ order >= MAX_ORDER - 1 \/ ~Bit(ptr, order)
  /\ bitmap' = toggle_bit(ptr, order)
  /\ free_lists' = push_free(ptr, order)
  /\ Return
  /\ UNCHANGED <<used, fed>>

\* The bit became 0: unlink the buddy and dealloc the merged block.
DeallocMerge ==
  /\ op = "dealloc"
  /\ InRange(ptr)
  /\ order < MAX_ORDER - 1
  /\ Bit(ptr, order)
  /\ bitmap' = toggle_bit(ptr, order)
  /\ LET buddy == calculate_buddy_address(ptr, order)
     IN  /\ free_lists' = remove_frame(buddy, order)
         /\ Call("dealloc", IF ptr < buddy THEN ptr ELSE buddy, order + 1, 0)
  /\ UNCHANGED <<used, fed>>

(***************************************************************************)
(* add_frame(frame), called with a frame that is not in use (its Safety    *)
(* section); a frame beyond the bitmap is ignored.                         *)
(***************************************************************************)
AddFrame(f) ==
  /\ op = "idle"
  /\ f \notin fed
  /\ fed' = fed \union {f}
  /\ IF InRange(f)
     THEN Call("dealloc", f, 0, 0)
     ELSE UNCHANGED <<op, ptr, order, want>>
  /\ UNCHANGED <<free_lists, bitmap, used>>

Step ==
  \/ AllocNone \/ AllocSearch \/ AllocTake \/ AllocSplit \/ AllocReturn
  \/ DeallocKeep \/ DeallocMerge

Next ==
  \/ \E f \in Frames : AddFrame(f)
  \/ \E o \in 0 .. MAX_ORDER : Alloc(o)
  \/ \E p \in Pages, o \in Orders : Dealloc(p, o)
  \/ Step

Spec == Init /\ [][Next]_vars

\* A call that has started runs on: the code has no wait inside it.
FairSpec == Spec /\ WF_vars(Step)
-----------------------------------------------------------------------------
(***************************************************************************)
(* Properties.                                                             *)
(***************************************************************************)
\* The block the active function holds in `ptr`, if it holds one.
InFlight == IF op \in {"split", "dealloc"} THEN {<<ptr, order>>} ELSE {}

FreeBlocks == {b \in Pages \X Orders : b[1] \in free_lists[b[2]]}

\* Every block of memory somebody accounts for.
Live == FreeBlocks \union used \union InFlight

IsAligned(p, o) == p = (p \div 2^o) * 2^o

Covers(b, x) == b[1] <= x /\ x < b[1] + 2^b[2]

Apart(b, c) == b[1] + 2^b[2] <= c[1] \/ c[1] + 2^c[2] <= b[1]

\* Types of the variables (struct BuddyAllocator and the arguments of alloc
\* and dealloc); a block in flight has an order that exists, and alloc
\* never goes below the order asked for.
TypeOK ==
  /\ free_lists \in [Orders -> SUBSET Pages]
  /\ bitmap \in [Orders -> [Pages -> BOOLEAN]]
  /\ op \in Ops
  /\ ptr \in Pages
  /\ order \in 0 .. MAX_ORDER
  /\ want \in 0 .. MAX_ORDER
  /\ used \subseteq Pages \X Orders
  /\ fed \subseteq Frames
  /\ op \in {"split", "dealloc"} => order \in Orders
  /\ op \in {"alloc", "split"} => want <= order

\* Every free, held or in-flight block starts at a multiple of its size and
\* ends inside the managed range: what makes XOR with the block size the
\* buddy (calculate_buddy_address), and what the unit test asserts of `alloc`.
Aligned ==
  \A b \in Live : /\ IsAligned(b[1], b[2])
                  /\ b[1] + 2^b[2] <= MAX_PAGES

\* No page belongs to two blocks: alloc never hands out memory that is still
\* on a list or held by another caller, and dealloc never links it twice.
NoOverlap ==
  /\ FreeBlocks \intersect used = {}
  /\ InFlight \intersect (FreeBlocks \union used) = {}
  /\ \A b, c \in Live : b # c => Apart(b, c)

\* The bit of a pair is 1 exactly when one of the two buddies is on the free
\* list (the XOR in the comment on `bitmap`); this is all dealloc looks at
\* before it unlinks the buddy without searching for it.
BitmapAgrees ==
  \A o \in 0 .. MAX_ORDER - 2 : \A p \in Pages :
    IsAligned(p, o) =>
      (Bit(p, o) <=> (p \in free_lists[o]) # (calculate_buddy_address(p, o) \in free_lists[o]))

\* Eager coalescing: below the top order two buddies are never both free.
FullyMerged ==
  \A o \in 0 .. MAX_ORDER - 2 : \A p \in free_lists[o] :
    calculate_buddy_address(p, o) \notin free_lists[o]

\* remove_frame "assume[s] ptr is valid and in the list because the bitmap said
\* so": when dealloc is about to merge, the buddy is a block of this list.
MergeFindsBuddy ==
  op = "dealloc" /\ order < MAX_ORDER - 1 /\ Bit(ptr, order)
    => calculate_buddy_address(ptr, order) \in free_lists[order]

\* No page is lost and none is invented: the blocks cover exactly the frames
\* add_frame accepted.
PagesConserved ==
  \A x \in Pages : x \in fed <=> \E b \in Live : Covers(b, x)

\* The inductive invariant: each part needs the others (see BuddyProofs).
IInv ==
  TypeOK /\ Aligned /\ NoOverlap /\ BitmapAgrees /\ FullyMerged /\ PagesConserved

\* alloc answers None only if no aligned run of the size asked for is free,
\* even when it would have to be put together from smaller free blocks.
NoneMeansNoRun ==
  [][op = "alloc" /\ op' = "idle" /\ want < MAX_ORDER =>
       ~ \E p \in Pages :
           /\ p % 2^want = 0
           /\ \A x \in p .. p + 2^want - 1 :
                \E b \in FreeBlocks : Covers(b, x)]_vars

\* The bits alloc toggles without looking at them: taking a block finds its
\* pair's bit 1 and leaves 0 ("the bit should go from 1 -> 0"), a split finds 0
\* and leaves 1 ("The bit should become 1").
AllocBits ==
  [][/\ AllocTake /\ order < MAX_ORDER - 1 =>
          bitmap[order][pair_index(ptr', order)] /\ ~bitmap'[order][pair_index(ptr', order)]
     /\ AllocSplit => ~Bit(ptr, order - 1) /\ bitmap'[order - 1][pair_index(ptr, order - 1)]
    ]_vars

\* Every call of alloc, dealloc or add_frame returns: the recursion is bounded
\* by MAX_ORDER.
CallsReturn == [](op # "idle" => <>(op = "idle"))
=============================================================================
