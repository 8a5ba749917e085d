-------------------------------- MODULE Heap --------------------------------
(***************************************************************************)
(* The kernel heap (kernel/src/mm/allocator.rs): SlubAllocator, the Rust   *)
(* global allocator, dispatches to eight slab caches or takes whole pages; *)
(* GlobalPageAllocator gives pages of the buddy allocator (order 0) to the *)
(* caches, to large allocations and, as frames, to the page tables. Every  *)
(* call holds its cache's lock and PAGE_ALLOCATOR throughout, so a call is *)
(* one step; the buddy allocator is here the set free_pages (module Buddy  *)
(* shows that an order-0 alloc fails only when no page is free).           *)
(***************************************************************************)
EXTENDS Slub, FiniteSetsExt

CONSTANTS
  LayoutSizes,  \* layout.size() of the requests
  Managed       \* the pages below offset + MAX_PAGES * PAGE_SIZE, which the
                \* buddy allocator's bitmap covers

\* The object sizes are powers of two, there is a largest, and a page has room
\* for an object of each.
ASSUME LayoutAssumption ==
  /\ LayoutSizes \subseteq Nat /\ Managed \subseteq Pages
  /\ \A s \in Sizes : IsPowerOfTwo(s) /\ Capacity(s) > 0
  /\ \E m \in Sizes : \A s \in Sizes : s <= m

VARIABLES
  initialized,  \* PAGE_ALLOCATOR is Some
  large,        \* ghost: pages held by allocations larger than any cache
  frames,       \* ghost: pages handed out as frames, never given back
  fed,          \* ghost: pages add_frame was called with
  ret           \* the request of the last step, if any, and whether it was met

vars == <<slab_vars, initialized, large, frames, fed, ret>>

Largest == Max(Sizes)

\* The cache of a request: the first whose objects are large enough.
CacheFor(size) == Min({s \in Sizes : size <= s})

Answer(size, ok) == ret' = [size |-> size, ok |-> ok]
NoAnswer == Answer(0, TRUE)
-----------------------------------------------------------------------------
Init ==
  /\ SlabInit
  /\ initialized = FALSE
  /\ large = {} /\ frames = {} /\ fed = {}
  /\ ret = [size |-> 0, ok |-> TRUE]

init_heap ==
  /\ ~initialized
  /\ initialized' = TRUE
  /\ NoAnswer
  /\ UNCHANGED <<slab_vars, large, frames, fed>>

\* add_frame of a page that is not in use; one beyond the buddy allocator's
\* range is dropped without a word.
add_frame(p) ==
  /\ initialized
  /\ p \notin fed
  /\ fed' = fed \union {p}
  /\ free_pages' = IF p \in Managed THEN free_pages \union {p} ELSE free_pages
  /\ UNCHANGED <<partial, next_slab, freelist, in_use, live>>
  /\ NoAnswer
  /\ UNCHANGED <<initialized, large, frames>>

\* GlobalAlloc::alloc, size > 2048: a page if it fits one.
AllocLarge(size) ==
  /\ size > Largest
  /\ size <= PAGE_SIZE /\ initialized
  /\ \E p \in free_pages :
       /\ free_pages' = free_pages \ {p}
       /\ large' = large \union {p}
  /\ Answer(size, TRUE)
  /\ UNCHANGED <<partial, next_slab, freelist, in_use, live>>
  /\ UNCHANGED <<initialized, frames, fed>>

AllocSmall(size) ==
  /\ size <= Largest
  /\ initialized
  /\ LET cache == CacheFor(size)
     IN  \/ AllocPartial(cache) /\ Answer(size, TRUE)
         \/ AllocNew(cache) /\ Answer(size, Capacity(cache) > 0)
         \/ AllocFail(cache) /\ Answer(size, FALSE)
  /\ UNCHANGED <<initialized, large, frames, fed>>

AllocNull_WholePage(size) ==
  /\ \/ ~initialized
     \/ size >= PAGE_SIZE
     \/ size > Largest /\ free_pages = {}
  /\ Answer(size, FALSE)
  /\ UNCHANGED <<slab_vars, initialized, large, frames, fed>>

\* A null pointer without looking at a cache.
AllocNull(size) ==
  /\ \/ ~initialized
     \/ size > PAGE_SIZE
     \/ size > Largest /\ free_pages = {}
  /\ Answer(size, FALSE)
  /\ UNCHANGED <<slab_vars, initialized, large, frames, fed>>

\* GlobalAlloc::dealloc with the layout of the allocation.
DeallocLarge(p) ==
  /\ p \in large
  /\ large' = large \ {p}
  /\ free_pages' = free_pages \union {p}
  /\ UNCHANGED <<partial, next_slab, freelist, in_use, live>>
  /\ NoAnswer
  /\ UNCHANGED <<initialized, frames, fed>>

DeallocSmall(size, p, slot) ==
  /\ SlabDealloc(size, p, slot)
  /\ NoAnswer
  /\ UNCHANGED <<initialized, large, frames, fed>>

\* allocate_frame for the user page tables.
allocate_frame ==
  /\ initialized
  /\ \E p \in free_pages :
       /\ free_pages' = free_pages \ {p}
       /\ frames' = frames \union {p}
  /\ UNCHANGED <<partial, next_slab, freelist, in_use, live>>
  /\ NoAnswer
  /\ UNCHANGED <<initialized, large, fed>>

Next ==
  \/ init_heap
  \/ \E p \in Pages : add_frame(p)
  \/ \E size \in LayoutSizes : AllocLarge(size) \/ AllocSmall(size) \/ AllocNull(size)
  \/ \E p \in large : DeallocLarge(p)
  \/ \E b \in live : DeallocSmall(b[1], b[2], b[3])
  \/ allocate_frame

Spec == Init /\ [][Next]_vars
-----------------------------------------------------------------------------
Slots(size) == 1 .. Capacity(size)

HeldSlots(size, p) == {b[3] : b \in {c \in live : c[1] = size /\ c[2] = p}}

\* The pages a cache has carved up.
SlabsOf(size) == {b[2] : b \in {c \in live : c[1] = size}}

\* No object is handed out twice: in every slab each slot is either held by one
\* caller or on the freelist once, and in_use counts the held ones.
SlotsExact ==
  \A s \in Sizes : \A p \in SlabsOf(s) :
    /\ in_use[p] = Cardinality(HeldSlots(s, p))
    /\ Range(freelist[p]) = Slots(s) \ HeldSlots(s, p)
    /\ Len(freelist[p]) = Capacity(s) - in_use[p]

\* "List of partial slabs (slabs with some free objects)": following next_slab
\* from `partial` meets exactly the slabs of the cache that have a free and a
\* held slot, each once, and ends. So alloc's "should not happen" branch is
\* dead, and dealloc's test of the old freelist never links a slab twice.
PartialExact ==
  \A s \in Sizes :
    LET list == ListFrom(partial[s])
    IN  /\ Range(list) = {p \in SlabsOf(s) : in_use[p] < Capacity(s)}
        /\ \A i, j \in DOMAIN list : list[i] = list[j] => i = j
        /\ list # <<>> => next_slab[list[Len(list)]] = None

\* The pages of the heap, whoever holds them.
Owned == free_pages \union large \union frames \union UNION {SlabsOf(s) : s \in Sizes}

\* Every page given to add_frame that lies in the buddy allocator's range has
\* exactly one owner: the buddy allocator, one cache, one large allocation or the
\* page tables; a slab whose last object is freed goes back at once and no such
\* page is lost. A page beyond the range never comes into use.
PagesAccounted ==
  /\ Owned = fed \intersect Managed
  /\ free_pages \intersect large = {} /\ frames \intersect (free_pages \union large) = {}
  /\ \A s \in Sizes :
       /\ SlabsOf(s) \intersect (free_pages \union large \union frames) = {}
       /\ \A t \in Sizes \ {s} : SlabsOf(s) \intersect SlabsOf(t) = {}

\* A null pointer for a request that fits a page means that there is no page
\* and, for a small request, no free slot in its cache.
NullMeansExhausted ==
  [][~ret'.ok /\ initialized /\ ret'.size <= PAGE_SIZE =>
       /\ free_pages = {}
       /\ ret'.size <= Largest =>
            \A p \in SlabsOf(CacheFor(ret'.size)) : freelist[p] = <<>>]_vars

\* Objects do not overlap the header, each other or the next page, and are
\* aligned to the size of their cache, hence for every type that fits it although
\* `layout.align()` is never read.
ObjectsPlaced ==
  \A b \in live :
    LET offset == SlotOffset(b[1], b[3])
    IN  /\ offset >= HEADER_SIZE
        /\ offset + b[1] <= PAGE_SIZE
        /\ offset % b[1] = 0
=============================================================================
