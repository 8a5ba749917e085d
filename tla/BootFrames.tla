----------------------------- MODULE BootFrames -----------------------------
(***************************************************************************)
(* BootInfoFrameAllocator (kernel/src/mm/memory.rs): hands out physical    *)
(* frames from the bootloader's memory map before the heap exists. The     *)
(* first range_count elements of the array free_ranges are the sequence    *)
(* free_ranges here; addresses are bytes.                                  *)
(***************************************************************************)
EXTENDS Integers, Sequences, FiniteSets, FiniteSetsExt, Functions

CONSTANTS
  PAGE_SIZE,       \* 4096 in the code
  HUGE_PAGE_SIZE,  \* 2 MiB in the code
  MAX_RANGES,      \* capacity of free_ranges; 256 in the code
  MemoryMaps,      \* memory maps the bootloader may pass
  Counts,          \* frame counts callers ask for
  None             \* Option::None

ASSUME SizesAssumption ==
  /\ PAGE_SIZE \in Nat \ {0}
  /\ HUGE_PAGE_SIZE \in Nat \ {0} /\ HUGE_PAGE_SIZE % PAGE_SIZE = 0
  /\ MAX_RANGES \in Nat \ {0}
  /\ Counts \subseteq Nat
  /\ None \notin Nat

MemoryRegion == [start : Nat, end : Nat, usable : BOOLEAN]

\* init's "# Safety" section: "the caller must guarantee that the passed memory
\* map is valid"; in a valid one no byte is in two usable regions.
ASSUME MemoryMapAssumption ==
  \A memory_map \in MemoryMaps :
    /\ memory_map \in Seq(MemoryRegion)
    /\ \A i, j \in DOMAIN memory_map :
         i # j /\ memory_map[i].usable /\ memory_map[j].usable =>
           \/ memory_map[i].end <= memory_map[j].start
           \/ memory_map[j].end <= memory_map[i].start

VARIABLES
  free_ranges,      \* free ranges, [start, end) each
  allocated_bytes,
  total_bytes,
  ret,              \* the last call and its answer
  panicked,         \* insert_range_sorted found the array full
  pool,             \* ghost: the frames init accepted
  held              \* ghost: the frames the callers hold

vars == <<free_ranges, allocated_bytes, total_bytes, ret, panicked, pool, held>>

PhysRange(start, end) == [start |-> start, end |-> end]

AlignDown(x, a) == (x \div a) * a
AlignUp(x, a)   == AlignDown(x + a - 1, a)

\* The frames of a range, by start address.
FramesOf(r) == {r.start + n * PAGE_SIZE : n \in 0 .. (r.end - r.start - 1) \div PAGE_SIZE}

\* usable_frames(): whatever is free now.
usable_frames == UNION {FramesOf(r) : r \in Range(free_ranges)}

\* Before the first range that starts later; the ranges from there on move up.
insert_range_sorted(s, r) ==
  LET pos == Min({i \in DOMAIN s : r.start < s[i].start} \union {Len(s) + 1})
  IN  [i \in 1 .. Len(s) + 1 |->
         IF i < pos THEN s[i] ELSE IF i = pos THEN r ELSE s[i - 1]]

\* The ranges after the index move down.
remove_range(s, index) ==
  [i \in 1 .. Len(s) - 1 |-> IF i < index THEN s[i] ELSE s[i + 1]]

\* A usable region gives its whole frames, if the array has room.
Accept(s, region) ==
  LET r == PhysRange(AlignUp(region.start, PAGE_SIZE), AlignDown(region.end, PAGE_SIZE))
  IN  IF region.usable /\ r.end > r.start /\ Len(s) < MAX_RANGES
      THEN Append(s, r) ELSE s

UsableRanges(memory_map) ==
  LET accepted[n \in 0 .. Len(memory_map)] ==
        IF n = 0 THEN <<>> ELSE Accept(accepted[n - 1], memory_map[n])
  IN  accepted[Len(memory_map)]

\* Insertion sort by start address.
SortRanges(s) ==
  LET sorted[n \in 0 .. Len(s)] ==
        IF n = 0 THEN <<>> ELSE insert_range_sorted(sorted[n - 1], s[n])
  IN  sorted[Len(s)]

TotalBytes(s) ==
  LET bytes[n \in 0 .. Len(s)] ==
        IF n = 0 THEN 0 ELSE bytes[n - 1] + (s[n].end - s[n].start)
  IN  bytes[Len(s)]

coalesce_ranges_SkipAfterMerge(s) ==
  LET Join(done, r) ==
        IF done.ok /\ done.s # <<>> /\ done.s[Len(done.s)].end = r.start
        THEN [s |-> [done.s EXCEPT ![Len(done.s)].end = r.end], ok |-> FALSE]
        ELSE [s |-> Append(done.s, r), ok |-> TRUE]
      merged[n \in 0 .. Len(s)] ==
        IF n = 0 THEN [s |-> <<>>, ok |-> TRUE] ELSE Join(merged[n - 1], s[n])
  IN  merged[Len(s)].s

\* A range that the last one touches extends it.
Join(done, r) ==
  IF done # <<>> /\ done[Len(done)].end = r.start
  THEN [done EXCEPT ![Len(done)].end = r.end]
  ELSE Append(done, r)

\* Merges neighbours from the left, going on with the merged range.
coalesce_ranges(s) ==
  LET merged[n \in 0 .. Len(s)] ==
        IF n = 0 THEN <<>> ELSE Join(merged[n - 1], s[n])
  IN  merged[Len(s)]

RunIn_AlwaysPageAligned(r, count, alignment) ==
  LET aligned_start == AlignUp(r.start, PAGE_SIZE)
  IN  PhysRange(aligned_start, aligned_start + count * PAGE_SIZE)

\* The run a request gets from range r, as a range.
RunIn(r, count, alignment) ==
  LET aligned_start == AlignUp(r.start, alignment)
  IN  PhysRange(aligned_start, aligned_start + count * PAGE_SIZE)

Fits_Strictly(r, count, alignment) ==
  LET run == RunIn(r, count, alignment)
  IN  run.start >= r.start /\ run.end < r.end

Fits(r, count, alignment) ==
  LET run == RunIn(r, count, alignment)
  IN  run.start >= r.start /\ run.end <= r.end

\* What is left of r when the run is cut out of it: 0, 1 or 2 pieces.
has_before(r, run) == run.start > r.start
has_after(r, run)  == run.end < r.end

new_ranges_needed(r, run) ==
  (IF has_before(r, run) THEN 1 ELSE 0) + (IF has_after(r, run) THEN 1 ELSE 0)

InsertAfter(s, r, run) ==
  IF has_after(r, run) THEN insert_range_sorted(s, PhysRange(run.end, r.end)) ELSE s

InsertPieces_NoBefore(s, r, run) == InsertAfter(s, r, run)

InsertPieces(s, r, run) ==
  InsertAfter(IF has_before(r, run)
              THEN insert_range_sorted(s, PhysRange(r.start, run.start)) ELSE s, r, run)

\* Cutting the run out of r leaves no more ranges than the array holds.
HasRoom(r, run) == ~(new_ranges_needed(r, run) > 1 /\ Len(free_ranges) >= MAX_RANGES)

FirstFit_NoCapacityCheck(count, alignment) ==
  LET fitting == {i \in DOMAIN free_ranges : Fits(free_ranges[i], count, alignment)}
  IN  IF fitting = {} THEN 0 ELSE Min(fitting)

Fitting(count, alignment) ==
  {i \in DOMAIN free_ranges :
     LET r == free_ranges[i]
     IN  Fits(r, count, alignment) /\ HasRoom(r, RunIn(r, count, alignment))}

\* The first range that fits and whose pieces the array can hold; 0 if none.
FirstFit(count, alignment) ==
  IF Fitting(count, alignment) = {} THEN 0 ELSE Min(Fitting(count, alignment))

free_memory == total_bytes - allocated_bytes

Answer(call, count, alignment, frame) ==
  ret' = [call |-> call, count |-> count, alignment |-> alignment, frame |-> frame]

\* The kernel stops inside the call.
Panic(call, count, alignment) ==
  /\ panicked' = TRUE
  /\ Answer(call, count, alignment, None)
  /\ UNCHANGED <<free_ranges, allocated_bytes, total_bytes, pool, held>>
-----------------------------------------------------------------------------
init(memory_map) ==
  LET accepted == UsableRanges(memory_map)
  IN  /\ free_ranges = SortRanges(accepted)
      /\ allocated_bytes = 0
      /\ total_bytes = TotalBytes(accepted)
      /\ pool = UNION {FramesOf(r) : r \in Range(accepted)}

Init ==
  /\ \E memory_map \in MemoryMaps : init(memory_map)
  /\ ret = [call |-> "init", count |-> 0, alignment |-> PAGE_SIZE, frame |-> None]
  /\ panicked = FALSE
  /\ held = {}

\* No range will do, or nothing was asked for.
AllocateNone(count, alignment) ==
  /\ count = 0 \/ FirstFit(count, alignment) = 0
  /\ Answer("alloc", count, alignment, None)
  /\ UNCHANGED <<free_ranges, allocated_bytes, total_bytes, panicked, pool, held>>

\* Replace the range by its pieces; every insertion panics if the array is full.
AllocateSome(count, alignment) ==
  /\ count # 0
  /\ FirstFit(count, alignment) # 0
  /\ LET i    == FirstFit(count, alignment)
         r    == free_ranges[i]
         run  == RunIn(r, count, alignment)
         rest == remove_range(free_ranges, i)
     IN  IF Len(rest) + new_ranges_needed(r, run) > MAX_RANGES
         THEN Panic("alloc", count, alignment)
         ELSE /\ free_ranges' = InsertPieces(rest, r, run)
              /\ allocated_bytes' = allocated_bytes + count * PAGE_SIZE
              /\ held' = held \union FramesOf(run)
              /\ Answer("alloc", count, alignment, run.start)
              /\ UNCHANGED <<total_bytes, panicked, pool>>

allocate_contiguous_aligned(count, alignment) ==
  AllocateNone(count, alignment) \/ AllocateSome(count, alignment)

allocate_contiguous(count) == allocate_contiguous_aligned(count, PAGE_SIZE)

allocate_huge_page ==
  allocate_contiguous_aligned(HUGE_PAGE_SIZE \div PAGE_SIZE, HUGE_PAGE_SIZE)

\* Called on frames the caller holds. The new range is inserted before it is
\* merged, so a full array panics.
free_contiguous(start, count) ==
  LET run == PhysRange(start, start + count * PAGE_SIZE)
  IN  /\ FramesOf(run) \subseteq held
      /\ count # 0
      /\ IF Len(free_ranges) >= MAX_RANGES
         THEN Panic("free", count, PAGE_SIZE)
         ELSE /\ free_ranges' = coalesce_ranges(insert_range_sorted(free_ranges, run))
              /\ allocated_bytes' = IF allocated_bytes < count * PAGE_SIZE THEN 0
                                    ELSE allocated_bytes - count * PAGE_SIZE
              /\ held' = held \ FramesOf(run)
              /\ Answer("free", count, PAGE_SIZE, start)
              /\ UNCHANGED <<total_bytes, panicked, pool>>

\* A panic ends the kernel.
Next ==
  /\ ~panicked
  /\ \/ \E count \in Counts : allocate_contiguous(count)
     \/ allocate_huge_page
     \/ \E start \in held, count \in Counts : free_contiguous(start, count)

Spec == Init /\ [][Next]_vars
-----------------------------------------------------------------------------
\* The array is not overrun; its ranges are sorted, non-empty, page-aligned and
\* disjoint: first fit and the pairwise merge rely on it.
RangesSorted ==
  /\ Len(free_ranges) <= MAX_RANGES
  /\ \A i \in DOMAIN free_ranges :
       LET r == free_ranges[i]
       IN  /\ r.start < r.end
           /\ r.start % PAGE_SIZE = 0 /\ r.end % PAGE_SIZE = 0
           /\ i < Len(free_ranges) => r.end <= free_ranges[i + 1].start

\* memory.rs: through splits, insertions and merges the ranges stay in order, and
\* every frame of the memory map that init accepted is either free or held by
\* exactly the caller it was given to; free_memory() and allocated_memory() are
\* the bytes really free and really held, so saturating_sub never saturates.
FramesConserved ==
  /\ RangesSorted
  /\ usable_frames \union held = pool
  /\ usable_frames \intersect held = {}
  /\ allocated_bytes = PAGE_SIZE * Cardinality(held)
  /\ free_memory = TotalBytes(free_ranges)

\* An allocation may skip a range to stay within MAX_RANGES, but it never runs
\* into the panic of insert_range_sorted.
AllocNeverPanics == panicked => ret.call = "free"

Merged == \A i \in 1 .. Len(free_ranges) - 1 : free_ranges[i].end # free_ranges[i + 1].start

\* free_contiguous leaves no two ranges that touch, whichever neighbours the
\* freed run has.
MergedAfterFree == [][ret'.call = "free" /\ held' # held => Merged']_vars

\* An answer is aligned as asked and was free until now.
AnswersFit ==
  [][ret'.call = "alloc" /\ ret'.frame # None /\ held' # held =>
       /\ ret'.frame % ret'.alignment = 0
       /\ held' \ held = FramesOf(PhysRange(ret'.frame, ret'.frame + ret'.count * PAGE_SIZE))
       /\ held' \ held \subseteq usable_frames]_vars

\* A run of `count` free frames at the alignment.
RunExists(count, alignment) ==
  \E a \in usable_frames :
    /\ a % alignment = 0
    /\ FramesOf(PhysRange(a, a + count * PAGE_SIZE)) \subseteq usable_frames

\* "Returns the starting physical frame, or None if not enough contiguous
\* memory": the doc of allocate_contiguous_aligned.
NoneMeansNoMemory ==
  ret.call = "alloc" /\ ret.frame = None /\ ret.count > 0
    => ~RunExists(ret.count, ret.alignment)

\* It holds whenever touching ranges have been merged and the array has room.
NoneMeansNoMemoryWhenMerged ==
  Merged /\ Len(free_ranges) < MAX_RANGES => NoneMeansNoMemory
=============================================================================
