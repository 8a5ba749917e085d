------------------------------ MODULE Startup -------------------------------
(***************************************************************************)
(* main (kernel/src/main.rs) up to the first task: the boot allocator      *)
(* (module BootFrames) gives the back buffer its frames, main draws into   *)
(* it, every frame that is still free is added to the heap (module Heap),  *)
(* and apic::init takes page-table frames from the boot allocator, which   *)
(* still lists them, and programs the interrupt controllers (module Apic)  *)
(* while the devices are already live.                                     *)
(***************************************************************************)
EXTENDS Integers, FiniteSets, FiniteSetsExt

CONSTANTS
  PAGE_SIZE, HUGE_PAGE_SIZE, MAX_RANGES, MemoryMaps, Counts,
  HEADER_SIZE, Sizes, Pages, LayoutSizes, None,
  MAX_PAGES,        \* pages of the buddy allocator; 262144 (1 GiB) in the code
  Modes,            \* framebuffers the bootloader may pass: width, height and
                    \* stride in pixels of four bytes
  MaxTables         \* page tables that the two APIC mappings may need

VARIABLES
  free_ranges, allocated_bytes, total_bytes, boot_ret, panicked, pool, held,
  partial, next_slab, freelist, in_use, free_pages, live,
  initialized, large, frames, fed, heap_ret,
  step, select, redirection, lapic, lapic_addr, buffer, pending, handler, lost,
  stage,        \* where main is
  fb,           \* the Framebuffer: address of its back buffer, and its mode
  back_buffer,  \* ghost: frames of the back buffer
  touched,      \* ghost: frames accessed through the back buffer's pointer
  tables        \* ghost: frames that apic::init made page tables

boot == <<free_ranges, allocated_bytes, total_bytes, boot_ret, panicked, pool, held>>
heap == <<partial, next_slab, freelist, in_use, free_pages, live,
          initialized, large, frames, fed, heap_ret>>
apic == <<step, select, redirection, lapic, lapic_addr, buffer, pending, handler, lost>>
graphics == <<fb, back_buffer, touched>>
vars == <<boot, heap, apic, stage, graphics, tables>>

BootAllocator == INSTANCE BootFrames WITH ret <- boot_ret

\* The physical memory is mapped from the heap's offset on, in order, so the
\* addresses that the buddy allocator takes are the lowest.
InRange(p) == p < MAX_PAGES * PAGE_SIZE

KernelHeap == INSTANCE Heap WITH ret <- heap_ret, Managed <- {p \in Pages : InRange(p)}
Interrupts == INSTANCE Apic

Init ==
  /\ BootAllocator!Init
  /\ KernelHeap!Init
  /\ Interrupts!Init
  /\ stage = "graphics" /\ tables = {}
  /\ fb \in [base : {None}, mode : Modes] /\ back_buffer = {} /\ touched = {}

pages_needed_Whole(mode) == (mode.stride * mode.height * 4) \div PAGE_SIZE

pages_needed(mode) == (mode.stride * mode.height * 4 + PAGE_SIZE - 1) \div PAGE_SIZE

\* The frames that hold the given pixels of the back buffer.
FramesOfPixels(base, pixels) ==
  {base + ((4 * n) \div PAGE_SIZE) * PAGE_SIZE : n \in pixels}

Pixels(mode) == 0 .. mode.stride * mode.height - 1

\* Framebuffer::new; it panics if there is no run of frames for the buffer,
\* else it zeroes stride * height pixels.
CreateFramebuffer ==
  /\ stage = "graphics"
  /\ BootAllocator!allocate_contiguous(pages_needed(fb.mode))
  /\ fb' = [fb EXCEPT !.base = boot_ret'.frame]
  /\ back_buffer' = held'
  /\ IF boot_ret'.frame = None
     THEN stage' = "panic" /\ UNCHANGED touched
     ELSE /\ stage' = "draw"
          /\ touched' = FramesOfPixels(boot_ret'.frame, Pixels(fb.mode))
  /\ UNCHANGED <<heap, apic, tables>>

\* flip, the loop over the pixels, flip.
Draw ==
  /\ stage = "draw"
  /\ LET drawn == {y * fb.mode.stride + x : y \in 0 .. fb.mode.height - 1,
                                            x \in 0 .. fb.mode.width - 1}
     IN  touched' = touched \union FramesOfPixels(fb.base, drawn \union Pixels(fb.mode))
  /\ stage' = "heap"
  /\ UNCHANGED <<boot, heap, apic, fb, back_buffer, tables>>

InitHeap ==
  /\ stage = "heap"
  /\ KernelHeap!init_heap
  /\ stage' = "feed"
  /\ UNCHANGED <<boot, apic, graphics, tables>>

FeedFrame_MemoryMap ==
  /\ stage = "feed"
  /\ pool \ fed # {}
  /\ KernelHeap!add_frame(Min(pool \ fed))
  /\ UNCHANGED <<boot, apic, stage, graphics, tables>>

\* One round of the loop over usable_frames(), in address order.
FeedFrame ==
  /\ stage = "feed"
  /\ BootAllocator!usable_frames \ fed # {}
  /\ KernelHeap!add_frame(Min(BootAllocator!usable_frames \ fed))
  /\ UNCHANGED <<boot, apic, stage, graphics, tables>>

FinishFeeding ==
  /\ stage = "feed"
  /\ BootAllocator!usable_frames \subseteq fed
  /\ stage' = "running"
  /\ UNCHANGED <<boot, heap, apic, graphics, tables>>

\* InterruptModel::new fails, the model is not the APIC, or the page is mapped
\* already.
NoApic ==
  /\ stage = "running" /\ Interrupts!At("map")
  /\ stage' = "panic"
  /\ UNCHANGED <<boot, heap, apic, graphics, tables>>

\* map_apic: map_to asks the boot allocator for a page table; it panics if
\* there is none.
MapApic ==
  /\ stage = "running" /\ Interrupts!At("map")
  /\ Cardinality(tables) < MaxTables
  /\ BootAllocator!allocate_contiguous(1)
  /\ tables' = tables \union (held' \ held)
  /\ stage' = IF boot_ret'.frame = None THEN "panic" ELSE stage
  /\ UNCHANGED <<heap, apic, graphics>>

\* The rest of apic::init, and interrupts::enable().
ProgramApic ==
  /\ stage = "running"
  /\ Interrupts!ProgramStep
  /\ UNCHANGED <<boot, heap, stage, graphics, tables>>

\* The devices and the handlers, at any time.
DeviceStep ==
  /\ stage # "panic"
  /\ Interrupts!DeviceStep
  /\ UNCHANGED <<boot, heap, stage, graphics, tables>>

\* main's test values, the ACPI tables, and later the tasks use the heap.
UseHeap ==
  /\ stage = "running" /\ (step = 1 \/ Interrupts!Enabled)
  /\ \/ \E size \in LayoutSizes :
          KernelHeap!AllocLarge(size) \/ KernelHeap!AllocSmall(size)
     \/ \E p \in large : KernelHeap!DeallocLarge(p)
     \/ \E b \in live : KernelHeap!DeallocSmall(b[1], b[2], b[3])
     \/ KernelHeap!allocate_frame
  /\ UNCHANGED <<boot, apic, stage, graphics, tables>>

Next ==
  \/ CreateFramebuffer \/ Draw \/ InitHeap \/ FeedFrame \/ FinishFeeding
  \/ NoApic \/ MapApic \/ ProgramApic \/ DeviceStep \/ UseHeap

Spec == Init /\ [][Next]_vars
-----------------------------------------------------------------------------
\* main.rs ("grab all frames"), graphics.rs: drawing stays within the frames of
\* the back buffer; the heap never owns one of them; and when the loop has ended
\* the heap owns every other frame of the memory map in the buddy allocator's
\* range, and no more, whatever it is used for: the frames beyond are not used.
HandoverExact ==
  /\ touched \subseteq back_buffer
  /\ back_buffer \intersect KernelHeap!Owned = {}
  /\ stage = "running" => KernelHeap!Owned = {p \in pool \ back_buffer : InRange(p)}

\* A byte of a device reaches its handler, whenever it comes (module Apic).
BytesRouted == Interrupts!BytesRouted

\* allocator.rs: the frames given to add_frame are "not already in use", by the
\* boot allocator's other callers either: a frame has one owner.
OneOwner == KernelHeap!Owned \intersect tables = {}
=============================================================================
