# TLA+ models of the lymadOS kernel

lymadOS is a small x86-64 kernel in Rust for one CPU. This directory models the
parts of it that keep state: the physical memory allocators, the heap, the ELF
loader, the scheduler, the syscall path down to its registers, the interrupt
controllers and the handlers. TLC checks
the models on small instances; TLAPS proves the central invariants for every
size. Paths below are relative to `kernel/src/` unless they start with `src/`.

## The system

| part | source | state | operations |
|---|---|---|---|
| boot frame allocator | `mm/memory.rs` | sorted free ranges, byte counts | init, allocate (aligned) runs, free |
| buddy allocator | `mm/buddy.rs` | free list per order, one bit per pair | alloc, dealloc, add_frame |
| slab caches | `mm/slub.rs` | partial lists; header and freelist in each page | alloc, dealloc |
| kernel heap | `mm/allocator.rs` | eight caches, the page provider | GlobalAlloc, add_frame, allocate_frame |
| user mappings, ELF loader | `mm/user.rs`, `tasks/elf.rs`, `tasks/task.rs` | page tables, frames, task ids | map_user_page, load_elf, from_elf |
| scheduler, context switch | `tasks/scheduler.rs`, `tasks/switch.rs` | tasks with saved contexts, current | add_task, start, schedule, timer_tick, switch_to_first_task |
| syscalls | `tasks/syscall.rs` | one kernel stack, USER_RSP_TEMP, the copied buffer | entry, write, write_bytes, return |
| interrupts, drivers, events | `interrupts.rs`, `gdt.rs`, `drivers/`, `events.rs` | IF, the APICs' registers, locks, event queue | timer, keyboard, mouse, serial output, exceptions |
| startup | `main.rs`, `graphics.rs` | who owns which frame | main up to the first task, the panic handler |

How they interact: main builds the boot allocator from the bootloader's memory
map, takes the back buffer from it, hands every remaining frame to the buddy
allocator behind the heap, and then lets `apic::init` take page tables from the
boot allocator and program the interrupt controllers, whose devices are live
already. After `interrupts::enable()` the boot thread, and later the
tasks, share SCHEDULER, the heap's locks and SERIAL1 with interrupt handlers on
the same CPU. Hard behaviours are therefore: long sequences of allocator calls
that must keep redundant structures in step; frames that change owner; failures
in the middle of a load or of a syscall; bytes that arrive while their route is
being set up; and interrupts at any instruction between enabling and disabling
them. `PROJECT.json` lists these hazards at their lines.

## Modules

**Buddy** - `BuddyAllocator` with free lists as sets. `alloc` and `dealloc`
recurse over the orders; one action is one activation (`AllocSearch`,
`AllocTake`, `AllocSplit`, `DeallocKeep`, `DeallocMerge`, ...). PAGE_ALLOCATOR's
mutex is held for a whole outer call, so calls do not interleave. A pointer is a
page index relative to `offset`. Ghost variables: `used`, the blocks callers
hold, and `fed`, the pages added. Callers keep `dealloc`'s contract: they free
what they hold, with its order.

**BuddyLists** - the same code with the `next`/`prev` links stored in the free
frames, the list heads, and the bitmap as one flat array with `get_bit_index`.
Its `Refinement` property says that it implements `Buddy!FairSpec`: the sets are
the blocks reachable from the heads, the bits are looked up by index.

**BuddyProofs**, **BuddyListsProofs** - theorems about Buddy and BuddyLists (below).

**BootFrames** - `BootInfoFrameAllocator`: the fixed array of ranges as a
sequence of at most MAX_RANGES, first fit, the pieces left of a range, insertion
in order, merging, and the panic of a full array. The loops over the array are
recursive functions of the number of elements done. **BootFramesProofs** has its
theorems.

**Slub**, **Heap** - `SCache` and `SlubAllocator`. A slab's header is
`next_slab`, `freelist`, `in_use`; a freelist is a sequence of slots; the partial
list is linked as in the code. The buddy allocator appears as the set of free
pages, which is what order-0 requests see. It manages MAX_PAGES pages; a frame
beyond them is dropped by its `add_frame` without a word (`Managed` in Heap,
`InRange` in Startup). Each call holds its locks throughout and is one step.
**HeapProofs** has the theorems about both.

**Apic** - `apic::init` as a list of register writes (`Program`), one step each,
while the keyboard, the mouse and the timer are live; the IDT's vectors; both
input handlers, which read the one port. Of the hardware it assumes: lines are
edge triggered; an edge that meets a masked entry or a disabled local APIC is
lost; the controller's buffer holds one byte and its line rises once per byte;
the 8259s are masked, so nothing drives LINT0 and LINT1, which the code gives the
vectors of the mouse and the keyboard; the three vectors are of one priority
class, so handlers do not nest. Firmware may leave the local APIC on or off.

**Startup** - composes BootFrames, Heap and Apic by `INSTANCE`, in main's order.
It records who owns each frame and which frames are touched through the back
buffer's pointer by `Framebuffer::new`, `flip` and main's loop. A failure of ACPI
or of a mapping ends the run, as the panic does.

**Elf** - `Task::from_elf`, `load_elf` and `map_user_page` one page at a time. A
byte of memory is 0, the file offset it came from, or junk. The loader maps into the
kernel's own tables, where the bootloader and `map_apic` have mapped pages before:
`KernelPages`, any set of pages. `map_to` is external: it adds up to three page
tables, refuses a page that is mapped or lies under a huge page, and may run out of
frames. Addresses are numbers: `ElfAssumption` takes those of a file to end below
the canonical limit, where the sums of `load_elf` cannot wrap and `VirtAddr::new`
does not panic. A ghost, `before`, keeps the pages in use when a load began.
**ElfProofs** has its theorems.

**Kernel** - everything after `interrupts::enable()`. A context is
`[who, pc]`: whose registers are on the CPU and at which step of its program.
`BootProgram` and `SyscallProgram` list the steps that matter: taking and
releasing locks, scheduler operations, the changes of the interrupt flag. They
leave out repeats of a lock/unlock pair that change nothing, such as the second
message of two. User code is one step that may enter a syscall at any time.
Between any two steps with the flag set a device may interrupt. A handler is one
step because it runs with interrupts off; it is disabled while a lock that it
needs is held, which on one CPU is a wait without end. `Failures` adds
exceptions of a task (`Fault`, `FaultHandler`) and panics for want of memory
(`Panic`); the last steps of both programs are the panic handler, which runs with
interrupts as they were and ends in `exit_qemu` (`Exit`, `Halted`). A tick between
`start()` and the first `iretq` saves main's context over task 0's: main then runs
on, now and then, as task 0, and `switch_to_first_task` may go back into main with
only five registers loaded, which is modelled as main going on or as a fault (going
on with wrong data is not).

**KernelProofs** - theorems about Kernel (below).

**Registers** - the assembly of `switch.rs` and `syscall.rs` on all twenty
registers of TaskContext and on the words of the boot, the RSP0 and the syscall
stack. Code with the interrupt flag off is one step; with it on, each instruction
that changes a register is. Ghosts record what each user program left in its
registers, what it passed to its last syscall, and what each thread had at its
last tick. Of the CPU it assumes that `sysretq` forces the privilege bits, and
that an interrupt aligns the stack to 16 bytes before it pushes. `syscall_entry`
is any compiled function that obeys the System V ABI and returns its fourth
parameter. ds, es, fs and gs, and the FPU state that `switch.rs` leaves as a TODO,
are left out. **RegistersProofs** has its theorems.

**Syscall** - `syscall_entry` and `read_user_bytes` with addresses of any width
and `checked_add`. A byte is named by its address, so that the order and the
bounds of a copy show; an unmapped byte faults. `from_utf8_lossy` is external and
modelled for characters of one and two bytes: a byte that is no part of a character
which the buffer holds in full becomes a replacement character. The Vec, and the
copy made when there is something to replace, are allocations that may fail.

**SyscallProofs** - theorems about Syscall (below).

The `MC*` modules give values to the constants.

## Runs

| run | bounds | result |
|---|---|---|
| Buddy | 3 orders, 8 pages, one of them not usable, one frame out of range | passes |
| BuddyLists | same, 6 usable frames | passes, refines Buddy |
| BootFrames | 3 ranges; unaligned, touching, and too many regions; runs of 0 to 3 pages | passes |
| Heap | real page, header and object sizes of the 1024 and 2048 caches, 3 pages and one that is dropped | passes |
| Startup | 2 regions of 2 pages, back buffers of 1, 2 or 3 pages, 2 page tables, every device, a buddy allocator of 4 pages that does not reach the last frame | passes |
| StartupOwner | same | violation: a frame has two owners |
| Elf | pages of 2 bytes, one of them the kernel's, 6 frames, 15 files, 2 loads | passes |
| Kernel | 3 tasks, 1 caller, all devices, queue of 2, failures | passes, with liveness |
| KernelBootDeadlock | 1 task, timer | violation: tick while SCHEDULER is held |
| KernelSyscallStack | 3 tasks, 2 callers | violation: frame overwritten |
| Registers | 1 to 3 tasks, 1 caller, 2 register contents per program | passes |
| Syscall | 4-bit addresses, limit 12, heap of 9 bytes, a character of 2 bytes and an invalid byte, every pointer and length | passes, with liveness |

What they show, in order. Buddy and BuddyLists: lists and bitmap stay in step in
any sequence of calls, so merging never takes a block in use and `None` means
that no aligned run is free; the linked structure implements the sets.
BootFrames: ranges stay ordered and conserve frames, allocation never panics,
frees merge. Heap: freelists, counts and partial lists are exact and every page
the buddy allocator took has one owner. Startup: drawing stays in the back buffer,
the heap gets every other frame in the buddy allocator's range and no more, and no
byte is lost or read by the wrong handler once interrupts are on. Elf: images are
exact, failures account for every frame, and a file loads exactly if no page of it
is wanted twice or in use, by the kernel or by an earlier task, and the frames last.
Kernel: switches, syscalls and handlers keep to their task and their locks whenever
ticks come, and nothing waits for ever but the first event and a tick during boot
(below). Registers: whatever ticks, switches and syscalls
come between, a program finds its registers as it left them, except rax, rcx and
r11 after a syscall. Syscall: no byte outside the caller's buffer is read, and the
answer agrees with what was printed, which is the buffer but for the bytes that
are not text.

Why the bounds are enough. Three orders have a bottom, a middle and a top, which
are the three cases of the code; eight pages give two top blocks, and the missing
page a block that can never merge. Three ranges are the fewest at which cutting a
range in two meets a full array. Three objects per slab pass through empty,
partial and full, one object skips partial. Pages of two bytes let a segment
start and end inside a page. Three tasks tell the next task from the previous
one; two register contents per program tell a stale register from a fresh one.
Four bits leave room for a pointer and a length whose sum wraps, for one that ends
at the limit, and for one just beyond it; a buffer may hold the two-byte character
whole, or cut it at either end. Back buffers of one and two pages have a
stride wider than the screen and do not fill their last page.

Some facts about the code are modelled but have no run of their own:

* A tick between `start()` and the first `iretq` of several tasks saves main's
  registers as those of task 0, which is then not run again (`Displaced`).
  `RunsCurrent` says that no other task can lose its place, `EveryTaskRuns` that the
  others still run.
* Frames at or above 1 GiB (MAX_PAGES pages) are given to `add_frame` and never used.
* A tick before `start()` takes the branch of `timer_tick` that "shouldn't happen".
* The first event builds EVENT_QUEUE in the handler and waits for ever if the
  interrupted thread holds the heap's locks (`FirstEventStuck`).
* `switch_to_first_task` loads five of the twenty registers; the first task starts
  with main's values in the others, while `task.rs:52` says that they start at 0.
* A byte that arrives before its redirection entry is written stays in the
  controller's buffer: its edge is lost and nothing polls (`lost` in Apic).
* Usable regions that touch are not merged by the boot allocator's init, so a
  request may get None although its frames are contiguous;
  `NoneMeansNoMemoryWhenMerged` says what holds, the first free merges them.
* `free_contiguous` inserts before it merges, so with a full array it panics even
  where the freed frames touch a free range; the kernel never calls it.
* A panic in `add_task` happens with SCHEDULER held and interrupts on; a tick then
  keeps it from being reported.
* A second load always fails in its stack, which has the first one's addresses in
  the same address space.
* `TSS_RSP0_PTR` is never assigned, so RSP0 stays the static stack of `gdt.rs`;
  Registers shows that one stack is enough, since a handler ends before another
  task runs.

Those about several tasks, and KernelSyscallStack, concern the scheduler and
loader as `tasks/mod.rs` offers them; main creates one task.

Kernel makes no assumption on when ticks come. `TickNeverBlocks`, which the code's
comment suggests, is false (KernelBootDeadlock); `TickWaitsOnlyForBoot` says how far
the flaw reaches: a tick waits only where it interrupts main or
`switch_to_first_task` holding SCHEDULER, never in a task or in a syscall. The liveness
properties promise nothing from a state on in which the machine has halted or one of
the two waits of boot has begun (`Ended`). `QuietStart` in Registers is an assumption
on timing: with several tasks, no tick between `start()` and the first `iretq`.

Deadlock is checked in Buddy, BuddyLists, Heap and Registers. The other runs
switch it off because the modelled program may stop: a panic, the end of the
loads, or a handler that waits.

## Fairness

* Buddy: weak fairness of the steps of a call in progress, since the code runs on;
  none on starting a call.
* Syscall: weak fairness of the steps of a call; none on making one.
* Kernel: weak fairness of the handlers, exceptions included; strong fairness of the timer
  interrupt, because the local APIC keeps a pending tick while interrupts are off
  and its timer is periodic; strong fairness of each thread's steps, because the
  period (2,500,000 counts at divider 16) is far longer than a handler, so the
  interrupted thread runs between two ticks. Entering a syscall is never fair: a
  task need not make one.

## Proofs

Each proof module proves an inductive invariant with one case per action. What a
loop or a list of the code computes is proved for every length: the lemmas `LeastNumber`,
`Induction` and `Iterate`, at the head of the modules that use them, derive
induction over the numbers, and that a function defined by recursion over
0 .. n exists, from the well-foundedness of <.

*Buddy*, for every MAX_ORDER, MAX_PAGES and set of frames (assuming only that
they are numbers, and the defining facts of powers of two, `PowersOfTwo`):
`IInv` joins the types, alignment, disjointness, the bitmap, complete merging and
conservation. None of them is inductive alone: dealloc merges on the strength of
a bit, so disjointness needs the bitmap; a bit tells "both free" from "both used"
only if two free buddies never coexist, so the bitmap needs complete merging; and
the pair of a bit is well defined only for aligned blocks. Theorems:
`TypeCorrect`, `BlocksDisjoint`, `BlocksAligned`, `EagerMerging`,
`BitmapCorrect`, `RemoveFindsBuddy`, `NoPageLost`, `AllocBitsCorrect`.
`NoneIsHonest` proves `NoneMeansNoRun`: the lists alloc has passed are empty
(`Searched`), and by induction over the orders free blocks that fill an aligned
run contain one that holds all of it, since two halves that are both free would
have been merged (`FilledIsWhole`).

*BuddyLists*, for the same constants, if MAX_PAGES is a multiple of the largest
block and the values None and Junk are no pages: `LInv` is the abstract
invariant under the refinement mapping, plus `LinksOK`, that each list is a chain
of distinct blocks linked both ways. A chain is kept by `push_free` only if the
block is on no list, and by `remove_frame` only if it is on that list; both
follow from the theorems about Buddy, which is why BuddyProofs is instantiated
with the mapping and its invariant is carried along. Theorems:
`ListsDoublyLinked`, and `ListsImplementBuddy`: every step is a step of
`Buddy!Spec` or a stutter.

*BootFrames*, for every page size, huge page size that is a multiple of it,
MAX_RANGES and memory map in which no two usable regions overlap
(`MemoryMapAssumption`; the "# Safety" section of `init` asks its caller for a
valid map): `IInv` says that the ranges are ordered, page-aligned and apart, that
free and held frames split what init accepted, that the counters are their bytes,
and that nothing fits a request that has just got None. The lemmas say what
the filter, the sort, the insertion, the cut and the merge do to the set of
frames, by induction over the array. Theorems: `FramesAreConserved`,
`AllocationsDoNotPanic`, `NoneIsJustified`, `FreesMerge`, `AnswersFitRequests`.

*Heap* with *Slub*, for every page and header size, finite set of pages and
set of cache sizes that are powers of two, hold at least one object and have a
largest (`SlabAssumption`, `LayoutAssumption`): `HeapInv` says of each slab that
its freelist and its callers split the slots and that `in_use` counts the latter,
of each partial list that it is a chain of exactly the slabs with room, and of
each page that it has one owner if the buddy allocator took it, else none. So the head of a partial list always has a free
slot, and alloc's loop that drops full slabs never turns (`HeadHasRoom`). Theorems: `SlotsAreExact`, `PartialIsExact`,
`PagesAreAccounted`, `ObjectsArePlaced`, `NullIsExhaustion`.

*Elf*, for every page size, file with at most `phnum` headers, set of pages mapped
before, finite set of frames, page-aligned stack and number of loads: `IInv` says
which pages the loop counters are past, that those hold the file's bytes, that the
pages in use are exactly these and the ones the load found, with none in both or
twice among these (so a mapping is refused only for a page that makes the file
not loadable), and where every frame is. Theorems: `ImageIsExact`,
`FramesAreAccounted`, `LoadsAreExact`.

*Registers*, for any number of tasks, if at most one makes syscalls and no tick
comes between `start()` and the first task of several (`OneCaller`, `Quiet`; with
main's one task both hold). `RInv` says where the twenty registers of every thread
are: in the CPU, in the frame of a tick, in Task.context, and for a task inside
`syscall_handler` which of them are on the syscall stack at each instruction; a
tick writes below the stack pointer, so it keeps the words a suspended syscall
needs. Theorems: `RegistersAreKept`, `CallsAreWellFormed`, `TicksResumeExactly`.

*Kernel*, for every number of tasks, set of callers, set of devices, with and
without failures: `KernelInv` adds to the types that SERIAL1 is held only
between the halves of `_print` with interrupts off, that a context saved by the
scheduler is never inside syscall entry, that main adds tasks only before the
scheduler is initialised, and that the frame on the syscall stack is a task's as
soon as a syscall is under way (`sysretq` would otherwise lead to no thread).
Theorems: `KernelTypes`, `SerialSafe`, `SyscallEntrySafe`.

On top of it, for the same constants, `HoldInv` adds which steps of main hold
SCHEDULER: `TicksWaitOnlyForBoot`. `CallInv` adds that the context read for the
first `iretq` is task 0's as created or main's, that nobody but main runs before
`start()`, that `current` is a task that was added (so with two tasks `schedule` really
leaves it: `NextDiffers`), and that a task inside a syscall has its own frame on the
syscall stack. It is kept by every step of a behaviour in which no two tasks are
inside syscalls at once (`CallsApart`): `SwitchesCorrect`. If at most one task makes
syscalls (`OneCaller`, as with main's one task), only it is ever inside the kernel
(`CallerInv`), so `CallsApart` holds: `OneCallerSwitches`. The hypothesis cannot be
dropped: KernelSyscallStack is the counterexample.

*Syscall*, for every width of addresses, limit of user space below the largest
address, heap and mapping: `SyscallInv` ties the copy to the call. Once the checks
are passed the buffer lies in user space in unbounded arithmetic (`ChecksExact`),
so no address of the loop wraps (`AddressExact`), so the copy is a prefix of the
buffer at every step and the whole of it when the loop ends; the text, borrowed or
copied, differs from it only in the bytes replaced; and an allocation is live only between its step and `Drop`. Theorems: `AnswersTruthful`,
`ReadsConfined`, `HeapBalanced`.

Only model-checked: liveness (`CallsReturn`, `EveryTaskRuns`, `SyscallsReturn`,
`CallsEnd`) and with it the fairness half of `Refinement`, which the prover does
not handle; and `HandoverExact` and `BytesRouted` of Startup, which composes three
modules and whose frames are counted at every step of main. `BlocksAligned` and
`AllocBitsCorrect` are only proved.

## Not modelled

* Page-table reads (`memory::init`, `translate_addr`): they change no state, and
  nothing calls `translate_addr`.
* `drivers/acpi.rs`: callbacks for the acpi crate without state of their own; the
  kernel takes two addresses from the result.
* The feature bits in CR0, CR4 and EFER, the initialisation of the UART and of the
  mouse: register and port writes whose effect is inside the hardware.
* Decoding of scancodes and mouse packets: library code.
* `pit.rs`, `pop_event` and `has_events` (nothing uses them), the QEMU runner, the
  host tests and the user programs, which the models take as arbitrary.
* The front buffer: its size is the bootloader's. `flip` takes pixels to have four
  bytes and never reads the mode's bytes per pixel.
* Formatting, colours and the wording of messages.

## Open

* The buddy allocator itself under Heap, instead of the set of free pages: the
  composition is out of reach of a run of a few minutes.
* Proofs for Startup and Apic.
