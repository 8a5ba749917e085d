-------------------------------- MODULE Elf ---------------------------------
(***************************************************************************)
(* Loading a task: Task::from_elf (kernel/src/tasks/task.rs), load_elf     *)
(* (tasks/elf.rs) and map_user_page (mm/user.rs), one page at a time, into *)
(* the kernel's only address space, where the bootloader and map_apic have *)
(* mapped pages before. The frame allocator and map_to are external: a set *)
(* of free frames and a partial map from pages to frames.                  *)
(* A byte of memory is 0, or 1 + the offset in the file it was copied      *)
(* from, or Junk if nothing wrote it.                                      *)
(***************************************************************************)
EXTENDS Integers, Sequences, FiniteSets, FiniteSetsExt, Functions

CONSTANTS
  PAGE_SIZE,       \* 4096 in the code
  StackBottom,     \* USER_STACK_TOP - USER_STACK_SIZE
  USER_STACK_TOP,
  ADDRESS_END,     \* end of the lower half of the canonical addresses, 2^47
  KernelPages,     \* pages mapped, or inside a huge page, before the first load
  Files,           \* ELF files: [valid, size, phnum, headers]
  Frames,          \* frames of the buddy allocator
  MaxLoads         \* calls of from_elf

Junk == -1

MaxNewTables == 3  \* levels of page tables below the top one

ProgramHeader ==
  [load : BOOLEAN, vaddr : Nat, offset : Nat, filesz : Nat, memsz : Nat, exec : BOOLEAN]

\* The headers of a file are those of its phnum entries that lie inside it.
\* Its addresses are such that no sum of load_elf wraps in 64 bits and
\* VirtAddr::new accepts them all.
ASSUME ElfAssumption ==
  /\ PAGE_SIZE \in Nat \ {0} /\ MaxLoads \in Nat
  /\ StackBottom \in Nat /\ USER_STACK_TOP \in Nat
  /\ StackBottom % PAGE_SIZE = 0 /\ USER_STACK_TOP % PAGE_SIZE = 0
  /\ Files \subseteq [valid : BOOLEAN, size : Nat, phnum : Nat, headers : Seq(ProgramHeader)]
  /\ \A f \in Files : Len(f.headers) <= f.phnum
  /\ \A f \in Files : \A k \in DOMAIN f.headers :
       LET ph == f.headers[k]
       IN  /\ ph.vaddr + ph.memsz + PAGE_SIZE <= ADDRESS_END
           /\ ph.vaddr + ph.filesz + PAGE_SIZE <= ADDRESS_END
           /\ ph.offset + ph.filesz <= ADDRESS_END
  /\ ADDRESS_END \in Nat /\ KernelPages \subseteq Nat
  /\ IsFiniteSet(Frames)

VARIABLES
  stage,         \* where load_elf is, or how it ended
  file,          \* the file being loaded
  i,             \* index of its program header
  page,          \* next page of the segment, or of the stack
  page_table,    \* page -> [frame, nx], for the pages map_user_page mapped
  memory,        \* frame -> contents, of the frames mapped
  free,          \* frames the allocator can give
  tables,        \* frames map_to made page tables
  stacks,        \* pages of the tasks' kernel stacks
  leaked,        \* ghost: frames taken and then forgotten
  before,        \* ghost: pages that were taken when the load began
  next_task_id   \* NEXT_TASK_ID

loader == <<stage, file, i, page>>
vars == <<loader, page_table, memory, free, tables, stacks, leaked, before, next_task_id>>

AlignDown(x) == (x \div PAGE_SIZE) * PAGE_SIZE
AlignUp(x)   == AlignDown(x + PAGE_SIZE - 1)

StartPage(ph) == AlignDown(ph.vaddr)
EndPage(ph)   == AlignUp(ph.vaddr + ph.memsz)

ZeroPage == [o \in 0 .. PAGE_SIZE - 1 |-> 0]

CopyStart(ph, p) == Max({ph.vaddr, p})

\* How much of the segment's file data falls in page p, from CopyStart on.
CopyLen(ph, p) ==
  LET len == Min({ph.vaddr + ph.filesz, p + PAGE_SIZE}) - CopyStart(ph, p)
  IN  IF ph.vaddr + ph.filesz > p /\ ph.vaddr < p + PAGE_SIZE THEN len ELSE 0

\* Offset in the file of the first byte copied into page p.
FileOffset(ph, p) == ph.offset + (CopyStart(ph, p) - ph.vaddr)

PageContents_AtPageStart(ph, p) ==
  [o \in 0 .. PAGE_SIZE - 1 |->
     IF o < CopyLen(ph, p) THEN FileOffset(ph, p) + o + 1 ELSE 0]

\* The page zeroed, then the bytes copied to their place in it.
PageContents(ph, p) ==
  LET page_offset == CopyStart(ph, p) - p
  IN  [o \in 0 .. PAGE_SIZE - 1 |->
         IF o \in page_offset .. page_offset + CopyLen(ph, p) - 1
         THEN FileOffset(ph, p) + (o - page_offset) + 1 ELSE 0]

\* Long enough for a header, the magic, 64-bit.
HeaderValid(f) == f.valid

Go(s) == stage' = s

\* Pages map_to refuses: their entry, or a huge page above it, is in use.
Taken == KernelPages \union DOMAIN page_table
-----------------------------------------------------------------------------
Init ==
  /\ stage = "idle" /\ file \in Files /\ i = 1 /\ page = 0
  /\ page_table = <<>>
  /\ memory = [f \in Frames |-> [o \in 0 .. PAGE_SIZE - 1 |-> Junk]]
  /\ free = Frames /\ tables = {} /\ stacks = {} /\ leaked = {} /\ before = {}
  /\ next_task_id = 1

\* from_elf takes an id first; load_elf then checks length, magic and class.
from_elf(f) ==
  /\ stage \in {"idle", "loaded", "failed"}
  /\ next_task_id <= MaxLoads
  /\ next_task_id' = next_task_id + 1
  /\ file' = f /\ i' = 0 /\ page' = 0 /\ before' = Taken
  /\ Go(IF HeaderValid(f) THEN "header" ELSE "failed")
  /\ UNCHANGED <<page_table, memory, free, tables, stacks, leaked>>

\* The next program header: out of bounds, not PT_LOAD, or a segment; after
\* the last one the stack is mapped.
NextHeader ==
  /\ stage = "header"
  /\ i' = i + 1
  /\ IF i' > file.phnum THEN Go("stack") /\ page' = StackBottom
     ELSE IF i' > Len(file.headers) THEN Go("failed") /\ UNCHANGED page
     ELSE IF file.headers[i'].load
     THEN Go("segment") /\ page' = StartPage(file.headers[i'])
     ELSE UNCHANGED <<stage, page>>
  /\ UNCHANGED <<file, page_table, memory, free, tables, stacks, leaked, before, next_task_id>>

\* map_user_page gets no frame.
NoFrame ==
  /\ free = {}
  /\ Go("failed")
  /\ UNCHANGED <<page_table, memory, free, tables, leaked>>

\* It gets one, and map_to refuses it: the page is taken, or the
\* frames run out while map_to still has page tables to add.
MapFails ==
  /\ \E f \in free :
       /\ leaked' = leaked \union {f}
       /\ \/ /\ page \in Taken
             /\ free' = free \ {f}
             /\ UNCHANGED tables
          \/ /\ page \notin Taken
             /\ Cardinality(free \ {f}) < MaxNewTables
             /\ free' = {}
             /\ tables' = tables \union (free \ {f})
  /\ Go("failed")
  /\ UNCHANGED <<page_table, memory>>

MapSucceeds_Remaps(nx, contents) ==
  \E f \in free, t \in SUBSET free :
    /\ Cardinality(t) <= MaxNewTables /\ f \notin t
    /\ free' = free \ ({f} \union t)
    /\ tables' = tables \union t
    /\ page_table' = [p \in DOMAIN page_table \union {page} |->
                        IF p = page THEN [frame |-> f, nx |-> nx] ELSE page_table[p]]
    /\ memory' = [memory EXCEPT ![f] = contents]
    /\ UNCHANGED leaked

\* It maps the page, with up to three new page tables.
MapSucceeds(nx, contents) ==
  /\ page \notin Taken
  /\ \E f \in free, t \in SUBSET free :
       /\ Cardinality(t) <= MaxNewTables /\ f \notin t
       /\ free' = free \ ({f} \union t)
       /\ tables' = tables \union t
       /\ page_table' = [p \in DOMAIN page_table \union {page} |->
                           IF p = page THEN [frame |-> f, nx |-> nx] ELSE page_table[p]]
       /\ memory' = [memory EXCEPT ![f] = contents]
  /\ UNCHANGED leaked

LoadPage_ExtraPage ==
  LET ph == file.headers[i]
  IN  /\ stage = "segment" /\ page <= EndPage(ph)
      /\ \/ /\ NoFrame \/ MapFails
            /\ UNCHANGED page
         \/ /\ MapSucceeds(~ph.exec, PageContents(ph, page))
            /\ page' = page + PAGE_SIZE
            /\ UNCHANGED stage
      /\ UNCHANGED <<file, i, stacks, before, next_task_id>>

\* One page of a segment. A slice beyond the end of the file panics, after the
\* page was mapped and zeroed.
LoadPage ==
  LET ph  == file.headers[i]
      oob == CopyLen(ph, page) > 0 /\ FileOffset(ph, page) + CopyLen(ph, page) > file.size
  IN  /\ stage = "segment" /\ page < EndPage(ph)
      /\ \/ /\ NoFrame \/ MapFails
            /\ UNCHANGED page
         \/ /\ MapSucceeds(~ph.exec, IF oob THEN ZeroPage ELSE PageContents(ph, page))
            /\ page' = page + PAGE_SIZE
            /\ IF oob THEN Go("panicked") ELSE UNCHANGED stage
      /\ UNCHANGED <<file, i, stacks, before, next_task_id>>

SegmentDone ==
  /\ stage = "segment" /\ page >= EndPage(file.headers[i])
  /\ Go("header")
  /\ UNCHANGED <<file, i, page, page_table, memory, free, tables, stacks, leaked,
                 before, next_task_id>>

\* One page of the user stack, at the same address for every task.
StackPage ==
  /\ stage = "stack" /\ page < USER_STACK_TOP
  /\ \/ /\ NoFrame \/ MapFails
        /\ UNCHANGED page
     \/ /\ MapSucceeds(TRUE, ZeroPage)
        /\ page' = page + PAGE_SIZE
        /\ UNCHANGED stage
  /\ UNCHANGED <<file, i, stacks, before, next_task_id>>

\* from_elf boxes a kernel stack of one page and returns the task; without a
\* page the allocation fails, which panics.
Loaded ==
  /\ stage = "stack" /\ page >= USER_STACK_TOP
  /\ IF free = {} THEN Go("panicked") /\ UNCHANGED <<free, stacks>>
     ELSE /\ \E f \in free : free' = free \ {f} /\ stacks' = stacks \union {f}
          /\ Go("loaded")
  /\ UNCHANGED <<file, i, page, page_table, memory, tables, leaked, before, next_task_id>>

Next ==
  \/ \E f \in Files : from_elf(f)
  \/ NextHeader \/ LoadPage \/ SegmentDone \/ StackPage \/ Loaded

Spec == Init /\ [][Next]_vars
-----------------------------------------------------------------------------
\* What an ELF segment says about the byte at address a of its pages.
SegmentByte(ph, a) ==
  IF a \in ph.vaddr .. ph.vaddr + ph.filesz - 1 THEN 1 + ph.offset + (a - ph.vaddr) ELSE 0

Byte(a) == memory[page_table[AlignDown(a)].frame][a % PAGE_SIZE]

Segments == {k \in DOMAIN file.headers : file.headers[k].load}

\* elf.rs: after load_elf has returned, every page of every segment holds the
\* file's bytes where the segment says and zeros elsewhere, is executable only
\* if the segment is, and the whole stack is mapped, zeroed and not executable.
ImageExact ==
  stage = "loaded" =>
    /\ \A k \in Segments :
         LET ph == file.headers[k]
         IN  \A a \in StartPage(ph) .. EndPage(ph) - 1 :
               /\ AlignDown(a) \in DOMAIN page_table
               /\ Byte(a) = SegmentByte(ph, a)
               /\ page_table[AlignDown(a)].nx = ~ph.exec
    /\ \A a \in StackBottom .. USER_STACK_TOP - 1 :
         AlignDown(a) \in DOMAIN page_table /\ Byte(a) = 0 /\ page_table[AlignDown(a)].nx

Mapped == {page_table[p].frame : p \in DOMAIN page_table}

\* user.rs, elf.rs, task.rs: no two pages share a frame, no frame is at once
\* mapped, free, a page table or a kernel stack, and a load that fails loses
\* at most one frame besides the pages and tables it leaves behind.
FramesAccounted ==
  /\ Frames = UNION {free, Mapped, tables, stacks, leaked}
  /\ Cardinality(Frames) = Cardinality(free) + Cardinality(DOMAIN page_table)
                             + Cardinality(tables) + Cardinality(stacks) + Cardinality(leaked)
  /\ Cardinality(leaked) < next_task_id

PagesOf(ph) == {a \in StartPage(ph) .. EndPage(ph) - 1 : a % PAGE_SIZE = 0}
StackPages  == {a \in StackBottom .. USER_STACK_TOP - 1 : a % PAGE_SIZE = 0}

\* A file that load_elf can be expected to load: its headers are in bounds and
\* no page is wanted twice, by two segments or by a segment and the stack, or
\* is one of the pages in use.
Loadable(f, in_use) ==
  /\ f.valid /\ f.phnum <= Len(f.headers)
  /\ \A j, k \in {n \in DOMAIN f.headers : f.headers[n].load} :
       /\ j # k => PagesOf(f.headers[j]) \intersect PagesOf(f.headers[k]) = {}
       /\ PagesOf(f.headers[j]) \intersect (StackPages \union in_use) = {}
  /\ StackPages \intersect in_use = {}

\* elf.rs, user.rs: the first load or a later one, load_elf succeeds only with
\* a file that is loadable in the address space it found, the kernel's pages
\* and the earlier tasks' included: two segments that share a page, a segment
\* on a page of the kernel, a second task's stack at the first one's addresses
\* are refused, never laid over what is there. And it refuses a loadable file
\* only when the frames have run out.
LoadsExactlyLoadable ==
  /\ stage = "loaded" => Loadable(file, before)
  /\ stage = "failed" /\ free # {} => ~Loadable(file, before)
=============================================================================
