----------------------------- MODULE ElfProofs ------------------------------
(***************************************************************************)
(* What load_elf leaves behind, for every page size, file and number of    *)
(* frames: the image is the file's (ImageExact), no frame is in two places *)
(* or lost unexplained (FramesAccounted), and, frames permitting, the      *)
(* files that load are the loadable ones (LoadsExactlyLoadable).           *)
(***************************************************************************)
EXTENDS Elf, FiniteSetTheorems, TLAPS

Active == {"header", "segment", "stack"}

\* Page p of segment k has been loaded, as far as the loop counters tell.
Behind(k, p) == k < i \/ (k = i /\ (stage = "segment" => p < page))

StackBehind(p) == stage \in {"stack", "loaded"} /\ p < page

Holds(p, contents, nx) ==
  /\ p \in DOMAIN page_table
  /\ memory[page_table[p].frame] = contents
  /\ page_table[p].nx = nx

TypeOK ==
  /\ stage \in Active \union {"idle", "loaded", "failed", "panicked"}
  /\ file \in Files /\ i \in Nat /\ page \in Nat
  /\ page_table \in [DOMAIN page_table -> [frame : Frames, nx : BOOLEAN]]
  /\ memory \in [Frames -> [0 .. PAGE_SIZE - 1 -> Int]]
  /\ free \subseteq Frames /\ tables \subseteq Frames
  /\ stacks \subseteq Frames /\ leaked \subseteq Frames
  /\ next_task_id \in Nat

\* Every frame is in one place, and each load may have lost one.
FrameInv ==
  /\ Frames = UNION {free, Mapped, tables, stacks, leaked}
  /\ Mapped \intersect free = {}
  /\ tables \intersect (free \union Mapped) = {}
  /\ stacks \intersect (free \union Mapped \union tables) = {}
  /\ leaked \intersect (free \union Mapped \union tables \union stacks) = {}
  /\ \A p, q \in DOMAIN page_table : page_table[p].frame = page_table[q].frame => p = q
  /\ Cardinality(leaked) < next_task_id
  /\ stage \in Active => Cardinality(leaked) + 1 < next_task_id

\* The counters are where the loops can have them.
CursorInv ==
  /\ stage \in {"header", "segment"} => i <= Len(file.headers)
  /\ stage = "segment" => /\ i \in Segments /\ page % PAGE_SIZE = 0
                          /\ page >= StartPage(file.headers[i])
  /\ stage \in {"stack", "loaded"} => /\ i > Len(file.headers) /\ page % PAGE_SIZE = 0
                                      /\ page >= StackBottom
                                      /\ file.phnum <= Len(file.headers)
  /\ stage = "loaded" => page >= USER_STACK_TOP

\* What the counters are past is in memory.
ImageInv ==
  stage \in Active \union {"loaded"} =>
    /\ \A k \in Segments : \A p \in PagesOf(file.headers[k]) :
         Behind(k, p) =>
           Holds(p, PageContents(file.headers[k], p), ~file.headers[k].exec)
    /\ \A p \in StackPages : StackBehind(p) => Holds(p, ZeroPage, TRUE)

\* The pages in use are those the load found and those the counters are past,
\* and no page is two of these.
LoadInv ==
  stage \in Active \union {"loaded"} =>
    /\ file.valid
    /\ before \subseteq Taken
    /\ \A p \in Taken :
         \/ p \in before
         \/ \E k \in Segments : p \in PagesOf(file.headers[k]) /\ Behind(k, p)
         \/ p \in StackPages /\ StackBehind(p)
    /\ \A k \in Segments : \A p \in PagesOf(file.headers[k]) :
         Behind(k, p) =>
           /\ p \notin before
           /\ ~(p \in StackPages /\ StackBehind(p))
           /\ \A j \in Segments : p \in PagesOf(file.headers[j]) /\ Behind(j, p) => j = k
    /\ \A p \in StackPages : StackBehind(p) => p \notin before

\* A load that failed with frames to spare had a file that is not loadable.
FailedInv == stage = "failed" /\ free # {} => ~Loadable(file, before)

IInv ==
  /\ TypeOK /\ FrameInv /\ CursorInv /\ ImageInv /\ LoadInv
  /\ FailedInv
-----------------------------------------------------------------------------
\* The larger of two numbers.
LEMMA MaxTwo ==
  ASSUME NEW x \in Int, NEW y \in Int
  PROVE  Max({x, y}) = IF x >= y THEN x ELSE y
<1>. DEFINE m == IF x >= y THEN x ELSE y
<1>1. m \in {x, y} /\ \A z \in {x, y} : m >= z
  OBVIOUS
<1>2. \A n \in {x, y} : (\A z \in {x, y} : n >= z) => n = m
  OBVIOUS
<1>. QED  BY <1>1, <1>2 DEF Max

\* The smaller of two numbers, in the same way.
LEMMA MinTwo ==
  ASSUME NEW x \in Int, NEW y \in Int
  PROVE  Min({x, y}) = IF x <= y THEN x ELSE y
<1>. DEFINE m == IF x <= y THEN x ELSE y
<1>1. m \in {x, y} /\ \A z \in {x, y} : m <= z
  OBVIOUS
<1>2. \A n \in {x, y} : (\A z \in {x, y} : n <= z) => n = m
  OBVIOUS
<1>. QED  BY <1>1, <1>2 DEF Min

\* Division with rest.
LEMMA DivMod ==
  ASSUME NEW d \in Nat \ {0}, NEW x \in Int
  PROVE  x = (x \div d) * d + (x % d)
OBVIOUS

\* AlignDown rounds down to a multiple of the page size, and % is the rest.
LEMMA AlignDownRounds ==
  ASSUME NEW x \in Nat
  PROVE  /\ AlignDown(x) \in Nat /\ AlignDown(x) % PAGE_SIZE = 0
         /\ x % PAGE_SIZE \in 0 .. PAGE_SIZE - 1
         /\ x = AlignDown(x) + (x % PAGE_SIZE)
<1>. PAGE_SIZE \in Nat /\ PAGE_SIZE > 0
  BY ElfAssumption
<1>. DEFINE q == x \div PAGE_SIZE
<1>1. q \in Nat /\ x % PAGE_SIZE \in 0 .. PAGE_SIZE - 1
  OBVIOUS
<1>2. x = q * PAGE_SIZE + (x % PAGE_SIZE)
  BY DivMod
<1>3. q * PAGE_SIZE \in Nat
  BY <1>1
<1>4. (q * PAGE_SIZE) % PAGE_SIZE = 0
  BY <1>1
<1>. QED  BY <1>1, <1>2, <1>3, <1>4 DEF AlignDown

\* Between a page and the next there is no third.
LEMMA NextPage ==
  ASSUME NEW x \in Nat, NEW y \in Nat, x % PAGE_SIZE = 0, y % PAGE_SIZE = 0,
         x < y + PAGE_SIZE
  PROVE  x <= y
<1>. PAGE_SIZE \in Nat /\ PAGE_SIZE > 0
  BY ElfAssumption
<1>. DEFINE a == x \div PAGE_SIZE  b == y \div PAGE_SIZE
<1>1. a \in Nat /\ b \in Nat
  OBVIOUS
<1>2. x = a * PAGE_SIZE /\ y = b * PAGE_SIZE
  BY <1>1, DivMod
<1>. HIDE DEF a, b
<1>3. a * PAGE_SIZE < b * PAGE_SIZE + PAGE_SIZE
  BY <1>2
<1>4. a < b + 1
  BY <1>1, <1>3
<1>5. a * PAGE_SIZE <= b * PAGE_SIZE
  BY <1>1, <1>4
<1>. QED  BY <1>2, <1>5

\* The page after a page is a page.
LEMMA PageAfter ==
  ASSUME NEW x \in Nat, x % PAGE_SIZE = 0
  PROVE  x + PAGE_SIZE \in Nat /\ (x + PAGE_SIZE) % PAGE_SIZE = 0
<1>. PAGE_SIZE \in Nat /\ PAGE_SIZE > 0
  BY ElfAssumption
<1>. DEFINE a == x \div PAGE_SIZE
<1>1. a \in Nat
  OBVIOUS
<1>2. x = a * PAGE_SIZE
  BY <1>1, DivMod
<1>. HIDE DEF a
<1>3. x + PAGE_SIZE = (a + 1) * PAGE_SIZE
  BY <1>1, <1>2
<1>4. ((a + 1) * PAGE_SIZE) % PAGE_SIZE = 0
  BY <1>1
<1>. QED  BY <1>3, <1>4

\* The page of an address of a segment is one of the segment's pages.
LEMMA PageOfAddress ==
  ASSUME NEW s \in Nat, s % PAGE_SIZE = 0, NEW e \in Int, NEW a \in s .. e - 1
  PROVE  AlignDown(a) \in {p \in s .. e - 1 : p % PAGE_SIZE = 0}
<1>. PAGE_SIZE \in Nat /\ PAGE_SIZE > 0
  BY ElfAssumption
<1>1. a \in Nat
  OBVIOUS
<1>2. AlignDown(a) \in Nat /\ AlignDown(a) % PAGE_SIZE = 0
  BY <1>1, AlignDownRounds
<1>3. PICK r \in 0 .. PAGE_SIZE - 1 : a = AlignDown(a) + r
  BY <1>1, AlignDownRounds
<1>4. AlignDown(a) <= a /\ a < AlignDown(a) + PAGE_SIZE
  BY <1>2, <1>3
<1>5. s <= AlignDown(a)
  BY <1>2, <1>4, NextPage
<1>. QED  BY <1>2, <1>4, <1>5

\* What is copied into a page is what the segment says of each of its bytes:
\* the copy bounds of load_elf place byte vaddr + n of the file at address
\* vaddr + n, in the first, the last and the middle pages of a segment.
LEMMA PageContentsExact ==
  ASSUME NEW ph \in ProgramHeader, NEW a \in Nat
  PROVE  PageContents(ph, AlignDown(a))[a % PAGE_SIZE] = SegmentByte(ph, a)
<1>. DEFINE p == AlignDown(a)  o == a % PAGE_SIZE
<1>. PAGE_SIZE \in Nat /\ PAGE_SIZE > 0
  BY ElfAssumption
<1>0. p \in Nat /\ o \in 0 .. PAGE_SIZE - 1 /\ a = p + o
  BY AlignDownRounds
<1>. HIDE DEF p, o
<1>1. ph.vaddr \in Nat /\ ph.offset \in Nat /\ ph.filesz \in Nat
  BY DEF ProgramHeader
<1>2. CopyStart(ph, p) = IF ph.vaddr >= p THEN ph.vaddr ELSE p
  BY <1>0, <1>1, MaxTwo DEF CopyStart
<1>3. Min({ph.vaddr + ph.filesz, p + PAGE_SIZE})
        = IF ph.vaddr + ph.filesz <= p + PAGE_SIZE THEN ph.vaddr + ph.filesz ELSE p + PAGE_SIZE
  BY <1>0, <1>1, MinTwo
<1>. DEFINE start == CopyStart(ph, p)  len == CopyLen(ph, p)
<1>4. start \in Nat /\ start >= p /\ start >= ph.vaddr /\ (start = p \/ start = ph.vaddr)
  BY <1>0, <1>1, <1>2
<1>5. start + len <= p + PAGE_SIZE \/ len = 0
  BY <1>0, <1>1, <1>2, <1>3 DEF CopyLen
<1>6. len \in Int
  BY <1>0, <1>1, <1>2, <1>3 DEF CopyLen
<1>7. o \in start - p .. start - p + len - 1 <=> a \in ph.vaddr .. ph.vaddr + ph.filesz - 1
  BY <1>0, <1>1, <1>2, <1>3 DEF CopyLen
<1>8. PageContents(ph, p)[o]
        = IF o \in start - p .. start - p + len - 1
          THEN FileOffset(ph, p) + (o - (start - p)) + 1 ELSE 0
  BY <1>0 DEF PageContents
<1>9. FileOffset(ph, p) + (o - (start - p)) + 1 = 1 + ph.offset + (a - ph.vaddr)
  BY <1>0, <1>1, <1>4 DEF FileOffset
<1>10. PageContents(ph, p)[o] = SegmentByte(ph, a)
  BY <1>7, <1>8, <1>9 DEF SegmentByte
<1>. QED  BY <1>10 DEF p, o

\* A page's contents are numbers.
LEMMA PageContentsType ==
  ASSUME NEW ph \in ProgramHeader, NEW p \in Nat
  PROVE  PageContents(ph, p) \in [0 .. PAGE_SIZE - 1 -> Int]
<1>. PAGE_SIZE \in Nat /\ PAGE_SIZE > 0
  BY ElfAssumption
<1>1. ph.vaddr \in Nat /\ ph.offset \in Nat /\ ph.filesz \in Nat
  BY DEF ProgramHeader
<1>2. CopyStart(ph, p) \in Int
  BY <1>1, MaxTwo DEF CopyStart
<1>3. FileOffset(ph, p) \in Int
  BY <1>1, <1>2 DEF FileOffset
<1>. QED  BY <1>2, <1>3 DEF PageContents
-----------------------------------------------------------------------------
\* The headers of a file are program headers, and its segments some of them.
LEMMA HeaderTypes ==
  ASSUME TypeOK
  PROVE  /\ file.headers \in Seq(ProgramHeader) /\ Len(file.headers) \in Nat
         /\ file.phnum \in Nat /\ Len(file.headers) <= file.phnum
         /\ \A k \in DOMAIN file.headers : k \in 1 .. Len(file.headers)
                                           /\ file.headers[k] \in ProgramHeader
         /\ \A k \in Segments : k \in 1 .. Len(file.headers)
                                /\ file.headers[k] \in ProgramHeader /\ file.headers[k].load
<1>1. file.headers \in Seq(ProgramHeader) /\ file.phnum \in Nat
  BY ElfAssumption DEF TypeOK
<1>2. Len(file.headers) <= file.phnum
  BY ElfAssumption DEF TypeOK
<1>. QED  BY <1>1, <1>2 DEF Segments

\* The first page of a segment is a page, its last a number.
LEMMA SegmentBounds ==
  ASSUME NEW ph \in ProgramHeader
  PROVE  /\ StartPage(ph) \in Nat /\ StartPage(ph) % PAGE_SIZE = 0
         /\ EndPage(ph) \in Nat
<1>1. ph.vaddr \in Nat /\ ph.memsz \in Nat /\ PAGE_SIZE \in Nat \ {0}
  BY ElfAssumption DEF ProgramHeader
<1>2. ph.vaddr + ph.memsz + PAGE_SIZE - 1 \in Nat
  BY <1>1
<1>. QED  BY <1>1, <1>2, AlignDownRounds DEF StartPage, EndPage, AlignUp

\* A page mapped by map_user_page gets a frame of its own: it holds what was
\* written there, every page mapped before keeps its frame, contents and
\* flags, and the frames stay apart.
LEMMA MapSucceedsKeeps ==
  ASSUME TypeOK, FrameInv, UNCHANGED stacks,
         NEW nx \in BOOLEAN, NEW contents \in [0 .. PAGE_SIZE - 1 -> Int],
         MapSucceeds(nx, contents)
  PROVE  /\ page_table' \in [DOMAIN page_table' -> [frame : Frames, nx : BOOLEAN]]
         /\ memory' \in [Frames -> [0 .. PAGE_SIZE - 1 -> Int]]
         /\ free' \subseteq Frames /\ tables' \subseteq Frames /\ leaked' = leaked
         /\ page \notin Taken
         /\ DOMAIN page_table' = DOMAIN page_table \union {page}
         /\ memory'[page_table'[page].frame] = contents /\ page_table'[page].nx = nx
         /\ \A p \in DOMAIN page_table :
              /\ page_table'[p] = page_table[p]
              /\ memory'[page_table'[p].frame] = memory[page_table[p].frame]
         /\ Frames = UNION {free', Mapped', tables', stacks', leaked'}
         /\ Mapped' \intersect free' = {}
         /\ tables' \intersect (free' \union Mapped') = {}
         /\ stacks' \intersect (free' \union Mapped' \union tables') = {}
         /\ leaked' \intersect (free' \union Mapped' \union tables' \union stacks') = {}
         /\ \A p, q \in DOMAIN page_table' :
              page_table'[p].frame = page_table'[q].frame => p = q
<1>1. PICK f \in free, t \in SUBSET free :
         /\ f \notin t
         /\ free' = free \ ({f} \union t)
         /\ tables' = tables \union t
         /\ page_table' = [p \in DOMAIN page_table \union {page} |->
                             IF p = page THEN [frame |-> f, nx |-> nx] ELSE page_table[p]]
         /\ memory' = [memory EXCEPT ![f] = contents]
  BY DEF MapSucceeds
<1>2. /\ page \notin Taken /\ page \notin DOMAIN page_table
      /\ leaked' = leaked /\ stacks' = stacks
  BY DEF MapSucceeds, Taken
<1>3. f \in Frames /\ f \notin Mapped
  BY DEF TypeOK, FrameInv
<1>4. \A p \in DOMAIN page_table :
        page_table[p].frame \in Mapped /\ page_table[p] \in [frame : Frames, nx : BOOLEAN]
  BY DEF TypeOK, Mapped
<1>5. DOMAIN page_table' = DOMAIN page_table \union {page}
  BY <1>1
<1>6. page_table'[page] = [frame |-> f, nx |-> nx]
  BY <1>1
<1>7. \A p \in DOMAIN page_table : page_table'[p] = page_table[p]
  BY <1>1, <1>2
<1>8. Mapped' = Mapped \union {f}
  BY <1>5, <1>6, <1>7 DEF Mapped
<1>9. memory' \in [Frames -> [0 .. PAGE_SIZE - 1 -> Int]] /\ memory'[f] = contents
      /\ \A g \in Mapped : memory'[g] = memory[g]
  BY <1>1, <1>3, <1>4 DEF TypeOK, Mapped
<1>10. page_table' \in [DOMAIN page_table' -> [frame : Frames, nx : BOOLEAN]]
  <2>1. page_table' = [p \in DOMAIN page_table' |-> page_table'[p]]
    BY <1>1
  <2>2. \A p \in DOMAIN page_table' : page_table'[p] \in [frame : Frames, nx : BOOLEAN]
    BY <1>3, <1>4, <1>5, <1>6, <1>7
  <2>. QED  BY <2>1, <2>2
<1>11. free' \subseteq Frames /\ tables' \subseteq Frames
  BY <1>1 DEF TypeOK
<1>12. \A p \in DOMAIN page_table :
         memory'[page_table'[p].frame] = memory[page_table[p].frame]
  BY <1>4, <1>7, <1>9
<1>13. /\ Frames = UNION {free', Mapped', tables', stacks', leaked'}
       /\ Mapped' \intersect free' = {}
       /\ tables' \intersect (free' \union Mapped') = {}
       /\ stacks' \intersect (free' \union Mapped' \union tables') = {}
       /\ leaked' \intersect (free' \union Mapped' \union tables' \union stacks') = {}
  BY <1>1, <1>2, <1>3, <1>8 DEF FrameInv
<1>14. \A p, q \in DOMAIN page_table' :
         page_table'[p].frame = page_table'[q].frame => p = q
  BY <1>3, <1>4, <1>5, <1>6, <1>7 DEF FrameInv
<1>15. memory'[page_table'[page].frame] = contents /\ page_table'[page].nx = nx
  BY <1>6, <1>9
<1>. QED  BY <1>2, <1>5, <1>7, <1>9, <1>10, <1>11, <1>12, <1>13, <1>14, <1>15

\* A page that map_user_page fails to map costs the frame it took.
LEMMA MapFailsKeeps ==
  ASSUME TypeOK, FrameInv, stage \in Active, UNCHANGED <<stacks, next_task_id>>,
         NoFrame \/ MapFails
  PROVE  /\ stage' = "failed" /\ UNCHANGED <<page_table, memory>>
         /\ free' \subseteq Frames /\ tables' \subseteq Frames /\ leaked' \subseteq Frames
         /\ FrameInv'
<1>0. IsFiniteSet(leaked) /\ Cardinality(leaked) \in Nat
  BY ElfAssumption, FS_Subset, FS_CardinalityType DEF TypeOK
<1>1. stage' = "failed" /\ UNCHANGED <<page_table, memory>> /\ stacks' = stacks
      /\ next_task_id' = next_task_id
  BY DEF NoFrame, MapFails, Go
<1>2. Mapped' = Mapped
  BY <1>1 DEF Mapped
<1>3. CASE NoFrame
  <2>1. UNCHANGED <<free, tables, leaked>>
    BY <1>3 DEF NoFrame
  <2>. QED  BY <1>1, <1>2, <2>1 DEF TypeOK, FrameInv, Active
<1>4. CASE MapFails
  <2>1. PICK f \in free :
          /\ leaked' = leaked \union {f}
          /\ \/ free' = free \ {f} /\ tables' = tables
             \/ free' = {} /\ tables' = tables \union (free \ {f})
    BY <1>4 DEF MapFails
  <2>2. Cardinality(leaked') <= Cardinality(leaked) + 1
    BY <1>0, <2>1, FS_AddElement
  <2>3. Cardinality(leaked') \in Nat
    BY <1>0, <2>1, FS_AddElement, FS_CardinalityType
  <2>4. Cardinality(leaked') < next_task_id'
    BY <1>0, <1>1, <2>2, <2>3 DEF TypeOK, FrameInv
  <2>5. free' \subseteq Frames /\ tables' \subseteq Frames /\ leaked' \subseteq Frames
    BY <2>1 DEF TypeOK
  <2>6. /\ Frames = UNION {free', Mapped', tables', stacks', leaked'}
        /\ Mapped' \intersect free' = {}
        /\ tables' \intersect (free' \union Mapped') = {}
        /\ stacks' \intersect (free' \union Mapped' \union tables') = {}
        /\ leaked' \intersect (free' \union Mapped' \union tables' \union stacks') = {}
    BY <1>1, <1>2, <2>1 DEF FrameInv
  <2>7. \A p, q \in DOMAIN page_table' :
          page_table'[p].frame = page_table'[q].frame => p = q
    BY <1>1 DEF FrameInv
  <2>. QED  BY <1>1, <2>4, <2>5, <2>6, <2>7 DEF FrameInv, Active
<1>. QED  BY <1>3, <1>4
-----------------------------------------------------------------------------
\* The invariant holds at the start: nothing mapped, every frame free.
LEMMA InitIInv == Init => IInv
<1>. SUFFICES ASSUME Init PROVE IInv
  OBVIOUS
<1>. USE DEF Init
<1>1. DOMAIN page_table = {} /\ Mapped = {}
  BY DEF Mapped
<1>2. TypeOK
  BY <1>1 DEF TypeOK, Active, Junk
<1>3. FrameInv
  BY <1>1, FS_EmptySet DEF FrameInv, Active
<1>4. CursorInv /\ ImageInv /\ LoadInv /\ FailedInv
  BY <1>1 DEF CursorInv, ImageInv, LoadInv, FailedInv, Active
<1>. QED  BY <1>2, <1>3, <1>4 DEF IInv

\* from_elf starts with nothing behind the counters.
LEMMA FromElfStep ==
  ASSUME IInv, NEW f \in Files, from_elf(f)
  PROVE  IInv'
<1>. USE DEF IInv
<1>0. IsFiniteSet(leaked) /\ Cardinality(leaked) \in Nat
  BY ElfAssumption, FS_Subset, FS_CardinalityType DEF TypeOK
<1>1. /\ UNCHANGED <<page_table, memory, free, tables, stacks, leaked>>
      /\ file' = f /\ i' = 0 /\ page' = 0 /\ before' = Taken /\ next_task_id' = next_task_id + 1
      /\ stage' \in {"header", "failed"} /\ (stage' = "header" => f.valid)
      /\ (stage' = "failed" => ~f.valid)
  BY DEF from_elf, Go, HeaderValid
<1>2. TypeOK'
  BY <1>1 DEF TypeOK, Active
<1>3. Mapped' = Mapped
  BY <1>1 DEF Mapped
<1>4. FrameInv'
  BY <1>0, <1>1, <1>3 DEF FrameInv, TypeOK, Active
<1>5. CursorInv'
  <2>1. Len(f.headers) \in Nat
    BY ElfAssumption
  <2>. QED  BY <1>1, <2>1 DEF CursorInv
<1>6. \A k \in Segments' : \A p : ~Behind(k, p)'
  <2>1. f.headers \in Seq(ProgramHeader) /\ Segments' \subseteq DOMAIN f.headers
    BY <1>1, ElfAssumption DEF Segments
  <2>2. \A k \in Segments' : k \in Nat /\ k > 0
    BY <2>1
  <2>. QED  BY <1>1, <2>2 DEF Behind
<1>7. ImageInv'
  BY <1>1, <1>6 DEF ImageInv, StackBehind
<1>8. LoadInv'
  <2>1. Taken' = Taken
    BY <1>1 DEF Taken
  <2>. QED  BY <1>1, <1>6, <2>1 DEF LoadInv, StackBehind, Active
<1>9. FailedInv'
  BY <1>1 DEF FailedInv, Loadable
<1>. QED  BY <1>2, <1>4, <1>5, <1>7, <1>8, <1>9

\* A step of the header loop puts no new page behind the counters.
LEMMA NextHeaderStep ==
  ASSUME IInv, NextHeader
  PROVE  IInv'
<1>. USE DEF IInv
<1>1. /\ stage = "header" /\ i' = i + 1
      /\ UNCHANGED <<file, page_table, memory, free, tables, stacks, leaked, before, next_task_id>>
  BY DEF NextHeader
<1>2. \/ i' > file.phnum /\ stage' = "stack" /\ page' = StackBottom
      \/ i' <= file.phnum /\ i' > Len(file.headers) /\ stage' = "failed" /\ page' = page
      \/ /\ i' <= Len(file.headers) /\ file.headers[i'].load /\ stage' = "segment"
         /\ page' = StartPage(file.headers[i'])
      \/ /\ i' <= Len(file.headers) /\ ~file.headers[i'].load
         /\ stage' = "header" /\ page' = page
  BY <1>1, HeaderTypes DEF NextHeader, Go, TypeOK
<1>3. i \in Nat /\ Segments' = Segments
  BY <1>1 DEF TypeOK, Segments
<1>4. i' <= Len(file.headers) =>
        i' \in DOMAIN file.headers /\ file.headers[i'] \in ProgramHeader
  BY <1>1, <1>3, HeaderTypes
<1>5. TypeOK'
  BY <1>1, <1>2, <1>3, <1>4, SegmentBounds, ElfAssumption DEF TypeOK, Active
<1>6. FrameInv'
  BY <1>1, <1>2 DEF FrameInv, Active, Mapped
<1>7. CursorInv'
  <2>1. stage' = "segment" => /\ i' \in Segments' /\ page' % PAGE_SIZE = 0
                              /\ page' >= StartPage(file.headers[i'])
    BY <1>1, <1>2, <1>3, <1>4, SegmentBounds DEF Segments
  <2>2. stage' # "loaded"
    BY <1>2
  <2>3. stage' = "stack" => /\ i' > Len(file.headers) /\ page' % PAGE_SIZE = 0
                            /\ page' >= StackBottom
    BY <1>1, <1>2, <1>3, HeaderTypes, ElfAssumption
  <2>4. stage' = "stack" => file.phnum <= Len(file.headers)
    <3>1. i <= Len(file.headers)
      BY <1>1 DEF CursorInv
    <3>. QED  BY <1>1, <1>2, <1>3, <3>1, HeaderTypes
  <2>5. stage' \in {"header", "segment"} => i' <= Len(file.headers)
    BY <1>2
  <2>. QED  BY <1>1, <2>1, <2>2, <2>3, <2>4, <2>5 DEF CursorInv
<1>8. \A k \in Segments : \A p \in PagesOf(file.headers[k]) :
        Behind(k, p)' <=> Behind(k, p)
  <2>. SUFFICES ASSUME NEW k \in Segments, NEW p \in PagesOf(file.headers[k])
                PROVE  Behind(k, p)' <=> Behind(k, p)
    OBVIOUS
  <2>1. k \in 1 .. Len(file.headers) /\ file.headers[k] \in ProgramHeader
        /\ file.headers[k].load
    BY HeaderTypes
  <2>2. p \in Nat /\ p >= StartPage(file.headers[k]) /\ StartPage(file.headers[k]) \in Nat
    BY <2>1, SegmentBounds DEF PagesOf
  <2>3. k = i' => stage' = "segment" /\ page' = StartPage(file.headers[k])
    BY <1>1, <1>2, <1>3, <2>1, HeaderTypes
  <2>. QED  BY <1>1, <1>3, <2>1, <2>2, <2>3 DEF Behind
<1>9. \A p \in StackPages : ~StackBehind(p) /\ ~StackBehind(p)'
  BY <1>1, <1>2, ElfAssumption DEF StackBehind, StackPages
<1>10. ImageInv'
  BY <1>1, <1>3, <1>8, <1>9 DEF ImageInv, Holds, Active
<1>11. LoadInv'
  <2>1. Taken' = Taken
    BY <1>1 DEF Taken
  <2>2. stage \in Active
    BY <1>1 DEF Active
  <2>. QED  BY <1>1, <1>3, <1>8, <1>9, <2>1, <2>2 DEF LoadInv
<1>12. FailedInv'
  <2>1. stage' = "failed" => ~(file.phnum <= Len(file.headers))
    BY <1>1, <1>2, <1>3, HeaderTypes
  <2>. QED  BY <1>1, <2>1 DEF FailedInv, Loadable
<1>. QED  BY <1>5, <1>6, <1>7, <1>10, <1>11, <1>12

\* A segment whose pages are all loaded is behind the counters as a whole.
LEMMA SegmentDoneStep ==
  ASSUME IInv, SegmentDone
  PROVE  IInv'
<1>. USE DEF IInv
<1>1. /\ stage = "segment" /\ stage' = "header" /\ page >= EndPage(file.headers[i])
      /\ UNCHANGED <<file, i, page, page_table, memory, free, tables, stacks, leaked, before,
                     next_task_id>>
  BY DEF SegmentDone, Go
<1>2. i \in Segments /\ file.headers[i] \in ProgramHeader /\ Segments' = Segments
  BY <1>1, HeaderTypes DEF CursorInv, Segments
<1>3. TypeOK'
  BY <1>1 DEF TypeOK, Active
<1>4. FrameInv'
  BY <1>1 DEF FrameInv, Active, Mapped
<1>5. CursorInv' /\ FailedInv'
  BY <1>1 DEF CursorInv, FailedInv
<1>6. \A k \in Segments : \A p \in PagesOf(file.headers[k]) :
        Behind(k, p)' <=> Behind(k, p)
  BY <1>1, <1>2, SegmentBounds DEF Behind, PagesOf, TypeOK
<1>7. \A p \in StackPages : ~StackBehind(p) /\ ~StackBehind(p)'
  BY <1>1 DEF StackBehind
<1>8. ImageInv'
  BY <1>1, <1>2, <1>6, <1>7 DEF ImageInv, Holds, Active
<1>9. LoadInv'
  <2>1. Taken' = Taken
    BY <1>1 DEF Taken
  <2>2. stage \in Active
    BY <1>1 DEF Active
  <2>. QED  BY <1>1, <1>2, <1>6, <1>7, <2>1, <2>2 DEF LoadInv
<1>. QED  BY <1>3, <1>4, <1>5, <1>8, <1>9

\* A page that cannot be mapped ends the load. If frames are left the page was
\* in use when the load began, or wanted by an earlier segment.
LEMMA PageFailsStep ==
  ASSUME IInv, stage \in {"segment", "stack"}, NoFrame \/ MapFails,
         UNCHANGED <<file, i, page, stacks, before, next_task_id>>,
         stage = "segment" => page < EndPage(file.headers[i]),
         stage = "stack" => page < USER_STACK_TOP
  PROVE  IInv'
<1>. USE DEF IInv
<1>1. /\ stage' = "failed" /\ UNCHANGED <<page_table, memory>>
      /\ free' \subseteq Frames /\ tables' \subseteq Frames /\ leaked' \subseteq Frames
      /\ FrameInv'
  BY MapFailsKeeps DEF Active
<1>2. TypeOK'
  BY <1>1 DEF TypeOK
<1>3. CursorInv' /\ ImageInv'
  BY <1>1 DEF CursorInv, ImageInv, Active
<1>4. LoadInv'
  BY <1>1 DEF LoadInv, Active
<1>5. FailedInv'
  <2>. SUFFICES ASSUME Loadable(file, before), free' # {} PROVE FALSE
    BY DEF FailedInv, Loadable, PagesOf, StackPages
  <2>1. page \in Taken
    BY DEF NoFrame, MapFails
  <2>2. stage = "segment" =>
          /\ i \in Segments /\ file.headers[i] \in ProgramHeader
          /\ page \in PagesOf(file.headers[i])
    BY HeaderTypes, SegmentBounds DEF CursorInv, PagesOf, TypeOK
  <2>3. stage = "stack" => page \in StackPages
    BY ElfAssumption DEF CursorInv, StackPages, TypeOK
  <2>4. ~StackBehind(page)
    BY DEF StackBehind, TypeOK
  <2>5. /\ StackPages \intersect before = {}
        /\ \A m, n \in Segments :
             /\ m # n => PagesOf(file.headers[m]) \intersect PagesOf(file.headers[n]) = {}
             /\ PagesOf(file.headers[m]) \intersect (StackPages \union before) = {}
    BY DEF Loadable, Segments
  <2>6. page \notin before
    BY <2>2, <2>3, <2>5
  <2>7. PICK k \in Segments : page \in PagesOf(file.headers[k]) /\ Behind(k, page)
    BY <2>1, <2>4, <2>6 DEF LoadInv, Active
  <2>8. stage = "segment" => k # i
    BY <2>7 DEF Behind, TypeOK
  <2>. QED  BY <2>2, <2>3, <2>5, <2>7, <2>8
<1>. QED  BY <1>1, <1>2, <1>3, <1>4, <1>5

\* A page mapped is the next one behind the counters, and what was behind
\* them before is as it was.
LEMMA PageLoadedStep ==
  ASSUME IInv, stage \in {"segment", "stack"},
         UNCHANGED <<file, i, stacks, before, next_task_id>>,
         NEW nx \in BOOLEAN, NEW contents \in [0 .. PAGE_SIZE - 1 -> Int],
         MapSucceeds(nx, contents), page' = page + PAGE_SIZE,
         stage' \in {stage, "panicked"},
         stage = "segment" => page < EndPage(file.headers[i]),
         stage = "segment" /\ stage' = stage =>
           nx = ~file.headers[i].exec /\ contents = PageContents(file.headers[i], page),
         stage = "stack" => page < USER_STACK_TOP /\ nx = TRUE /\ contents = ZeroPage
  PROVE  IInv'
<1>. USE DEF IInv
<1>0. PAGE_SIZE \in Nat /\ PAGE_SIZE > 0 /\ page \in Nat /\ page % PAGE_SIZE = 0
  BY ElfAssumption DEF TypeOK, CursorInv
<1>1. page' \in Nat /\ page' % PAGE_SIZE = 0
  BY <1>0, PageAfter
<1>. DEFINE Map ==
         /\ page_table' \in [DOMAIN page_table' -> [frame : Frames, nx : BOOLEAN]]
         /\ memory' \in [Frames -> [0 .. PAGE_SIZE - 1 -> Int]]
         /\ free' \subseteq Frames /\ tables' \subseteq Frames /\ leaked' = leaked
         /\ page \notin Taken
         /\ DOMAIN page_table' = DOMAIN page_table \union {page}
         /\ memory'[page_table'[page].frame] = contents /\ page_table'[page].nx = nx
         /\ \A p \in DOMAIN page_table :
              /\ page_table'[p] = page_table[p]
              /\ memory'[page_table'[p].frame] = memory[page_table[p].frame]
<1>2. Map
  BY MapSucceedsKeeps
<1>3. TypeOK'
  BY <1>1, <1>2 DEF TypeOK
<1>4. FrameInv'
  <2>1. /\ Frames = UNION {free', Mapped', tables', stacks', leaked'}
        /\ Mapped' \intersect free' = {}
        /\ tables' \intersect (free' \union Mapped') = {}
        /\ stacks' \intersect (free' \union Mapped' \union tables') = {}
        /\ leaked' \intersect (free' \union Mapped' \union tables' \union stacks') = {}
        /\ \A p, q \in DOMAIN page_table' :
             page_table'[p].frame = page_table'[q].frame => p = q
    BY MapSucceedsKeeps
  <2>. QED  BY <1>2, <2>1 DEF FrameInv, Active
<1>5. Segments' = Segments
  BY DEF Segments
<1>6. CursorInv'
  <2>1. stage = "segment" => page >= StartPage(file.headers[i])
                             /\ StartPage(file.headers[i]) \in Nat /\ i \in Segments
    BY HeaderTypes, SegmentBounds DEF CursorInv
  <2>2. stage = "stack" => /\ page >= StackBottom /\ StackBottom \in Nat
                           /\ i > Len(file.headers) /\ file.phnum <= Len(file.headers)
    BY ElfAssumption DEF CursorInv
  <2>3. stage = "segment" => page' >= StartPage(file.headers[i])
    BY <1>0, <2>1
  <2>4. stage = "stack" => page' >= StackBottom
    BY <1>0, <2>2
  <2>. QED  BY <1>1, <1>5, <2>1, <2>2, <2>3, <2>4 DEF CursorInv
<1>7. \A k \in Segments : \A p \in PagesOf(file.headers[k]) :
        stage' = stage =>
          (Behind(k, p)' <=> Behind(k, p) \/ (stage = "segment" /\ k = i /\ p = page))
  <2>. SUFFICES ASSUME NEW k \in Segments, NEW p \in PagesOf(file.headers[k]), stage' = stage
                PROVE  Behind(k, p)' <=> Behind(k, p) \/ (stage = "segment" /\ k = i /\ p = page)
    OBVIOUS
  <2>1. file.headers[k] \in ProgramHeader
    BY HeaderTypes
  <2>2. p \in Nat /\ p % PAGE_SIZE = 0
    BY <2>1, SegmentBounds DEF PagesOf
  <2>3. p < page' <=> p < page \/ p = page
    BY <1>0, <2>2, NextPage
  <2>. QED  BY <2>3 DEF Behind
<1>8. \A p \in StackPages :
        stage' = stage =>
          (StackBehind(p)' <=> StackBehind(p) \/ (stage = "stack" /\ p = page))
  <2>. SUFFICES ASSUME NEW p \in StackPages, stage' = stage
                PROVE  StackBehind(p)' <=> StackBehind(p) \/ (stage = "stack" /\ p = page)
    OBVIOUS
  <2>1. p \in Nat /\ p % PAGE_SIZE = 0
    BY ElfAssumption DEF StackPages
  <2>2. p < page' <=> p < page \/ p = page
    BY <1>0, <2>1, NextPage
  <2>. QED  BY <2>2 DEF StackBehind
<1>9. ImageInv'
  <2>. SUFFICES ASSUME stage' = stage PROVE ImageInv'
    BY DEF ImageInv, Active
  <2>1. \A p, c, x : Holds(p, c, x) => Holds(p, c, x)'
    BY <1>2 DEF Holds
  <2>2. page \in DOMAIN page_table' /\ memory'[page_table'[page].frame] = contents
        /\ page_table'[page].nx = nx
    BY <1>2
  <2>3. ASSUME NEW k \in Segments, NEW p \in PagesOf(file.headers[k]), Behind(k, p)'
        PROVE  Holds(p, PageContents(file.headers[k], p), ~file.headers[k].exec)'
    <3>1. CASE Behind(k, p)
      <4>1. Holds(p, PageContents(file.headers[k], p), ~file.headers[k].exec)
        BY <3>1 DEF ImageInv, Active
      <4>. QED  BY <1>2, <4>1 DEF Holds
    <3>2. CASE stage = "segment" /\ k = i /\ p = page
      BY <2>2, <3>2 DEF Holds
    <3>. QED  BY <1>7, <2>3, <3>1, <3>2
  <2>4. ASSUME NEW p \in StackPages, StackBehind(p)'
        PROVE  Holds(p, ZeroPage, TRUE)'
    <3>1. CASE StackBehind(p)
      BY <2>1, <3>1 DEF ImageInv, Active
    <3>2. CASE stage = "stack" /\ p = page
      BY <2>2, <3>2 DEF Holds
    <3>. QED  BY <1>8, <2>4, <3>1, <3>2
  <2>. QED  BY <1>5, <2>3, <2>4 DEF ImageInv
<1>10. LoadInv'
  <2>. SUFFICES ASSUME stage' = stage PROVE LoadInv'
    BY DEF LoadInv, Active
  <2>1. Taken' = Taken \union {page} /\ page \notin Taken
    BY <1>2 DEF Taken
  <2>2. ASSUME stage = "segment"
        PROVE  i \in Segments /\ page \in PagesOf(file.headers[i])
    <3>1. i \in Segments /\ page >= StartPage(file.headers[i]) /\ page < EndPage(file.headers[i])
      BY <2>2 DEF CursorInv
    <3>2. StartPage(file.headers[i]) \in Nat /\ EndPage(file.headers[i]) \in Nat
      BY <3>1, HeaderTypes, SegmentBounds
    <3>. QED  BY <1>0, <3>1, <3>2 DEF PagesOf
  <2>3. stage = "stack" => page \in StackPages
    BY ElfAssumption DEF CursorInv, StackPages, TypeOK
  <2>4. file.valid /\ before \subseteq Taken
    BY DEF LoadInv, Active
  <2>5. page \notin before
    BY <2>1, <2>4
  <2>6. /\ \A k \in Segments : \A p \in PagesOf(file.headers[k]) : Behind(k, p) => p # page
        /\ \A p \in StackPages : StackBehind(p) => p # page
    <3>1. \A p, c, x : Holds(p, c, x) => p \in Taken
      BY DEF Holds, Taken
    <3>. QED  BY <2>1, <3>1 DEF ImageInv, Active
  <2>7. ASSUME NEW p \in Taken'
        PROVE  \/ p \in before
               \/ \E k \in Segments : p \in PagesOf(file.headers[k]) /\ Behind(k, p)'
               \/ p \in StackPages /\ StackBehind(p)'
    <3>1. CASE p = page
      BY <1>7, <1>8, <2>2, <2>3, <3>1
    <3>2. CASE p \in Taken
      BY <1>7, <1>8, <3>2 DEF LoadInv, Active
    <3>. QED  BY <2>1, <3>1, <3>2
  <2>8. ASSUME NEW k \in Segments, NEW p \in PagesOf(file.headers[k]), Behind(k, p)'
        PROVE  /\ p \notin before
               /\ ~(p \in StackPages /\ StackBehind(p)')
               /\ \A j \in Segments : p \in PagesOf(file.headers[j]) /\ Behind(j, p)' => j = k
    <3>1. CASE p = page
      <4>1. stage = "segment" /\ k = i
        BY <1>7, <2>6, <2>8, <3>1
      <4>. QED  BY <1>7, <1>8, <2>5, <2>6, <3>1, <4>1
    <3>2. CASE p # page
      <4>1. Behind(k, p)
        BY <1>7, <2>8, <3>2
      <4>. QED  BY <1>7, <1>8, <3>2, <4>1 DEF LoadInv, Active
    <3>. QED  BY <3>1, <3>2
  <2>9. \A p \in StackPages : StackBehind(p)' => p \notin before
    BY <1>8, <2>5 DEF LoadInv, Active
  <2>. QED  BY <1>5, <2>1, <2>4, <2>7, <2>8, <2>9 DEF LoadInv
<1>11. FailedInv'
  BY DEF FailedInv
<1>. QED  BY <1>3, <1>4, <1>6, <1>9, <1>10, <1>11

\* A step of the page loop of a segment.
LEMMA LoadPageStep ==
  ASSUME IInv, LoadPage
  PROVE  IInv'
<1>. DEFINE ph  == file.headers[i]
            oob == CopyLen(ph, page) > 0 /\ FileOffset(ph, page) + CopyLen(ph, page) > file.size
            c   == IF oob THEN ZeroPage ELSE PageContents(ph, page)
<1>1. /\ stage = "segment" /\ page < EndPage(ph)
      /\ UNCHANGED <<file, i, stacks, before, next_task_id>>
  BY DEF LoadPage
<1>2. \/ (NoFrame \/ MapFails) /\ UNCHANGED page
      \/ /\ MapSucceeds(~ph.exec, c) /\ page' = page + PAGE_SIZE
         /\ IF oob THEN Go("panicked") ELSE UNCHANGED stage
  BY DEF LoadPage
<1>3. CASE (NoFrame \/ MapFails) /\ UNCHANGED page
  BY <1>1, <1>3, PageFailsStep
<1>4. CASE /\ MapSucceeds(~ph.exec, c) /\ page' = page + PAGE_SIZE
           /\ IF oob THEN Go("panicked") ELSE UNCHANGED stage
  <2>1. ph \in ProgramHeader /\ page \in Nat
    BY <1>1, HeaderTypes DEF IInv, CursorInv, TypeOK
  <2>2. (~ph.exec) \in BOOLEAN
    OBVIOUS
  <2>3. ZeroPage \in [0 .. PAGE_SIZE - 1 -> Int]
    BY DEF ZeroPage
  <2>4. PageContents(ph, page) \in [0 .. PAGE_SIZE - 1 -> Int]
    BY <2>1, PageContentsType
  <2>5. c \in [0 .. PAGE_SIZE - 1 -> Int]
    BY <2>3, <2>4
  <2>6. stage' \in {stage, "panicked"} /\ (stage' = stage => ~oob)
    BY <1>1, <1>4 DEF Go
  <2>7. stage' = stage => c = PageContents(ph, page)
    BY <2>6
  <2>. HIDE DEF c, oob
  <2>. QED  BY <1>1, <1>4, <2>2, <2>5, <2>6, <2>7, PageLoadedStep
<1>. QED  BY <1>2, <1>3, <1>4

\* A step of the page loop of the stack.
LEMMA StackPageStep ==
  ASSUME IInv, StackPage
  PROVE  IInv'
<1>1. /\ stage = "stack" /\ page < USER_STACK_TOP
      /\ UNCHANGED <<file, i, stacks, before, next_task_id>>
  BY DEF StackPage
<1>2. \/ (NoFrame \/ MapFails) /\ UNCHANGED page
      \/ MapSucceeds(TRUE, ZeroPage) /\ page' = page + PAGE_SIZE /\ UNCHANGED stage
  BY DEF StackPage
<1>3. CASE (NoFrame \/ MapFails) /\ UNCHANGED page
  BY <1>1, <1>3, PageFailsStep
<1>4. CASE MapSucceeds(TRUE, ZeroPage) /\ page' = page + PAGE_SIZE /\ UNCHANGED stage
  <2>1. ZeroPage \in [0 .. PAGE_SIZE - 1 -> Int]
    BY DEF ZeroPage
  <2>. QED  BY <1>1, <1>4, <2>1, PageLoadedStep
<1>. QED  BY <1>2, <1>3, <1>4

\* The kernel stack's page is one that was free.
LEMMA LoadedStep ==
  ASSUME IInv, Loaded
  PROVE  IInv'
<1>. USE DEF IInv
<1>1. /\ stage = "stack" /\ page >= USER_STACK_TOP
      /\ UNCHANGED <<file, i, page, page_table, memory, tables, leaked, before, next_task_id>>
  BY DEF Loaded
<1>2. \/ stage' = "panicked" /\ UNCHANGED <<free, stacks>>
      \/ /\ stage' = "loaded"
         /\ \E f \in free : free' = free \ {f} /\ stacks' = stacks \union {f}
  BY DEF Loaded, Go
<1>3. Segments' = Segments /\ Mapped' = Mapped
  BY <1>1 DEF Segments, Mapped
<1>4. TypeOK'
  BY <1>1, <1>2 DEF TypeOK, Active
<1>5. FrameInv'
  <2>1. /\ Frames = UNION {free', Mapped', tables', stacks', leaked'}
        /\ Mapped' \intersect free' = {}
        /\ tables' \intersect (free' \union Mapped') = {}
        /\ stacks' \intersect (free' \union Mapped' \union tables') = {}
        /\ leaked' \intersect (free' \union Mapped' \union tables' \union stacks') = {}
    BY <1>1, <1>2, <1>3 DEF FrameInv
  <2>. QED  BY <1>1, <1>2, <2>1 DEF FrameInv, Active
<1>6. CursorInv'
  BY <1>1, <1>2 DEF CursorInv
<1>7. \A k \in Segments : \A p : Behind(k, p)' <=> Behind(k, p)
  BY <1>1, <1>2 DEF Behind
<1>8. stage' = "loaded" => \A p : StackBehind(p)' <=> StackBehind(p)
  BY <1>1 DEF StackBehind
<1>9. ImageInv'
  BY <1>1, <1>2, <1>3, <1>7, <1>8 DEF ImageInv, Holds, Active
<1>10. LoadInv'
  <2>1. Taken' = Taken
    BY <1>1 DEF Taken
  <2>2. stage \in Active
    BY <1>1 DEF Active
  <2>3. CASE stage' = "loaded"
    BY <1>1, <1>3, <1>7, <1>8, <2>1, <2>2, <2>3 DEF LoadInv
  <2>4. CASE stage' = "panicked"
    BY <2>4 DEF LoadInv, Active
  <2>. QED  BY <1>2, <2>3, <2>4
<1>11. FailedInv'
  BY <1>2 DEF FailedInv
<1>. QED  BY <1>4, <1>5, <1>6, <1>9, <1>10, <1>11

\* Every step of the loader keeps the invariant.
LEMMA NextIInv == IInv /\ [Next]_vars => IInv'
<1>. SUFFICES ASSUME IInv, [Next]_vars PROVE IInv'
  OBVIOUS
<1>1. CASE \E f \in Files : from_elf(f)
  BY <1>1, FromElfStep
<1>2. CASE NextHeader
  BY <1>2, NextHeaderStep
<1>3. CASE LoadPage
  BY <1>3, LoadPageStep
<1>4. CASE SegmentDone
  BY <1>4, SegmentDoneStep
<1>5. CASE StackPage
  BY <1>5, StackPageStep
<1>6. CASE Loaded
  BY <1>6, LoadedStep
<1>7. CASE UNCHANGED vars
  <2>. USE <1>7 DEF vars, loader, IInv
  <2>1. TypeOK' /\ FrameInv'
    BY DEF TypeOK, FrameInv, Mapped
  <2>2. CursorInv' /\ FailedInv'
    BY DEF CursorInv, FailedInv, Segments
  <2>3. ImageInv'
    BY DEF ImageInv, Behind, StackBehind, Holds, Segments
  <2>4. LoadInv'
    <3>1. /\ Segments' = Segments /\ Taken' = Taken
          /\ \A k, p : Behind(k, p)' <=> Behind(k, p)
          /\ \A p : StackBehind(p)' <=> StackBehind(p)
      BY DEF Segments, Taken, Behind, StackBehind
    <3>. QED  BY <3>1 DEF LoadInv
  <2>. QED  BY <2>1, <2>2, <2>3, <2>4
<1>. QED  BY <1>1, <1>2, <1>3, <1>4, <1>5, <1>6, <1>7 DEF Next

\* In a state of the invariant, the image of a load that has returned is the
\* file's.
LEMMA ImageFromIInv == IInv => ImageExact
<1>. SUFFICES ASSUME IInv, stage = "loaded" PROVE ImageExact
  BY DEF ImageExact
<1>. USE DEF IInv
<1>0. PAGE_SIZE \in Nat /\ PAGE_SIZE > 0
  BY ElfAssumption
<1>1. ASSUME NEW k \in Segments,
             NEW a \in StartPage(file.headers[k]) .. EndPage(file.headers[k]) - 1
      PROVE  /\ AlignDown(a) \in DOMAIN page_table
             /\ Byte(a) = SegmentByte(file.headers[k], a)
             /\ page_table[AlignDown(a)].nx = ~file.headers[k].exec
  <2>1. k \in 1 .. Len(file.headers) /\ file.headers[k] \in ProgramHeader
    BY HeaderTypes
  <2>2. a \in Nat /\ AlignDown(a) \in PagesOf(file.headers[k])
    BY <2>1, SegmentBounds, PageOfAddress DEF PagesOf
  <2>3. Behind(k, AlignDown(a))
    BY <2>1, HeaderTypes DEF Behind, CursorInv, TypeOK
  <2>4. Holds(AlignDown(a), PageContents(file.headers[k], AlignDown(a)), ~file.headers[k].exec)
    BY <2>2, <2>3 DEF ImageInv
  <2>5. Byte(a) = PageContents(file.headers[k], AlignDown(a))[a % PAGE_SIZE]
    BY <2>4 DEF Byte, Holds
  <2>. QED  BY <2>1, <2>2, <2>4, <2>5, PageContentsExact DEF Holds
<1>2. ASSUME NEW a \in StackBottom .. USER_STACK_TOP - 1
      PROVE  AlignDown(a) \in DOMAIN page_table /\ Byte(a) = 0 /\ page_table[AlignDown(a)].nx
  <2>0. StackBottom \in Nat /\ USER_STACK_TOP \in Int /\ StackBottom % PAGE_SIZE = 0
    BY ElfAssumption
  <2>1. a \in Nat /\ AlignDown(a) \in StackPages
    BY <2>0, PageOfAddress DEF StackPages
  <2>2. StackBehind(AlignDown(a))
    BY <2>1, ElfAssumption DEF StackBehind, StackPages, CursorInv, TypeOK
  <2>3. Holds(AlignDown(a), ZeroPage, TRUE)
    BY <2>1, <2>2 DEF ImageInv
  <2>4. ZeroPage[a % PAGE_SIZE] = 0
    BY <2>1, AlignDownRounds DEF ZeroPage
  <2>. QED  BY <2>3, <2>4 DEF Byte, Holds
<1>. QED  BY <1>1, <1>2 DEF ImageExact

\* In a state of the invariant, a file that has been loaded is loadable: by
\* then the counters are past all of its pages.
LEMMA LoadableFromIInv == IInv /\ stage = "loaded" => Loadable(file, before)
<1>. SUFFICES ASSUME IInv, stage = "loaded" PROVE Loadable(file, before)
  OBVIOUS
<1>. USE DEF IInv
<1>1. \A k \in Segments : \A p : Behind(k, p)
  BY HeaderTypes DEF Behind, CursorInv, TypeOK
<1>2. \A p \in StackPages : StackBehind(p)
  BY ElfAssumption DEF StackBehind, StackPages, CursorInv, TypeOK
<1>3. file.valid /\ file.phnum <= Len(file.headers)
  BY DEF LoadInv, CursorInv
<1>4. ASSUME NEW j \in Segments, NEW k \in Segments
      PROVE  /\ j # k => PagesOf(file.headers[j]) \intersect PagesOf(file.headers[k]) = {}
             /\ PagesOf(file.headers[j]) \intersect (StackPages \union before) = {}
  BY <1>1, <1>2 DEF LoadInv
<1>5. StackPages \intersect before = {}
  BY <1>2 DEF LoadInv
<1>. QED  BY <1>3, <1>4, <1>5 DEF Loadable, Segments

\* In a state of the invariant, the frames add up.
LEMMA FramesFromIInv == IInv => FramesAccounted
<1>. SUFFICES ASSUME IInv PROVE FramesAccounted
  OBVIOUS
<1>. USE DEF IInv
<1>1. /\ IsFiniteSet(free) /\ IsFiniteSet(Mapped) /\ IsFiniteSet(tables)
      /\ IsFiniteSet(stacks) /\ IsFiniteSet(leaked)
  <2>1. Mapped \subseteq Frames
    BY DEF FrameInv
  <2>. QED  BY <2>1, ElfAssumption, FS_Subset DEF TypeOK
<1>2. ASSUME NEW S, NEW T, IsFiniteSet(S), IsFiniteSet(T), S \intersect T = {}
      PROVE  IsFiniteSet(S \union T) /\ Cardinality(S \union T) = Cardinality(S) + Cardinality(T)
  <2>1. Cardinality(S) \in Nat /\ Cardinality(T) \in Nat /\ Cardinality(S \intersect T) = 0
    BY <1>2, FS_CardinalityType, FS_EmptySet
  <2>2. /\ IsFiniteSet(S \union T)
        /\ Cardinality(S \union T)
             = Cardinality(S) + Cardinality(T) - Cardinality(S \intersect T)
    BY <1>2, FS_Union
  <2>. QED  BY <2>1, <2>2
<1>3. IsFiniteSet(free \union Mapped)
      /\ Cardinality(free \union Mapped) = Cardinality(free) + Cardinality(Mapped)
  BY <1>1, <1>2 DEF FrameInv
<1>4. IsFiniteSet(free \union Mapped \union tables)
      /\ Cardinality(free \union Mapped \union tables)
           = Cardinality(free \union Mapped) + Cardinality(tables)
  BY <1>1, <1>2, <1>3 DEF FrameInv
<1>5. IsFiniteSet(free \union Mapped \union tables \union stacks)
      /\ Cardinality(free \union Mapped \union tables \union stacks)
           = Cardinality(free \union Mapped \union tables) + Cardinality(stacks)
  <2>1. (free \union Mapped \union tables) \intersect stacks = {}
    BY DEF FrameInv
  <2>. QED  BY <1>1, <1>2, <1>4, <2>1
<1>6. Cardinality(free \union Mapped \union tables \union stacks \union leaked)
        = Cardinality(free \union Mapped \union tables \union stacks) + Cardinality(leaked)
  <2>1. (free \union Mapped \union tables \union stacks) \intersect leaked = {}
    BY DEF FrameInv
  <2>. QED  BY <1>1, <1>2, <1>5, <2>1
<1>7. Frames = free \union Mapped \union tables \union stacks \union leaked
  BY DEF FrameInv
<1>8. Cardinality(DOMAIN page_table) = Cardinality(Mapped)
  <2>. DEFINE frame == [p \in DOMAIN page_table |-> page_table[p].frame]
  <2>1. frame \in Injection(DOMAIN page_table, Mapped)
    BY DEF Injection, IsInjective, Mapped, FrameInv
  <2>2. frame \in Surjection(DOMAIN page_table, Mapped)
    BY DEF Surjection, Mapped
  <2>. HIDE DEF frame
  <2>. QED  BY <1>1, <2>1, <2>2, FS_Injection
<1>. QED  BY <1>3, <1>4, <1>5, <1>6, <1>7, <1>8 DEF FramesAccounted, FrameInv
-----------------------------------------------------------------------------
\* The loader's inductive invariant holds throughout.
LEMMA Invariant == Spec => []IInv
BY InitIInv, NextIInv, PTL DEF Spec

\* elf.rs: whatever the page size, the files and the frames, a load that
\* returns has put the file's bytes, and zeros around them, where the segments
\* say, with the segments' flags, and a zeroed stack.
THEOREM ImageIsExact == Spec => []ImageExact
BY Invariant, ImageFromIInv, PTL

\* user.rs: no sequence of loads puts a frame in two places or loses more than
\* one frame per load.
THEOREM FramesAreAccounted == Spec => []FramesAccounted
BY Invariant, FramesFromIInv, PTL

\* elf.rs, user.rs: whatever was mapped before and however many loads there
\* are, a load succeeds only with a file whose pages nobody else has, and
\* refuses such a file only when the frames have run out.
THEOREM LoadsAreExact == Spec => []LoadsExactlyLoadable
<1>1. IInv => LoadsExactlyLoadable
  BY LoadableFromIInv DEF IInv, FailedInv, LoadsExactlyLoadable
<1>. QED  BY <1>1, Invariant, PTL
=============================================================================
