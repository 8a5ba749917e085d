------------------------------- MODULE MCElf --------------------------------
(***************************************************************************)
(* Pages of two bytes, a stack of one page at 8, a page of the kernel at   *)
(* 12. Segments start in the middle of a page, end in the middle of one,   *)
(* have a tail of zeros (bss) or no file data, share a page with each      *)
(* other or with the kernel, or reach past the end of the file.            *)
(***************************************************************************)
EXTENDS Elf, TLC

Segment(vaddr, offset, filesz, memsz, exec) ==
  [load |-> TRUE, vaddr |-> vaddr, offset |-> offset, filesz |-> filesz,
   memsz |-> memsz, exec |-> exec]

Note == [Segment(0, 0, 0, 0, FALSE) EXCEPT !.load = FALSE]

File(valid, size, phnum, headers) ==
  [valid |-> valid, size |-> size, phnum |-> phnum, headers |-> headers]

Good ==
  {File(TRUE, 8, 3, <<Note, Segment(1, 3, s[1], s[2], TRUE), Segment(4, 1, 1, 2, FALSE)>>) :
     s \in {p \in (0 .. 3) \X (0 .. 3) : p[1] <= p[2]}}

MCFiles ==
  Good \union
  {File(FALSE, 8, 0, <<>>),
   File(TRUE, 8, 2, <<Note>>),
   File(TRUE, 8, 2, <<Segment(0, 0, 1, 1, TRUE), Segment(1, 1, 1, 2, FALSE)>>),
   File(TRUE, 8, 1, <<Segment(11, 0, 2, 2, FALSE)>>),
   File(TRUE, 3, 1, <<Segment(1, 1, 3, 3, TRUE)>>)}

Symmetry == Permutations(Frames)
=============================================================================
