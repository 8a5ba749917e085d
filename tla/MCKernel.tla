------------------------------ MODULE MCKernel ------------------------------
(***************************************************************************)
(* The kernel with one task, as main builds it, or with several, of which  *)
(* one or two make syscalls.                                               *)
(***************************************************************************)
EXTENDS Kernel

OneTask == {0}
TwoOfThree == {0, 1}
=============================================================================
