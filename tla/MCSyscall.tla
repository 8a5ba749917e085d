------------------------------ MODULE MCSyscall -----------------------------
(***************************************************************************)
(* 4-bit addresses, user space below 12: address 1 is not mapped, 3 holds  *)
(* a byte that is never UTF-8, 5 and 6 a character of two bytes that a     *)
(* buffer may cut, the heap serves nine bytes at most. Every pointer and   *)
(* length is tried.                                                        *)
(***************************************************************************)
EXTENDS Syscall

MCMapped == 2 .. 15

MCClass ==
  [a \in 0 .. 15 |->
     CASE a = 3 -> "never" [] a = 5 -> "first" [] a = 6 -> "second" [] OTHER -> "ascii"]
=============================================================================
