----------------------------- MODULE MCRegisters ----------------------------
(***************************************************************************)
(* One to three tasks, of which the first makes syscalls, and two register *)
(* contents each.                                                          *)
(***************************************************************************)
EXTENDS Registers
=============================================================================
