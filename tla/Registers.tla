------------------------------ MODULE Registers -----------------------------
(***************************************************************************)
(* The assembly of tasks/switch.rs and tasks/syscall.rs at the level of    *)
(* registers and stack words: what timer_interrupt_entry, syscall_handler  *)
(* and switch_to_first_task save, where, and what they load again. Module  *)
(* Kernel has the locks and the scheduler around this code; here a context *)
(* is all twenty registers of TaskContext and control is in rip.           *)
(*                                                                         *)
(* Values are numbers. A stack address counts words of 8 bytes, so an even *)
(* address is 16-byte aligned. Code with the interrupt flag off is one     *)
(* step; with it on, a tick may come between any two steps.                *)
(***************************************************************************)
EXTENDS Integers, Sequences, Functions

CONSTANTS
  N,            \* the largest number of tasks
  Callers,      \* tasks that make syscalls
  Gens,         \* register contents a user program switches between
  QuietStart    \* with several tasks, no tick between start() and the first
                \* iretq (module Kernel has what such a tick does)

Tasks == 0 .. N - 1
Boot  == -1

ASSUME RegistersAssumption ==
  /\ N \in Nat \ {0}
  /\ Callers \subseteq Tasks
  /\ Gens \subseteq 0 .. 4
  /\ QuietStart \in BOOLEAN

VARIABLES
  reg,            \* the CPU's registers
  mem,            \* words of the boot, the RSP0 and the syscall stack
  isr,            \* timer_interrupt_entry has called timer_tick
  user_rsp_temp,  \* USER_RSP_TEMP
  contexts,       \* Task.context of each task
  len,            \* tasks added to the scheduler
  current,        \* Scheduler.current
  initialized,    \* Scheduler.initialized
  entered,        \* ghost: user mode was entered
  asked,          \* ghost: the registers of each task at its last syscall
  expect,         \* ghost: the registers as each user program left them
  cut             \* ghost: the registers of each thread at its last tick

sched_vars == <<contexts, len, current, initialized>>
vars == <<reg, mem, isr, user_rsp_temp, sched_vars, entered, asked, expect, cut>>

\* TaskContext, from its lowest address up.
Layout ==
  <<"r15", "r14", "r13", "r12", "r11", "r10", "r9", "r8", "rbp", "rdi", "rsi",
    "rdx", "rcx", "rbx", "rax", "rip", "cs", "rflags", "rsp", "ss">>

Registers == Range(Layout)
General   == {Layout[i] : i \in 1 .. 15}

\* Registers that a Rust function may change (System V ABI).
CallerSaved == {"rax", "rcx", "rdx", "rsi", "rdi", "r8", "r9", "r10", "r11"}

IndexIn(seq, x) == CHOOSE i \in DOMAIN seq : seq[i] = x

\* Stacks grow down from these addresses. RSP0's array has no alignment.
BootTop    == 40
Rsp0       == 81
SyscallTop == 130
Words == 10 .. 39 \union 50 .. 80 \union 90 .. 129

\* Code addresses.
BootRip    == 1     \* main before start(), and switch_to_first_task
TickRip    == 5
ArgsRip    == 10    \* syscall_handler after sti: six loads and the call
ReturnRip  == 17    \* after the call
EntryRip   == 20    \* syscall_entry
UserRip(t) == 100 + 10 * t   \* + gen: a syscall instruction

AfterSyscall(rip) == rip + 5
-----------------------------------------------------------------------------
(***************************************************************************)
(* Segments: the order in which gdt.rs appends them gives the selectors;   *)
(* append sets the privilege bits of user segments.                        *)
(***************************************************************************)
GDT == <<"code", "data", "user_data", "user_code", "tss">>

Selector(name) ==
  8 * IndexIn(GDT, name) + IF name \in {"user_data", "user_code"} THEN 3 ELSE 0

\* sel & !3 and sel | 3.
Cleared(sel) == sel - (sel % 4)
Ring3(sel)   == Cleared(sel) + 3

UserMode(r) == r["cs"] % 4 = 3

\* init_syscalls: the two halves of STAR.
syscall_cs == Selector("code")

sysret_base_UserData == Cleared(Selector("user_data"))

sysret_base == Cleared(Selector("user_data")) - 8

\* RFLAGS: 0x200 is the interrupt flag.
IntFlag == 512
InterruptsOn(r) == (r["rflags"] \div IntFlag) % 2 = 1

new_user(t) ==
  [x \in Registers |->
    CASE x = "rip"    -> UserRip(t)
      [] x = "cs"     -> Ring3(Selector("user_code"))
      [] x = "rflags" -> IntFlag
      [] x = "rsp"    -> 1000 + 100 * t
      [] x = "ss"     -> Ring3(Selector("user_data"))
      [] OTHER        -> 0]
-----------------------------------------------------------------------------
\* Pushing values: the first is the highest.
PushAll(m, sp, values) ==
  [a \in Words |-> IF a \in sp - Len(values) .. sp - 1 THEN values[sp - a] ELSE m[a]]

ValuesOf(r, names) == [i \in DOMAIN names |-> r[names[i]]]

\* Words that were popped are dead; they read as 0 until they are pushed again.
Dropped(m, sp, n) == [a \in Words |-> IF a \in sp .. sp + n - 1 THEN 0 ELSE m[a]]

\* Popping into the named registers, in order.
PopAll(m, sp, names, r) ==
  [x \in Registers |->
    IF x \in Range(names) THEN m[sp + IndexIn(names, x) - 1] ELSE r[x]]

ContextAt(m, p) == [x \in Registers |-> m[p + IndexIn(Layout, x) - 1]]

StoreContext(m, p, c) ==
  [a \in Words |-> IF a \in p .. p + 19 THEN c[Layout[a - p + 1]] ELSE m[a]]

Aligned(sp) == sp - (sp % 2)

\* iretq.
Iretq(m, sp, r) == PopAll(m, sp, <<"rip", "cs", "rflags", "rsp", "ss">>, r)

Thread == IF entered THEN current ELSE Boot
At(rip) == ~isr /\ reg["rip"] = rip
-----------------------------------------------------------------------------
Init ==
  /\ reg = [x \in Registers |->
             CASE x = "rip"    -> BootRip
               [] x = "cs"     -> Selector("code")
               [] x = "rflags" -> IntFlag
               [] x = "rsp"    -> BootTop - 1
               [] x = "ss"     -> Selector("data")
               [] OTHER        -> 900 + IndexIn(Layout, x)]
  /\ mem = [a \in Words |-> 0]
  /\ isr = FALSE
  /\ user_rsp_temp = 0
  /\ contexts = [t \in Tasks |-> new_user(t)]
  /\ len \in 1 .. N
  /\ current = 0 /\ initialized = FALSE
  /\ entered = FALSE
  /\ asked = contexts
  /\ expect = contexts
  /\ cut = [t \in Tasks \union {Boot} |-> IF t = Boot THEN reg ELSE contexts[t]]

\* Scheduler::start in main.
Start ==
  /\ At(BootRip)
  /\ initialized' = TRUE
  /\ reg' = [reg EXCEPT !["rip"] = BootRip + 1]
  /\ UNCHANGED <<mem, isr, user_rsp_temp, contexts, len, current, entered, asked, expect, cut>>

\* switch_to_first_task: only the five registers of the iretq frame are loaded;
\* the first task finds in the others what the boot thread left there.
switch_to_first_task ==
  /\ At(BootRip + 1)
  /\ LET c     == contexts[current]
         frame == <<c["ss"], c["rsp"], c["rflags"], c["cs"], c["rip"]>>
     IN  /\ reg' = Iretq(PushAll(mem, reg["rsp"], frame), reg["rsp"] - Len(frame), reg)
         /\ expect' = [expect EXCEPT ![current] =
                        [x \in Registers |-> IF x \in General THEN reg[x] ELSE c[x]]]
  /\ entered' = TRUE
  /\ UNCHANGED <<mem, isr, user_rsp_temp, sched_vars, asked, cut>>

\* The user program computes: other values in all its registers but the
\* segments and the interrupt flag, which user mode cannot change.
UserCompute(gen) ==
  /\ ~isr /\ UserMode(reg)
  /\ reg' = [x \in Registers |->
              CASE x \in General  -> 2000 + 500 * current + 50 * gen + IndexIn(Layout, x)
                [] x = "rip"      -> UserRip(current) + gen
                [] x = "rflags"   -> IntFlag + gen
                [] x = "rsp"      -> 1000 + 100 * current - gen
                [] OTHER          -> reg[x]]
  /\ expect' = [expect EXCEPT ![current] = reg']
  /\ UNCHANGED <<mem, isr, user_rsp_temp, sched_vars, entered, asked, cut>>
-----------------------------------------------------------------------------
(***************************************************************************)
(* syscall_handler.                                                        *)
(***************************************************************************)

\* The syscall instruction, which clears the flags of SFMask, then everything
\* up to sti: rsp by way of USER_RSP_TEMP, the syscall stack, ten pushes.
\* The program finds rcx and r11 changed, and its answer, write_bytes' arg3,
\* in rax.
SyscallEntry ==
  /\ ~isr /\ current \in Callers
  /\ reg["rip"] - UserRip(current) \in Gens
  /\ user_rsp_temp' = reg["rsp"]
  /\ asked' = [asked EXCEPT ![current] = reg]
  /\ LET rip  == AfterSyscall(reg["rip"])
         args == <<"rax", "rdi", "rsi", "rdx", "r10", "r8", "r9">>
         saved == <<rip, reg["rflags"], user_rsp_temp'>> \o ValuesOf(reg, args)
     IN  /\ mem' = PushAll(mem, SyscallTop, saved)
         /\ reg' = [reg EXCEPT !["rcx"] = rip, !["r11"] = user_rsp_temp',
                               !["cs"] = syscall_cs, !["ss"] = syscall_cs + 8,
                               !["rsp"] = SyscallTop - Len(saved), !["rip"] = ArgsRip]
         /\ expect' = [expect EXCEPT ![current] =
                        [reg EXCEPT !["rip"] = rip, !["rcx"] = rip,
                                    !["r11"] = reg["rflags"], !["rax"] = reg["rdx"]]]
  /\ UNCHANGED <<isr, sched_vars, entered, cut>>

ArgumentLoads_Arg3FromR10 ==
  <<<<"rdi", 6>>, <<"rsi", 5>>, <<"rdx", 4>>, <<"rcx", 2>>, <<"r8", 2>>, <<"r9", 1>>>>

\* Register and stack word of each load before the call.
ArgumentLoads ==
  <<<<"rdi", 6>>, <<"rsi", 5>>, <<"rdx", 4>>, <<"rcx", 3>>, <<"r8", 2>>, <<"r9", 1>>>>

LoadArgument ==
  /\ \E i \in DOMAIN ArgumentLoads :
       /\ At(ArgsRip + i - 1)
       /\ reg' = [reg EXCEPT ![ArgumentLoads[i][1]] = mem[reg["rsp"] + ArgumentLoads[i][2]],
                             !["rip"] = ArgsRip + i]
  /\ UNCHANGED <<mem, isr, user_rsp_temp, sched_vars, entered, asked, expect, cut>>

\* lea rax; call rax.
CallEntry ==
  /\ At(ArgsRip + 6)
  /\ mem' = PushAll(mem, reg["rsp"], <<ReturnRip>>)
  /\ reg' = [reg EXCEPT !["rax"] = EntryRip, !["rsp"] = @ - 1, !["rip"] = EntryRip]
  /\ UNCHANGED <<isr, user_rsp_temp, sched_vars, entered, asked, expect, cut>>

\* syscall_entry as compiled code: it saves the callee-saved registers it uses,
\* keeps arg3 in one of them and changes caller-saved ones.
EntryBody ==
  /\ At(EntryRip)
  /\ mem' = PushAll(mem, reg["rsp"], ValuesOf(reg, <<"rbp", "rbx">>))
  /\ reg' = [x \in Registers |->
              CASE x = "rbx"           -> reg["rcx"]
                [] x = "rsp"           -> reg["rsp"] - 2
                [] x = "rip"           -> EntryRip + 1
                [] x \in CallerSaved \union {"rbp"} -> 800 + IndexIn(Layout, x)
                [] OTHER               -> reg[x]]
  /\ UNCHANGED <<isr, user_rsp_temp, sched_vars, entered, asked, expect, cut>>

EntryReturn ==
  /\ At(EntryRip + 1)
  /\ reg' = [PopAll(mem, reg["rsp"], <<"rbx", "rbp", "rip">>, reg)
              EXCEPT !["rax"] = reg["rbx"], !["rsp"] = reg["rsp"] + 3]
  /\ mem' = Dropped(mem, reg["rsp"], 3)
  /\ UNCHANGED <<isr, user_rsp_temp, sched_vars, entered, asked, expect, cut>>

\* The return value replaces the saved rax.
StoreResult ==
  /\ At(ReturnRip)
  /\ mem' = [mem EXCEPT ![reg["rsp"] + 6] = reg["rax"]]
  /\ reg' = [reg EXCEPT !["rip"] = ReturnRip + 1]
  /\ UNCHANGED <<isr, user_rsp_temp, sched_vars, entered, asked, expect, cut>>

\* cli, the loads, and sysretq with the selectors that STAR gives.
SyscallReturn ==
  /\ At(ReturnRip + 1)
  /\ LET sp == reg["rsp"] + 7
         r  == PopAll(mem, reg["rsp"], <<"r9", "r8", "r10", "rdx", "rsi", "rdi", "rax">>, reg)
     IN  reg' = [r EXCEPT !["r11"] = mem[sp + 1], !["rcx"] = mem[sp + 2], !["rsp"] = mem[sp],
                          !["rip"] = mem[sp + 2], !["rflags"] = mem[sp + 1],
                          !["cs"] = Ring3(sysret_base + 16), !["ss"] = Ring3(sysret_base + 8)]
  /\ mem' = Dropped(mem, reg["rsp"], 10)
  /\ UNCHANGED <<isr, user_rsp_temp, sched_vars, entered, asked, expect, cut>>
-----------------------------------------------------------------------------
(***************************************************************************)
(* timer_interrupt_entry and timer_tick.                                   *)
(***************************************************************************)
TickPushes ==
  <<"rax", "rbx", "rcx", "rdx", "rsi", "rdi", "rbp", "r8", "r9", "r10", "r11",
    "r12", "r13", "r14", "r15">>

TickPops_RdiBeforeRbp ==
  <<"r15", "r14", "r13", "r12", "r11", "r10", "r9", "r8", "rdi", "rbp", "rsi",
    "rdx", "rcx", "rbx", "rax">>

TickPops ==
  <<"r15", "r14", "r13", "r12", "r11", "r10", "r9", "r8", "rbp", "rdi", "rsi",
    "rdx", "rcx", "rbx", "rax">>

\* The CPU takes RSP0 if it was in user mode, aligns the stack and pushes its
\* frame; the entry code pushes the rest and calls timer_tick(rsp).
TimerInterrupt ==
  /\ ~isr /\ InterruptsOn(reg)
  /\ QuietStart /\ len > 1 => reg["rip"] # BootRip + 1
  /\ LET top    == IF UserMode(reg) THEN Rsp0 ELSE reg["rsp"]
         pushed == ValuesOf(reg, <<"ss", "rsp", "rflags", "cs", "rip">> \o TickPushes)
         sp     == Aligned(top) - Len(pushed)
     IN  /\ mem' = PushAll(mem, Aligned(top), pushed)
         /\ reg' = [reg EXCEPT !["rsp"] = sp, !["rdi"] = sp, !["rip"] = TickRip,
                               !["rflags"] = @ - IntFlag, !["cs"] = Selector("code"),
                               !["ss"] = IF UserMode(reg) THEN 0 ELSE @]
  /\ isr' = TRUE
  /\ cut' = [cut EXCEPT ![Thread] = reg]
  /\ UNCHANGED <<user_rsp_temp, sched_vars, entered, asked, expect>>

\* The pops and iretq, from the memory m that timer_tick leaves.
Resume(m) ==
  /\ LET popped == PopAll(m, reg["rsp"], TickPops, reg)
     IN  reg' = Iretq(m, reg["rsp"] + Len(TickPops), popped)
  /\ mem' = Dropped(m, reg["rsp"], 20)
  /\ isr' = FALSE
  /\ UNCHANGED <<user_rsp_temp, len, initialized, entered, asked, expect, cut>>

\* timer_tick with another task to run: schedule(), then the copy of the
\* interrupted context to the old task and of the new task's over it.
Switch ==
  /\ isr /\ initialized /\ len >= 2
  /\ LET p    == reg["rdi"]
         next == (current + 1) % len
     IN  /\ current' = next
         /\ contexts' = [contexts EXCEPT ![current] = ContextAt(mem, p)]
         /\ Resume(StoreContext(mem, p, contexts[next]))

\* timer_tick before start(), or with one task.
NoSwitch ==
  /\ isr /\ ~(initialized /\ len >= 2)
  /\ Resume(mem)
  /\ UNCHANGED <<contexts, current>>
-----------------------------------------------------------------------------
Next ==
  \/ Start \/ switch_to_first_task
  \/ \E gen \in Gens : UserCompute(gen)
  \/ SyscallEntry \/ LoadArgument \/ CallEntry \/ EntryBody \/ EntryReturn
  \/ StoreResult \/ SyscallReturn
  \/ TimerInterrupt \/ Switch \/ NoSwitch

Spec == Init /\ [][Next]_vars
-----------------------------------------------------------------------------
\* syscall.rs, switch.rs, gdt.rs: whenever a user program runs, every register
\* is as the program left it, whatever ticks, other tasks and syscalls came in
\* between; a syscall changes rax, rcx and r11 only, and both ways into user
\* mode, iretq and sysretq, load the same segments.
UserRegistersKept == ~isr /\ UserMode(reg) => reg = expect[current]

\* switch.rs: an iretq gives back exactly the registers that the thread had when
\* it was last interrupted (for a task that never ran, those of its new
\* context): in user mode, inside a syscall or in the boot thread, on whichever
\* stack the frame lay, although RSP0 is one stack for all tasks.
ResumesExactly == [][isr /\ ~isr' => reg' = cut[Thread']]_vars

\* syscall.rs: at the call syscall_entry's parameters, in the order of the ABI,
\* are the caller's number and first five arguments, the fourth from r10, also
\* if ticks came between the loads; and every call of Rust code from assembly
\* is made on a stack aligned to 16 bytes.
CallsWellFormed ==
  /\ isr => reg["rsp"] % 2 = 0
  /\ At(EntryRip) =>
       /\ ValuesOf(reg, <<"rdi", "rsi", "rdx", "rcx", "r8", "r9">>)
            = ValuesOf(asked[current], <<"rax", "rdi", "rsi", "rdx", "r10", "r8">>)
       /\ reg["rsp"] % 2 = 1
=============================================================================
