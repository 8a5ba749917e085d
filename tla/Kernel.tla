------------------------------- MODULE Kernel -------------------------------
(***************************************************************************)
(* The kernel after interrupts::enable() in main.rs, on its one CPU: the   *)
(* boot thread up to the first iretq, the user tasks with their syscalls,  *)
(* the timer and keyboard/mouse interrupt handlers, the round-robin        *)
(* scheduler and the spin locks they share.                                *)
(*                                                                         *)
(* A context is [who, pc]: whose registers are loaded and which step of    *)
(* its program comes next. A task at pc 0 runs user code; at pc > 0 it is  *)
(* at that step of SyscallProgram. Handlers run with interrupts off, so    *)
(* they never nest; the interrupted context stays in regs, which is the    *)
(* frame that timer_interrupt_entry passes to timer_tick.                  *)
(***************************************************************************)
EXTENDS Integers, Sequences, FiniteSets

CONSTANTS
  N,                 \* tasks that main adds before it starts the scheduler
  Callers,           \* tasks whose program makes syscalls
  Devices,           \* interrupts that come: "timer", and from the keyboard
                     \* and the mouse "event" and "byte" (no event yet)
  EVENT_QUEUE_SIZE,  \* capacity of EVENT_QUEUE; 128 in the code
  Failures           \* "fault": an exception, "panic": out of memory

Tasks   == 0 .. N - 1
Boot    == -1
Threads == Tasks \union {Boot}
Free    == -2         \* owner of a lock nobody holds

ASSUME KernelAssumption ==
  /\ N \in Nat \ {0}
  /\ Callers \subseteq Tasks
  /\ Devices \subseteq {"timer", "event", "byte"}
  /\ EVENT_QUEUE_SIZE \in Nat \ {0}
  /\ Failures \subseteq {"fault", "panic"}

VARIABLES
  regs,           \* the context on the CPU, or the one a handler interrupted
  int_flag,       \* RFLAGS.IF
  isr,            \* the running handler: "none", the device it serves, "fault",
                  \* or "halted" once exit_qemu has ended the machine
  in_service,     \* the local APIC waits for an end of interrupt
  lock,           \* owner of SCHEDULER, of the heap's locks and of SERIAL1
  tasks,          \* Scheduler.tasks: state and saved context
  len,            \* tasks.len()
  current,        \* Scheduler.current
  initialized,    \* Scheduler.initialized
  first,          \* the context switch_to_first_task has read
  user_rsp_temp,  \* USER_RSP_TEMP: whose stack pointer it holds
  syscall_frame,  \* top of SYSCALL_KERNEL_STACK: whose rcx/r11 and user rsp
  rsp0,           \* TSS.RSP0: Boot stands for gdt.rs's static stack
  queued          \* events in EVENT_QUEUE, -1 before it is built

cpu_vars   == <<regs, int_flag, isr, in_service>>
sched_vars == <<tasks, len, current, initialized>>
call_vars  == <<user_rsp_temp, syscall_frame>>
vars == <<cpu_vars, lock, sched_vars, first, call_vars, rsp0, queued>>

\* main from interrupts::enable() on: Task::from_elf, a message, add_task
\* under SCHEDULER's lock (the push allocates), a message and start() under
\* the same guard, a message, switch_to_first_task. The last three steps are
\* the panic handler.
BootProgram ==
  <<"enable", "heap_lock", "heap_unlock", "serial_lock", "serial_unlock",
    "sched_lock", "heap_lock", "heap_unlock", "add_task", "serial_lock",
    "serial_unlock", "start", "sched_unlock", "serial_lock", "serial_unlock",
    "sched_lock", "read", "sched_unlock", "iretq",
    "serial_lock", "serial_unlock", "exit">>

\* syscall_handler and syscall_entry: the frame is saved; then a write copies
\* the user's bytes into a Vec, prints them and drops the Vec, a refused
\* pointer or number only prints, and a bad file descriptor returns at once.
\* The last three steps are the panic handler.
SyscallProgram ==
  <<"save", "heap_lock", "heap_unlock", "serial_lock", "serial_unlock",
    "heap_lock", "heap_unlock", "sysretq",
    "serial_lock", "serial_unlock", "sysretq",
    "serial_lock", "serial_unlock", "exit">>

SyscallPaths == {2, 9, 11}

\* The first step of the panic handler.
PanicPc(who) == IF who = Boot THEN 20 ELSE 12

Op(context) ==
  IF context.who = Boot THEN BootProgram[context.pc]
  ELSE IF context.pc = 0 THEN "user" ELSE SyscallProgram[context.pc]

At(op)  == isr = "none" /\ Op(regs) = op
Advance == regs' = [regs EXCEPT !.pc = @ + 1]

new_user(t) == [who |-> t, pc |-> 0]

Acquire(l) == lock[l] = Free /\ lock' = [lock EXCEPT ![l] = regs.who]
Release(l) == lock' = [lock EXCEPT ![l] = Free]

\* The GDT module never stores a pointer here, so RSP0 is never written.
TSS_RSP0_PTR == "null"
SetRsp0(t) == rsp0' = IF TSS_RSP0_PTR = "null" THEN rsp0 ELSE t
-----------------------------------------------------------------------------
Init ==
  /\ regs = [who |-> Boot, pc |-> 1]
  /\ int_flag = FALSE /\ isr = "none" /\ in_service = FALSE
  /\ lock = [l \in {"sched", "heap", "serial"} |-> Free]
  /\ tasks = [t \in Tasks |-> [state |-> "Ready", context |-> new_user(t)]]
  /\ len = 0 /\ current = 0 /\ initialized = FALSE
  /\ first = new_user(0)
  /\ user_rsp_temp = Boot
  /\ syscall_frame = [rip |-> Boot, rsp |-> Boot]
  /\ rsp0 = Boot
  /\ queued = -1

(***************************************************************************)
(* Steps of the thread on the CPU.                                         *)
(***************************************************************************)
EnableInterrupts ==
  /\ At("enable")
  /\ int_flag' = TRUE
  /\ Advance
  /\ UNCHANGED <<isr, in_service, lock, sched_vars, first, call_vars, rsp0, queued>>

\* The allocator's locks are held with interrupts on.
HeapLock ==
  /\ At("heap_lock")
  /\ Acquire("heap")
  /\ Advance
  /\ UNCHANGED <<int_flag, isr, in_service, sched_vars, first, call_vars, rsp0, queued>>

HeapUnlock ==
  /\ At("heap_unlock")
  /\ Release("heap")
  /\ Advance
  /\ UNCHANGED <<int_flag, isr, in_service, sched_vars, first, call_vars, rsp0, queued>>

PrintLock_InterruptsOn ==
  /\ At("serial_lock")
  /\ Acquire("serial")
  /\ Advance
  /\ UNCHANGED <<int_flag, isr, in_service, sched_vars, first, call_vars, rsp0, queued>>

\* _print takes SERIAL1 inside without_interrupts.
PrintLock ==
  /\ At("serial_lock")
  /\ Acquire("serial")
  /\ int_flag' = FALSE
  /\ Advance
  /\ UNCHANGED <<isr, in_service, sched_vars, first, call_vars, rsp0, queued>>

\* The guard is dropped, then the flag is what it was: on, in every thread.
PrintUnlock ==
  /\ At("serial_unlock")
  /\ Release("serial")
  /\ int_flag' = TRUE
  /\ Advance
  /\ UNCHANGED <<isr, in_service, sched_vars, first, call_vars, rsp0, queued>>

\* SCHEDULER.lock() in main and in switch_to_first_task, interrupts on.
SchedLock ==
  /\ At("sched_lock")
  /\ Acquire("sched")
  /\ Advance
  /\ UNCHANGED <<int_flag, isr, in_service, sched_vars, first, call_vars, rsp0, queued>>

SchedUnlock_KeptBySwitch ==
  /\ At("sched_unlock")
  /\ IF regs.pc > 16 THEN UNCHANGED lock ELSE Release("sched")
  /\ Advance
  /\ UNCHANGED <<int_flag, isr, in_service, sched_vars, first, call_vars, rsp0, queued>>

SchedUnlock ==
  /\ At("sched_unlock")
  /\ Release("sched")
  /\ Advance
  /\ UNCHANGED <<int_flag, isr, in_service, sched_vars, first, call_vars, rsp0, queued>>

\* Scheduler::add_task, once for each task main creates.
AddTask ==
  /\ At("add_task")
  /\ len' = len + 1
  /\ IF len' = N THEN Advance ELSE UNCHANGED regs
  /\ UNCHANGED <<int_flag, isr, in_service, lock, tasks, current, initialized>>
  /\ UNCHANGED <<first, call_vars, rsp0, queued>>

\* Scheduler::start.
Start ==
  /\ At("start")
  /\ IF len > 0
     THEN /\ tasks' = [tasks EXCEPT ![0].state = "Running"]
          /\ initialized' = TRUE
     ELSE UNCHANGED <<tasks, initialized>>
  /\ Advance
  /\ UNCHANGED <<int_flag, isr, in_service, lock, len, current, first, call_vars, rsp0, queued>>

\* switch_to_first_task copies the current task's context and sets RSP0.
ReadContext ==
  /\ At("read")
  /\ len > 0
  /\ first' = tasks[current].context
  /\ SetRsp0(current)
  /\ Advance
  /\ UNCHANGED <<int_flag, isr, in_service, lock, sched_vars, call_vars, queued>>

\* The iretq of switch_to_first_task; rflags has the interrupt flag set. If a
\* tick has saved main as task 0, this goes back into main.
FirstIret ==
  /\ At("iretq")
  /\ regs' = first
  /\ int_flag' = TRUE
  /\ UNCHANGED <<isr, in_service, lock, sched_vars, first, call_vars, rsp0, queued>>
-----------------------------------------------------------------------------
SyscallEnter_NotMasked ==
  /\ At("user") /\ regs.who \in Callers
  /\ user_rsp_temp' = regs.who
  /\ Advance
  /\ UNCHANGED <<int_flag, isr, in_service, lock, sched_vars, first, syscall_frame, rsp0, queued>>

\* The syscall instruction (SFMask clears the interrupt flag) and the first
\* instruction of syscall_handler, still on the user's stack.
SyscallEnter ==
  /\ At("user") /\ regs.who \in Callers
  /\ int_flag' = FALSE
  /\ user_rsp_temp' = regs.who
  /\ Advance
  /\ UNCHANGED <<isr, in_service, lock, sched_vars, first, syscall_frame, rsp0, queued>>

\* The switch to SYSCALL_KERNEL_STACK, the pushes, sti, and the call.
SyscallSave ==
  /\ At("save")
  /\ syscall_frame' = [rip |-> regs.who, rsp |-> user_rsp_temp]
  /\ int_flag' = TRUE
  /\ \E path \in SyscallPaths : regs' = [regs EXCEPT !.pc = path]
  /\ UNCHANGED <<isr, in_service, lock, sched_vars, first, user_rsp_temp, rsp0, queued>>

\* cli, the pops and sysretq: user mode goes on where the frame says.
SyscallReturn ==
  /\ At("sysretq")
  /\ regs' = [who |-> syscall_frame.rip, pc |-> 0]
  /\ int_flag' = TRUE
  /\ UNCHANGED <<isr, in_service, lock, sched_vars, first, call_vars, rsp0, queued>>
-----------------------------------------------------------------------------
(***************************************************************************)
(* Failures. A panic runs in the thread, with interrupts as they were; an  *)
(* exception handler runs with interrupts off. Both print and exit.        *)
(***************************************************************************)
\* No memory for the Vec of a write (step 3), in Task::from_elf (step 3), or
\* for the vector of tasks in add_task (step 8); the locks of the heap are free.
Panic ==
  /\ "panic" \in Failures
  /\ At("heap_unlock") /\ regs.pc \in {3, 8}
  /\ Release("heap")
  /\ regs' = [regs EXCEPT !.pc = PanicPc(regs.who)]
  /\ UNCHANGED <<int_flag, isr, in_service, sched_vars, first, call_vars, rsp0, queued>>

\* exit_qemu, from the panic handler.
Exit ==
  /\ At("exit")
  /\ isr' = "halted"
  /\ UNCHANGED <<regs, int_flag, in_service, lock, sched_vars, first, call_vars, rsp0, queued>>

\* An exception of user code, of read_user_bytes at an unmapped address (before
\* step 4 of a syscall), or of main when the first iretq goes back into it: that
\* loads five registers, and main survives the wrong others or not.
Fault ==
  /\ "fault" \in Failures
  /\ \/ At("user")
     \/ At("serial_lock") /\ regs.who # Boot /\ regs.pc = 4
     \/ At("iretq") /\ first.who = Boot
  /\ isr' = "fault"
  /\ int_flag' = FALSE
  /\ UNCHANGED <<regs, in_service, lock, sched_vars, first, call_vars, rsp0, queued>>

\* The exception handlers: messages, then exit_qemu.
FaultHandler ==
  /\ isr = "fault"
  /\ lock["serial"] = Free
  /\ isr' = "halted"
  /\ UNCHANGED <<regs, int_flag, in_service, lock, sched_vars, first, call_vars, rsp0, queued>>

\* The loop at the end of exit_qemu.
Halted == isr = "halted" /\ UNCHANGED vars
-----------------------------------------------------------------------------
(***************************************************************************)
(* Interrupts.                                                             *)
(***************************************************************************)
Interrupt(device) ==
  /\ device \in Devices
  /\ isr = "none" /\ int_flag /\ ~in_service
  /\ isr' = device
  /\ int_flag' = FALSE
  /\ in_service' = TRUE
  /\ UNCHANGED <<regs, lock, sched_vars, first, call_vars, rsp0, queued>>

TimerInterrupt    == Interrupt("timer")
KeyboardInterrupt == Interrupt("event") \/ Interrupt("byte")

\* end_interrupt() and iretq.
EndOfInterrupt ==
  /\ in_service' = FALSE
  /\ isr' = "none"
  /\ int_flag' = TRUE

schedule_SavesNothing ==
  IF len < 2 THEN UNCHANGED <<sched_vars, regs, rsp0>>
  ELSE LET next == (current + 1) % len
       IN  /\ current' = next
           /\ tasks' = [tasks EXCEPT ![current].state = "Ready",
                                     ![next].state = "Running"]
           /\ regs' = tasks[next].context
           /\ SetRsp0(next)
           /\ UNCHANGED <<len, initialized>>

schedule_SaveAfterMove ==
  IF len < 2 THEN UNCHANGED <<sched_vars, regs, rsp0>>
  ELSE LET next == (current + 1) % len
       IN  /\ current' = next
           /\ tasks' = [tasks EXCEPT ![current].state = "Ready",
                                     ![next] = [state |-> "Running", context |-> regs]]
           /\ regs' = tasks[next].context
           /\ SetRsp0(next)
           /\ UNCHANGED <<len, initialized>>

schedule_SkipsLast ==
  IF len < 2 THEN UNCHANGED <<sched_vars, regs, rsp0>>
  ELSE LET next == (current + 1) % (len - 1)
       IN  /\ current' = next
           /\ tasks' = [tasks EXCEPT ![current] = [state |-> "Ready", context |-> regs],
                                     ![next].state = "Running"]
           /\ regs' = tasks'[next].context
           /\ SetRsp0(next)
           /\ UNCHANGED <<len, initialized>>

\* Scheduler::schedule and the context copies timer_tick makes of its answer.
schedule ==
  IF len < 2 THEN UNCHANGED <<sched_vars, regs, rsp0>>
  ELSE LET next == (current + 1) % len
       IN  /\ current' = next
           /\ tasks' = [tasks EXCEPT ![current] = [state |-> "Ready", context |-> regs],
                                     ![next].state = "Running"]
           /\ regs' = tasks[next].context
           /\ SetRsp0(next)
           /\ UNCHANGED <<len, initialized>>

\* timer_tick, from SCHEDULER.lock() to the iretq: it spins while the lock is
\* held and holds it, and SERIAL1 while it prints, with interrupts off.
TimerTick ==
  /\ isr = "timer"
  /\ lock["sched"] = Free /\ lock["serial"] = Free
  /\ IF initialized THEN schedule ELSE UNCHANGED <<sched_vars, regs, rsp0>>
  /\ EndOfInterrupt
  /\ UNCHANGED <<lock, first, call_vars, queued>>

push_event_OffByOne ==
  /\ queued = -1 => lock["heap"] = Free
  /\ IF queued <= EVENT_QUEUE_SIZE
     THEN queued' = (IF queued = -1 THEN 0 ELSE queued) + 1
     ELSE lock["serial"] = Free /\ UNCHANGED queued

\* The first use of EVENT_QUEUE builds it, which allocates; a full queue drops
\* the event and prints a warning. Nothing in the kernel pops an event.
push_event ==
  /\ queued = -1 => lock["heap"] = Free
  /\ IF queued < EVENT_QUEUE_SIZE
     THEN queued' = (IF queued = -1 THEN 0 ELSE queued) + 1
     ELSE lock["serial"] = Free /\ UNCHANGED queued

\* The keyboard and the mouse handler: the byte completes an event or not.
KeyboardHandler ==
  /\ \/ isr = "event" /\ push_event
     \/ isr = "byte" /\ UNCHANGED queued
  /\ EndOfInterrupt
  /\ UNCHANGED <<regs, lock, sched_vars, first, call_vars, rsp0>>
-----------------------------------------------------------------------------
\* What the thread on the CPU does of itself; entering a syscall is up to it.
ThreadStep ==
  \/ EnableInterrupts \/ HeapLock \/ HeapUnlock \/ PrintLock \/ PrintUnlock
  \/ SchedLock \/ SchedUnlock \/ AddTask \/ Start \/ ReadContext \/ FirstIret
  \/ SyscallSave \/ SyscallReturn \/ Exit

Next ==
  \/ ThreadStep \/ SyscallEnter
  \/ TimerInterrupt \/ TimerTick
  \/ KeyboardInterrupt \/ KeyboardHandler
  \/ Panic \/ Fault \/ FaultHandler \/ Halted

Spec == Init /\ [][Next]_vars

(***************************************************************************)
(* The local APIC keeps a tick that comes while interrupts are off, and    *)
(* its period is far longer than the handler, so ticks are not lost for    *)
(* ever and the interrupted thread gets to run between two of them.        *)
(***************************************************************************)
FairSpec ==
  /\ Spec
  /\ WF_vars(TimerTick) /\ WF_vars(KeyboardHandler) /\ WF_vars(FaultHandler)
  /\ SF_vars(TimerInterrupt)
  /\ \A t \in Threads : SF_vars(ThreadStep /\ regs.who = t)
-----------------------------------------------------------------------------
Contexts ==
  [who : {Boot}, pc : 1 .. Len(BootProgram)]
    \union [who : Tasks, pc : 0 .. Len(SyscallProgram)]

\* Types; the queue never holds more than EVENT_QUEUE_SIZE events (events.rs).
TypeOK ==
  /\ regs \in Contexts /\ first \in Contexts
  /\ int_flag \in BOOLEAN /\ in_service \in BOOLEAN /\ initialized \in BOOLEAN
  /\ isr \in {"none", "timer", "event", "byte", "fault", "halted"}
  /\ lock \in [{"sched", "heap", "serial"} -> Threads \union {Free}]
  /\ tasks \in [Tasks -> [state : {"Ready", "Running", "Blocked"}, context : Contexts]]
  /\ len \in 0 .. N /\ current \in Tasks
  /\ user_rsp_temp \in Threads /\ rsp0 \in Threads
  /\ syscall_frame \in [rip : Threads, rsp : Threads]
  /\ queued \in -1 .. EVENT_QUEUE_SIZE

\* serial.rs: because _print takes SERIAL1 with interrupts disabled, no
\* handler ever finds it held, however threads, interrupts, exceptions and
\* panics interleave: the report of a failure is never blocked.
SerialNeverContended == isr # "none" => lock["serial"] = Free

\* syscall.rs: an interrupt never arrives while the kernel is still on the
\* user's stack, and the frame saved for sysretq always pairs the rip and the
\* rsp of one task.
EntryIsMasked ==
  /\ isr # "none" => Op(regs) # "save"
  /\ syscall_frame.rip = syscall_frame.rsp

InCall(context) == context.who # Boot /\ context.pc > 1

\* syscall.rs: a task inside a syscall, running or preempted, finds its own
\* frame on SYSCALL_KERNEL_STACK when it returns ("a safe stack").
SyscallFrameIntact ==
  /\ InCall(regs) => syscall_frame.rip = regs.who
  /\ \A t \in Tasks \ {current} :
       InCall(tasks[t].context) => syscall_frame.rip = tasks[t].context.who

\* The threads whose context task t's slot may hold: the boot thread counts as
\* task 0, whose context the scheduler saves if a tick comes after start().
Slot(t) == IF t = 0 THEN {0, Boot} ELSE {t}

\* switch.rs, scheduler.rs: whenever ticks come, the CPU runs the task the
\* scheduler calls current, which alone is Running, and the context saved for
\* each task is its own. A tick after start() and before the first iretq can
\* only put main in the place of task 0, never in another's.
RunsCurrent ==
  /\ regs.who \in Slot(current)
  /\ initialized => \A t \in Tasks : tasks[t].state = "Running" <=> t = current
  /\ \A t \in Tasks : tasks[t].context.who \in Slot(t)

\* switch.rs ("prevent deadlock"): the timer handler never waits for a lock
\* that the code it interrupted holds; on one CPU such a wait has no end.
TickNeverBlocks == isr = "timer" => lock["sched"] = Free /\ lock["serial"] = Free

\* switch.rs, main.rs: a tick that interrupts a task, in user mode or anywhere
\* in a syscall, waits for no lock; the only wait there is comes from the guards
\* of SCHEDULER that main and switch_to_first_task hold with interrupts on.
TickWaitsOnlyForBoot ==
  isr = "timer" /\ ~(lock["sched"] = Free /\ lock["serial"] = Free) =>
    regs.who = Boot /\ lock["sched"] = Boot /\ lock["serial"] = Free

\* The handler that builds EVENT_QUEUE waits for the thread it interrupted.
FirstEventStuck == isr = "event" /\ queued = -1 /\ lock["heap"] # Free

\* The tick waits for main or switch_to_first_task, which it interrupted.
TickStuck == isr = "timer" /\ lock["sched"] # Free

Ended == isr = "halted" \/ FirstEventStuck \/ TickStuck

\* A tick after start() has saved main's context over that of task 0.
Displaced == tasks[0].context.who = Boot

\* scheduler.rs ("Round-robin"): every task gets the CPU again and again, unless
\* a panic or an exception halts the machine, the first event finds the heap
\* locked or a tick finds SCHEDULER held by main; no other wait is without end,
\* however full the event queue is. Only task 0 may lose its place, to main.
EveryTaskRuns ==
  \A t \in Tasks :
    []<>(Ended \/ (isr = "none" /\ regs.who = t) \/ (t = 0 /\ Displaced))

\* Where task t is, running or switched away from.
Position(t) ==
  IF regs.who = t THEN regs.pc
  ELSE IF tasks[t].context.who = t THEN tasks[t].context.pc ELSE 0

\* syscall.rs, switch.rs, main.rs: every syscall that was entered returns to its
\* task's user mode, and only by sysretq: a context switch never cuts it short;
\* or it panics, and then the machine halts although ticks switch it away.
SyscallsReturn ==
  /\ \A t \in Tasks : Position(t) > 0 ~> Position(t) = 0 \/ Ended
  /\ [][\A t \in Tasks : Position(t) > 0 /\ Position(t)' = 0 => At("sysretq")]_vars
=============================================================================
