---------------------------- MODULE KernelProofs ----------------------------
(***************************************************************************)
(* What holds of the kernel for any number of tasks, any set of callers,   *)
(* any interrupts and failures at any time: no handler meets SERIAL1 held, *)
(* the entry of a syscall is never interrupted before its frame is saved,  *)
(* and a tick waits for no lock but the boot thread's. As long as calls of *)
(* different tasks do not overlap, every switch saves and loads the right  *)
(* context.                                                                *)
(***************************************************************************)
EXTENDS Kernel, TLAPS

\* SERIAL1 is held only between the two halves of _print, with interrupts off.
SerialInv ==
  lock["serial"] # Free => isr = "none" /\ ~int_flag /\ Op(regs) = "serial_unlock"

\* Between the syscall instruction and sti interrupts are off, USER_RSP_TEMP is
\* the caller's, and no saved context is at that point.
EntryInv ==
  /\ Op(regs) = "save" => isr = "none" /\ ~int_flag /\ user_rsp_temp = regs.who
  /\ \A t \in Tasks : Op(tasks[t].context) # "save"
  /\ Op(first) # "save"
  /\ syscall_frame.rip = syscall_frame.rsp

\* main adds tasks only before the scheduler runs, so no saved context is there.
BootInv ==
  /\ regs.who = Boot /\ regs.pc <= 9 => len < N /\ ~initialized
  /\ \A t \in Tasks : tasks[t].context.who = Boot => tasks[t].context.pc > 9
  /\ first.who = Boot => first.pc > 9

\* The frame on the syscall stack is a task's as soon as a syscall is under way.
FrameInv ==
  \/ syscall_frame.rip \in Tasks
  \/ /\ ~InCall(regs) /\ ~InCall(first)
     /\ \A t \in Tasks : ~InCall(tasks[t].context)

\* The conjuncts of TypeOK apart: the flags, the scheduler, the rest.
Flags == int_flag \in BOOLEAN /\ in_service \in BOOLEAN /\ initialized \in BOOLEAN
SchedType ==
  /\ regs \in Contexts /\ first \in Contexts
  /\ tasks \in [Tasks -> [state : {"Ready", "Running", "Blocked"}, context : Contexts]]
  /\ len \in 0 .. N /\ current \in Tasks
RestType ==
  /\ isr \in {"none", "timer", "event", "byte", "fault", "halted"}
  /\ lock \in [{"sched", "heap", "serial"} -> Threads \union {Free}]
  /\ user_rsp_temp \in Threads /\ rsp0 \in Threads
  /\ syscall_frame \in [rip : Threads, rsp : Threads]
  /\ queued \in -1 .. EVENT_QUEUE_SIZE

KernelInv == Flags /\ SchedType /\ RestType /\ SerialInv /\ EntryInv /\ BootInv /\ FrameInv

\* The boot thread is at a step of its program.
LEMMA BootPc ==
  ASSUME NEW c \in Contexts, c.who = Boot
  PROVE  c.pc \in 1 .. 22
<1>1. Len(BootProgram) = 22
  BY DEF BootProgram
<1>2. c.who \notin Tasks
  BY DEF Tasks, Boot
<1>. QED  BY <1>1, <1>2 DEF Contexts

\* A task is in user mode or at a step of the syscall program.
LEMMA TaskPc ==
  ASSUME NEW c \in Contexts, c.who # Boot
  PROVE  c.who \in Tasks /\ c.pc \in 0 .. 14
<1>1. Len(SyscallProgram) = 14
  BY DEF SyscallProgram
<1>. QED  BY <1>1 DEF Contexts

\* What one step further in a program means for a context.
LEMMA StepFields ==
  ASSUME NEW c \in Contexts
  PROVE  /\ [c EXCEPT !.pc = @ + 1].who = c.who
         /\ [c EXCEPT !.pc = @ + 1].pc = c.pc + 1
         /\ [c EXCEPT !.pc = @ + 1] = [who |-> c.who, pc |-> c.pc + 1]
BY DEF Contexts

\* In both programs serial_lock is followed by serial_unlock.
LEMMA UnlockFollowsLock ==
  ASSUME NEW c \in Contexts, Op(c) = "serial_lock"
  PROVE  Op([c EXCEPT !.pc = @ + 1]) = "serial_unlock"
<1>. DEFINE d == [c EXCEPT !.pc = @ + 1]
<1>1. d.who = c.who /\ d.pc = c.pc + 1
  BY StepFields
<1>. HIDE DEF d
<1>2. CASE c.who = Boot
  <2>1. c.pc \in 1 .. 22 /\ BootProgram[c.pc] = "serial_lock"
    BY <1>2, BootPc DEF Op
  <2>2. c.pc \in {4, 10, 14, 20}
    BY <2>1 DEF BootProgram
  <2>3. BootProgram[c.pc + 1] = "serial_unlock"
    BY <2>2 DEF BootProgram
  <2>. QED  BY <1>1, <1>2, <2>3 DEF Op, d
<1>3. CASE c.who # Boot
  <2>1. c.pc \in 0 .. 14
    BY <1>3, TaskPc
  <2>2. c.pc # 0 /\ SyscallProgram[c.pc] = "serial_lock"
    BY <1>3, <2>1 DEF Op
  <2>3. c.pc \in {4, 9, 12}
    BY <2>1, <2>2 DEF SyscallProgram
  <2>4. SyscallProgram[c.pc + 1] = "serial_unlock" /\ c.pc + 1 # 0
    BY <2>3 DEF SyscallProgram
  <2>. QED  BY <1>1, <1>3, <2>4 DEF Op, d
<1>. QED  BY <1>2, <1>3 DEF d

\* A task that is in none of these operations is inside a syscall.
LEMMA TaskInCall ==
  ASSUME NEW c \in Contexts, Op(c) \notin {"user", "save"}, c.who # Boot
  PROVE  InCall(c)
<1>1. c.pc \in 0 .. 14
  BY TaskPc
<1>. QED  BY <1>1 DEF Op, SyscallProgram, InCall

\* A step that does not end a program leads to a context of the same thread,
\* and never to the entry of a syscall.
LEMMA NextStep ==
  ASSUME NEW c \in Contexts, Op(c) \notin {"user", "sysretq", "iretq", "exit"}
  PROVE  /\ [c EXCEPT !.pc = @ + 1] \in Contexts
         /\ Op([c EXCEPT !.pc = @ + 1]) # "save"
<1>. DEFINE d == [c EXCEPT !.pc = @ + 1]
<1>1. CASE c.who = Boot
  <2>0. Len(BootProgram) = 22
    BY DEF BootProgram
  <2>1. c.pc \in 1 .. 22 /\ Len(BootProgram) = 22
    BY <1>1, <2>0, BootPc
  <2>2. c.pc \in 1 .. 21 \ {19}
    BY <1>1, <2>1 DEF Op, BootProgram
  <2>3. d = [who |-> Boot, pc |-> c.pc + 1]
    BY <1>1, StepFields
  <2>4. d \in Contexts /\ d.who = Boot /\ d.pc \in 2 .. 22
    BY <2>0, <2>2, <2>3 DEF Contexts
  <2>. QED  BY <2>4 DEF Op, BootProgram
<1>2. CASE c.who # Boot
  <2>0. Len(SyscallProgram) = 14
    BY DEF SyscallProgram
  <2>1. c.pc \in 0 .. 14 /\ c.who \in Tasks /\ Len(SyscallProgram) = 14
    BY <1>2, <2>0, TaskPc
  <2>2. c.pc \in 1 .. 13 \ {8, 11}
    BY <1>2, <2>1 DEF Op, SyscallProgram
  <2>3. d = [who |-> c.who, pc |-> c.pc + 1]
    BY StepFields
  <2>4. d \in Contexts /\ d.who # Boot /\ d.pc \in 2 .. 14
    BY <1>2, <2>1, <2>2, <2>3 DEF Contexts
  <2>. QED  BY <2>4 DEF Op, SyscallProgram
<1>. QED  BY <1>1, <1>2

\* A task in user mode is not in the kernel, and its next step would be the
\* entry of a syscall.
LEMMA UserContext ==
  ASSUME NEW t \in Tasks
  PROVE  /\ new_user(t) \in Contexts /\ Op(new_user(t)) = "user"
         /\ t # Boot
         /\ \A path \in SyscallPaths :
              /\ [who |-> t, pc |-> path] \in Contexts
              /\ Op([who |-> t, pc |-> path]) # "save"
<1>1. t # Boot /\ Len(SyscallProgram) = 14
  BY DEF Tasks, Boot, SyscallProgram
<1>2. new_user(t) \in Contexts /\ Op(new_user(t)) = "user"
  BY <1>1 DEF new_user, Contexts, Op
<1>3. ASSUME NEW path \in SyscallPaths
      PROVE  /\ [who |-> t, pc |-> path] \in Contexts
             /\ Op([who |-> t, pc |-> path]) # "save"
  <2>1. path \in 0 .. 14 /\ path \in {2, 9, 11}
    BY DEF SyscallPaths
  <2>. QED  BY <1>1, <2>1 DEF Contexts, Op, SyscallProgram
<1>. QED  BY <1>1, <1>2, <1>3

\* The state in which main enables interrupts satisfies the invariant.
LEMMA InitInvariant == Init => KernelInv
<1>. SUFFICES ASSUME Init PROVE KernelInv
  OBVIOUS
<1>1. 0 \in Tasks /\ N \in Nat \ {0} /\ EVENT_QUEUE_SIZE \in Nat
  BY KernelAssumption DEF Tasks
<1>2. regs \in Contexts /\ Op(regs) = "enable"
  BY DEF Init, Contexts, Op, BootProgram
<1>3. Flags
  BY Zenon DEF Init, Flags
<1>4. SchedType
  BY <1>1, <1>2, UserContext DEF Init, SchedType
<1>5. RestType
  BY <1>1 DEF Init, RestType, Threads
<1>6. SerialInv
  BY DEF Init, SerialInv
<1>7. EntryInv
  BY <1>1, <1>2, UserContext DEF Init, EntryInv
<1>8. BootInv
  <2>1. \A t \in Tasks : tasks[t].context.who # Boot
    BY UserContext DEF Init, new_user
  <2>2. first.who # Boot
    BY <1>1, UserContext DEF Init, new_user
  <2>3. len < N /\ ~initialized
    BY <1>1 DEF Init
  <2>. QED  BY <2>1, <2>2, <2>3 DEF BootInv
<1>9. FrameInv
  <2>1. \A t \in Tasks : ~InCall(tasks[t].context)
    BY DEF Init, new_user, InCall
  <2>2. ~InCall(regs) /\ ~InCall(first)
    BY DEF Init, new_user, InCall
  <2>. QED  BY <2>1, <2>2 DEF FrameInv
<1>. QED  BY <1>3, <1>4, <1>5, <1>6, <1>7, <1>8, <1>9 DEF KernelInv

\* What a step of the running thread inherits when it leaves the scheduler and
\* the saved contexts alone and goes on to another operation of its program.
LEMMA Onward ==
  ASSUME KernelInv, isr = "none",
         Op(regs) \notin {"user", "save", "sysretq", "iretq", "add_task", "exit"},
         Advance, UNCHANGED <<len, initialized, tasks, current, first, syscall_frame>>
  PROVE  SchedType' /\ EntryInv' /\ BootInv' /\ FrameInv'
<1>1. regs \in Contexts /\ regs' = [regs EXCEPT !.pc = @ + 1]
  BY DEF KernelInv, SchedType, Advance
<1>2. regs' \in Contexts /\ Op(regs') # "save"
  BY <1>1, NextStep
<1>3. SchedType'
  BY <1>2 DEF KernelInv, SchedType
<1>4. EntryInv'
  <2>1. Op(regs)' # "save"
    BY <1>2 DEF Op
  <2>2. \A t \in Tasks : Op(tasks[t].context)' # "save"
    BY DEF KernelInv, EntryInv, Op
  <2>3. Op(first)' # "save"
    BY DEF KernelInv, EntryInv, Op
  <2>. QED  BY <2>1, <2>2, <2>3 DEF KernelInv, EntryInv
<1>5. BootInv'
  <2>1. regs'.who = regs.who /\ regs'.pc = regs.pc + 1 /\ regs.pc \in Int
    BY <1>1 DEF Contexts
  <2>2. regs.who = Boot => regs.pc # 9
    BY DEF Op, BootProgram
  <2>3. regs'.who = Boot /\ regs'.pc <= 9 => len' < N /\ ~initialized'
    BY <2>1, <2>2 DEF KernelInv, BootInv
  <2>. QED  BY <2>3 DEF KernelInv, BootInv
<1>6. FrameInv'
  <2>1. InCall(regs) \/ regs.who = Boot
    BY <1>1, TaskInCall
  <2>2. regs'.who = regs.who
    BY <1>1 DEF Contexts
  <2>3. ~InCall(regs) => ~InCall(regs)'
    BY <2>1, <2>2 DEF InCall
  <2>. QED  BY <2>3 DEF KernelInv, FrameInv, InCall
<1>. QED  BY <1>3, <1>4, <1>5, <1>6

\* A lock taken or released by the running thread keeps its type.
LEMMA LockType ==
  ASSUME KernelInv, NEW l \in {"sched", "heap", "serial"}, Acquire(l) \/ Release(l)
  PROVE  /\ lock' \in [{"sched", "heap", "serial"} -> Threads \union {Free}]
         /\ l # "serial" => lock'["serial"] = lock["serial"]
         /\ Release(l) => lock'[l] = Free
<1>1. regs.who \in Threads
  BY DEF KernelInv, SchedType, Contexts, Threads
<1>2. lock \in [{"sched", "heap", "serial"} -> Threads \union {Free}]
  BY DEF KernelInv, RestType
<1>. QED  BY <1>1, <1>2 DEF Acquire, Release

\* The steps that take or release the scheduler's or the heap's lock.
LEMMA LockSteps ==
  ASSUME KernelInv, HeapLock \/ HeapUnlock \/ SchedLock \/ SchedUnlock
  PROVE  KernelInv'
<1>1. /\ isr = "none" /\ isr' = isr /\ int_flag' = int_flag /\ Advance
      /\ Op(regs) \in {"heap_lock", "heap_unlock", "sched_lock", "sched_unlock"}
      /\ UNCHANGED <<in_service, sched_vars, first, call_vars, rsp0, queued>>
  BY DEF HeapLock, HeapUnlock, SchedLock, SchedUnlock, At
<1>2. PICK l \in {"sched", "heap"} : Acquire(l) \/ Release(l)
  BY DEF HeapLock, HeapUnlock, SchedLock, SchedUnlock
<1>3. lock["serial"] = Free
  BY <1>1 DEF KernelInv, SerialInv
<1>4. /\ lock' \in [{"sched", "heap", "serial"} -> Threads \union {Free}]
      /\ lock'["serial"] = Free
  BY <1>2, <1>3, LockType
<1>5. SchedType' /\ EntryInv' /\ BootInv' /\ FrameInv'
  BY <1>1, Onward DEF sched_vars, call_vars
<1>6. Flags'
  BY <1>1, Zenon DEF KernelInv, Flags, sched_vars
<1>7. RestType'
  BY <1>1, <1>4 DEF KernelInv, RestType, call_vars
<1>8. SerialInv'
  BY <1>4 DEF SerialInv
<1>. QED  BY <1>5, <1>6, <1>7, <1>8 DEF KernelInv

\* The two halves of _print.
LEMMA PrintSteps ==
  ASSUME KernelInv, PrintLock \/ PrintUnlock
  PROVE  KernelInv'
<1>1. /\ isr = "none" /\ isr' = isr /\ Advance
      /\ Op(regs) \in {"serial_lock", "serial_unlock"}
      /\ UNCHANGED <<in_service, sched_vars, first, call_vars, rsp0, queued>>
      /\ Acquire("serial") \/ Release("serial")
  BY DEF PrintLock, PrintUnlock, At
<1>2. lock' \in [{"sched", "heap", "serial"} -> Threads \union {Free}]
  BY <1>1, LockType
<1>3. SchedType' /\ EntryInv' /\ BootInv' /\ FrameInv'
  BY <1>1, Onward DEF sched_vars, call_vars
<1>4. Flags'
  <2>1. int_flag' \in BOOLEAN
    BY Zenon DEF PrintLock, PrintUnlock
  <2>. QED  BY <1>1, <2>1, Zenon DEF KernelInv, Flags, sched_vars
<1>5. RestType'
  BY <1>1, <1>2 DEF KernelInv, RestType, call_vars
<1>6. SerialInv'
  <2>1. CASE PrintLock
    <3>1. regs \in Contexts /\ Op(regs) = "serial_lock" /\ ~int_flag'
          /\ regs' = [regs EXCEPT !.pc = @ + 1]
      BY <2>1 DEF PrintLock, At, Advance, KernelInv, SchedType
    <3>2. Op(regs') = "serial_unlock"
      BY <3>1, UnlockFollowsLock
    <3>3. Op(regs)' = "serial_unlock"
      BY <3>2 DEF Op
    <3>. QED  BY <1>1, <3>1, <3>3 DEF SerialInv
  <2>2. CASE PrintUnlock
    <3>1. lock'["serial"] = Free
      BY <2>2, LockType DEF PrintUnlock
    <3>. QED  BY <3>1 DEF SerialInv
  <2>. QED  BY <2>1, <2>2
<1>. QED  BY <1>3, <1>4, <1>5, <1>6 DEF KernelInv

\* interrupts::enable().
LEMMA EnableStep ==
  ASSUME KernelInv, EnableInterrupts
  PROVE  KernelInv'
<1>1. /\ isr = "none" /\ isr' = isr /\ Advance /\ Op(regs) = "enable" /\ int_flag' = TRUE
      /\ UNCHANGED <<in_service, lock, sched_vars, first, call_vars, rsp0, queued>>
  BY DEF EnableInterrupts, At
<1>2. SchedType' /\ EntryInv' /\ BootInv' /\ FrameInv'
  BY <1>1, Onward DEF sched_vars, call_vars
<1>3. Flags'
  BY <1>1, Zenon DEF KernelInv, Flags, sched_vars
<1>4. RestType'
  BY <1>1 DEF KernelInv, RestType, call_vars
<1>5. SerialInv'
  BY <1>1 DEF KernelInv, SerialInv
<1>. QED  BY <1>2, <1>3, <1>4, <1>5 DEF KernelInv

\* Scheduler::add_task.
LEMMA AddTaskStep ==
  ASSUME KernelInv, AddTask
  PROVE  KernelInv'
<1>1. /\ isr = "none" /\ isr' = isr /\ Op(regs) = "add_task" /\ int_flag' = int_flag
      /\ UNCHANGED <<in_service, lock, tasks, current, initialized>>
      /\ UNCHANGED <<first, call_vars, rsp0, queued>> /\ len' = len + 1
  BY DEF AddTask, At
<1>2. regs \in Contexts /\ regs.who = Boot /\ regs.pc = 9
  <2>1. regs \in Contexts
    BY DEF KernelInv, SchedType
  <2>2. regs.who # Boot => regs.pc \in 0 .. 14
    BY <2>1, TaskPc
  <2>3. regs.who = Boot
    BY <1>1, <2>2 DEF Op, SyscallProgram
  <2>4. regs.pc \in 1 .. 22
    BY <2>1, <2>3, BootPc
  <2>. QED  BY <1>1, <2>1, <2>3, <2>4 DEF Op, BootProgram
<1>3. len \in 0 .. N /\ len < N /\ ~initialized /\ N \in Nat
  BY <1>2, KernelAssumption DEF KernelInv, BootInv, SchedType
<1>4. /\ regs' \in Contexts /\ Op(regs') # "save" /\ regs'.who = Boot
      /\ regs'.pc <= 9 => len' # N
  <2>1. CASE len' = N
    <3>1. regs' = [regs EXCEPT !.pc = @ + 1]
      BY <2>1 DEF AddTask, Advance
    <3>2. regs' \in Contexts /\ Op(regs') # "save"
      BY <1>1, <1>2, <3>1, NextStep
    <3>3. regs'.who = Boot /\ regs'.pc = 10
      BY <1>2, <3>1 DEF Contexts
    <3>. QED  BY <3>2, <3>3
  <2>2. CASE len' # N
    <3>1. regs' = regs
      BY <2>2 DEF AddTask
    <3>. QED  BY <1>1, <1>2, <2>2, <3>1
  <2>. QED  BY <2>1, <2>2
<1>5. SchedType'
  BY <1>1, <1>3, <1>4 DEF KernelInv, SchedType
<1>6. EntryInv'
  <2>1. Op(regs)' # "save"
    BY <1>4 DEF Op
  <2>2. \A t \in Tasks : Op(tasks[t].context)' # "save"
    BY <1>1 DEF KernelInv, EntryInv, Op
  <2>3. Op(first)' # "save"
    BY <1>1 DEF KernelInv, EntryInv, Op
  <2>. QED  BY <1>1, <2>1, <2>2, <2>3 DEF KernelInv, EntryInv, call_vars
<1>7. BootInv'
  <2>1. regs'.who = Boot /\ regs'.pc <= 9 => len' < N /\ ~initialized'
    BY <1>1, <1>3, <1>4
  <2>. QED  BY <1>1, <2>1 DEF KernelInv, BootInv
<1>8. Flags'
  BY <1>1, Zenon DEF KernelInv, Flags
<1>9. RestType'
  BY <1>1 DEF KernelInv, RestType, call_vars
<1>10. SerialInv'
  BY <1>1 DEF KernelInv, SerialInv
<1>11. FrameInv'
  BY <1>1, <1>4 DEF KernelInv, FrameInv, InCall, call_vars
<1>. QED  BY <1>5, <1>6, <1>7, <1>8, <1>9, <1>10, <1>11 DEF KernelInv

\* Scheduler::start.
LEMMA StartStep ==
  ASSUME KernelInv, Start
  PROVE  KernelInv'
<1>1. /\ isr = "none" /\ isr' = isr /\ Op(regs) = "start" /\ int_flag' = int_flag
      /\ UNCHANGED <<in_service, lock, len, current, first, call_vars, rsp0, queued>>
      /\ regs \in Contexts /\ regs' = [regs EXCEPT !.pc = @ + 1]
  BY DEF Start, At, Advance, KernelInv, SchedType
<1>2. regs' \in Contexts /\ Op(regs') # "save"
  BY <1>1, NextStep
<1>3. /\ tasks' \in [Tasks -> [state : {"Ready", "Running", "Blocked"}, context : Contexts]]
      /\ \A t \in Tasks : tasks'[t].context = tasks[t].context
  BY DEF Start, KernelInv, SchedType
<1>4. ~(regs'.who = Boot /\ regs'.pc <= 9)
  <2>1. regs.who = Boot => regs.pc \in 1 .. 22
    BY <1>1, BootPc
  <2>2. regs.who = Boot => regs.pc = 12
    BY <1>1, <2>1 DEF Op, BootProgram
  <2>. QED  BY <1>1, <2>2 DEF Contexts
<1>5. SchedType'
  BY <1>1, <1>2, <1>3 DEF KernelInv, SchedType
<1>6. EntryInv'
  <2>1. Op(regs)' # "save"
    BY <1>2 DEF Op
  <2>2. \A t \in Tasks : Op(tasks[t].context)' # "save"
    BY <1>3 DEF KernelInv, EntryInv, Op
  <2>3. Op(first)' # "save"
    BY <1>1 DEF KernelInv, EntryInv, Op
  <2>. QED  BY <1>1, <2>1, <2>2, <2>3 DEF KernelInv, EntryInv, call_vars
<1>7. BootInv'
  BY <1>1, <1>3, <1>4 DEF KernelInv, BootInv
<1>8. Flags'
  <2>1. initialized' \in BOOLEAN
    BY Zenon DEF Start, KernelInv, Flags
  <2>. QED  BY <1>1, <2>1, Zenon DEF KernelInv, Flags
<1>9. RestType'
  BY <1>1 DEF KernelInv, RestType, call_vars
<1>10. SerialInv'
  BY <1>1 DEF KernelInv, SerialInv
<1>11. FrameInv'
  <2>1. InCall(regs) \/ regs.who = Boot
    BY <1>1, TaskInCall
  <2>2. regs'.who = regs.who
    BY <1>1 DEF Contexts
  <2>3. ~InCall(regs) => ~InCall(regs)'
    BY <2>1, <2>2 DEF InCall
  <2>. QED  BY <1>1, <1>3, <2>3 DEF KernelInv, FrameInv, InCall, call_vars
<1>. QED  BY <1>5, <1>6, <1>7, <1>8, <1>9, <1>10, <1>11 DEF KernelInv

\* switch_to_first_task reads the context of the current task.
LEMMA ReadStep ==
  ASSUME KernelInv, ReadContext
  PROVE  KernelInv'
<1>1. /\ isr = "none" /\ isr' = isr /\ Op(regs) = "read" /\ int_flag' = int_flag
      /\ UNCHANGED <<in_service, lock, sched_vars, call_vars, queued>>
      /\ regs \in Contexts /\ regs' = [regs EXCEPT !.pc = @ + 1]
      /\ first' = tasks[current].context /\ current \in Tasks
  BY DEF ReadContext, At, Advance, KernelInv, SchedType
<1>2. regs' \in Contexts /\ Op(regs') # "save"
  BY <1>1, NextStep
<1>3. /\ first' \in Contexts /\ Op(first') # "save"
      /\ first'.who = Boot => first'.pc > 9
  BY <1>1 DEF KernelInv, SchedType, EntryInv, BootInv
<1>4. ~(regs'.who = Boot /\ regs'.pc <= 9)
  <2>1. regs.who = Boot => regs.pc \in 1 .. 22
    BY <1>1, BootPc
  <2>2. regs.who = Boot => regs.pc = 17
    BY <1>1, <2>1 DEF Op, BootProgram
  <2>. QED  BY <1>1, <2>2 DEF Contexts
<1>5. SchedType'
  BY <1>1, <1>2, <1>3 DEF KernelInv, SchedType, sched_vars
<1>6. EntryInv'
  <2>1. Op(regs)' # "save"
    BY <1>2 DEF Op
  <2>2. \A t \in Tasks : Op(tasks[t].context)' # "save"
    BY <1>1 DEF KernelInv, EntryInv, Op, sched_vars
  <2>3. Op(first)' # "save"
    BY <1>3 DEF Op
  <2>. QED  BY <1>1, <2>1, <2>2, <2>3 DEF KernelInv, EntryInv, call_vars
<1>7. BootInv'
  BY <1>1, <1>3, <1>4 DEF KernelInv, BootInv, sched_vars
<1>8. Flags'
  BY <1>1, Zenon DEF KernelInv, Flags, sched_vars
<1>9. rsp0' \in Threads
  BY <1>1 DEF ReadContext, SetRsp0, KernelInv, RestType, Threads
<1>10. RestType'
  BY <1>1, <1>9 DEF KernelInv, RestType, call_vars
<1>11. SerialInv'
  BY <1>1 DEF KernelInv, SerialInv
<1>12. FrameInv'
  <2>1. InCall(regs) \/ regs.who = Boot
    BY <1>1, TaskInCall
  <2>2. regs'.who = regs.who
    BY <1>1 DEF Contexts
  <2>3. ~InCall(regs) => ~InCall(regs)'
    BY <2>1, <2>2 DEF InCall
  <2>. QED  BY <1>1, <2>3 DEF KernelInv, FrameInv, InCall, call_vars, sched_vars
<1>. QED  BY <1>5, <1>6, <1>7, <1>8, <1>10, <1>11, <1>12 DEF KernelInv

\* A step that loads a context in user mode, or one that was saved, and leaves
\* the locks and the saved contexts alone.
LEMMA LoadStep ==
  ASSUME KernelInv, lock["serial"] = Free, lock' = lock,
         UNCHANGED <<sched_vars, first, syscall_frame, rsp0, queued, in_service, isr>>,
         user_rsp_temp' \in Threads, int_flag' \in BOOLEAN,
         regs' \in Contexts, Op(regs') # "save", regs'.who = Boot => regs'.pc > 9,
         syscall_frame.rip \in Tasks \/ ~InCall(regs')
  PROVE  KernelInv'
<1>1. SchedType'
  BY DEF KernelInv, SchedType, sched_vars
<1>2. EntryInv'
  <2>1. Op(regs)' # "save"
    BY DEF Op
  <2>2. \A t \in Tasks : Op(tasks[t].context)' # "save"
    BY DEF KernelInv, EntryInv, Op, sched_vars
  <2>3. Op(first)' # "save"
    BY DEF KernelInv, EntryInv, Op
  <2>. QED  BY <2>1, <2>2, <2>3 DEF KernelInv, EntryInv
<1>3. BootInv'
  <2>1. regs'.who = Boot => ~(regs'.pc <= 9)
    BY DEF Contexts
  <2>. QED  BY <2>1 DEF KernelInv, BootInv, sched_vars
<1>4. Flags'
  BY Zenon DEF KernelInv, Flags, sched_vars
<1>5. RestType'
  BY DEF KernelInv, RestType
<1>6. SerialInv'
  BY DEF SerialInv
<1>7. FrameInv'
  BY DEF KernelInv, FrameInv, InCall, sched_vars
<1>. QED  BY <1>1, <1>2, <1>3, <1>4, <1>5, <1>6, <1>7 DEF KernelInv

\* The first iretq and the return from a syscall.
LEMMA ReturnSteps ==
  ASSUME KernelInv, FirstIret \/ SyscallReturn
  PROVE  KernelInv'
<1>1. /\ isr = "none" /\ Op(regs) \in {"iretq", "sysretq"} /\ int_flag' = TRUE /\ lock' = lock
      /\ UNCHANGED <<isr, in_service, sched_vars, first, call_vars, rsp0, queued>>
  BY DEF FirstIret, SyscallReturn, At
<1>2. lock["serial"] = Free
  BY <1>1 DEF KernelInv, SerialInv
<1>3. /\ regs' \in Contexts /\ Op(regs') # "save" /\ (regs'.who = Boot => regs'.pc > 9)
      /\ syscall_frame.rip \in Tasks \/ ~InCall(regs')
  <2>1. CASE FirstIret
    <3>1. regs' = first
      BY <2>1 DEF FirstIret
    <3>. QED  BY <3>1 DEF KernelInv, SchedType, EntryInv, BootInv, FrameInv
  <2>2. CASE SyscallReturn
    <3>1. regs \in Contexts /\ Op(regs) = "sysretq" /\ regs' = new_user(syscall_frame.rip)
      BY <2>2 DEF SyscallReturn, At, new_user, KernelInv, SchedType
    <3>2. regs.who # Boot
      BY <3>1, BootPc DEF Op, BootProgram
    <3>3. syscall_frame.rip \in Tasks
      BY <3>1, <3>2, TaskInCall DEF KernelInv, FrameInv
    <3>. QED  BY <3>1, <3>3, UserContext DEF new_user
  <2>. QED  BY <2>1, <2>2
<1>4. user_rsp_temp' \in Threads /\ UNCHANGED syscall_frame
  BY <1>1 DEF KernelInv, RestType, call_vars
<1>. QED  BY <1>1, <1>2, <1>3, <1>4, LoadStep

\* The entry of a syscall: interrupts are off until the frame is saved.
LEMMA EnterStep ==
  ASSUME KernelInv, SyscallEnter
  PROVE  KernelInv'
<1>1. /\ isr = "none" /\ Op(regs) = "user" /\ regs.who \in Callers /\ int_flag' = FALSE
      /\ user_rsp_temp' = regs.who /\ regs' = [regs EXCEPT !.pc = @ + 1]
      /\ UNCHANGED <<isr, in_service, lock, sched_vars, first, syscall_frame, rsp0, queued>>
      /\ regs \in Contexts
  BY DEF SyscallEnter, At, Advance, KernelInv, SchedType
<1>2. regs.who \in Tasks /\ regs.who # Boot
  BY <1>1, KernelAssumption DEF Tasks, Boot
<1>3. regs.pc = 0
  <2>1. regs.pc \in 0 .. 14
    BY <1>1, <1>2 DEF Contexts, SyscallProgram
  <2>. QED  BY <1>1, <1>2, <2>1 DEF Op, SyscallProgram
<1>4. regs' = [who |-> regs.who, pc |-> 1]
  BY <1>1, <1>3 DEF Contexts
<1>5. regs' \in Contexts
  BY <1>2, <1>4 DEF Contexts, SyscallProgram
<1>6. SchedType'
  BY <1>1, <1>5 DEF KernelInv, SchedType, sched_vars
<1>7. EntryInv'
  <2>1. isr' = "none" /\ ~int_flag' /\ user_rsp_temp' = regs'.who
    BY <1>1, <1>4
  <2>2. \A t \in Tasks : Op(tasks[t].context)' # "save"
    BY <1>1 DEF KernelInv, EntryInv, Op, sched_vars
  <2>3. Op(first)' # "save"
    BY <1>1 DEF KernelInv, EntryInv, Op
  <2>. QED  BY <1>1, <2>1, <2>2, <2>3 DEF KernelInv, EntryInv
<1>8. BootInv'
  BY <1>1, <1>2, <1>4 DEF KernelInv, BootInv, sched_vars
<1>9. Flags'
  BY <1>1, Zenon DEF KernelInv, Flags, sched_vars
<1>10. RestType'
  BY <1>1, <1>2 DEF KernelInv, RestType, Threads
<1>11. SerialInv'
  BY <1>1 DEF KernelInv, SerialInv
<1>12. FrameInv'
  BY <1>1, <1>4 DEF KernelInv, FrameInv, InCall, sched_vars
<1>. QED  BY <1>6, <1>7, <1>8, <1>9, <1>10, <1>11, <1>12 DEF KernelInv

\* The frame is saved and interrupts are on again.
LEMMA SaveStep ==
  ASSUME KernelInv, SyscallSave
  PROVE  KernelInv'
<1>1. /\ isr = "none" /\ Op(regs) = "save" /\ int_flag' = TRUE /\ regs \in Contexts
      /\ syscall_frame' = [rip |-> regs.who, rsp |-> user_rsp_temp]
      /\ UNCHANGED <<isr, in_service, lock, sched_vars, first, user_rsp_temp, rsp0, queued>>
  BY DEF SyscallSave, At, KernelInv, SchedType
<1>2. PICK path \in SyscallPaths : regs' = [regs EXCEPT !.pc = path]
  BY DEF SyscallSave
<1>3. regs.who \in Tasks /\ regs.who # Boot
  <2>1. regs.who # Boot
    BY <1>1, BootPc DEF Op, BootProgram
  <2>. QED  BY <1>1, <2>1 DEF Contexts
<1>4. regs' = [who |-> regs.who, pc |-> path]
  BY <1>1, <1>2 DEF Contexts
<1>5. regs' \in Contexts /\ Op(regs') # "save"
  BY <1>3, <1>4, UserContext
<1>6. user_rsp_temp = regs.who
  BY <1>1 DEF KernelInv, EntryInv
<1>7. SchedType'
  BY <1>1, <1>5 DEF KernelInv, SchedType, sched_vars
<1>8. EntryInv'
  <2>1. Op(regs)' # "save"
    BY <1>5 DEF Op
  <2>2. \A t \in Tasks : Op(tasks[t].context)' # "save"
    BY <1>1 DEF KernelInv, EntryInv, Op, sched_vars
  <2>3. Op(first)' # "save"
    BY <1>1 DEF KernelInv, EntryInv, Op
  <2>. QED  BY <1>1, <1>6, <2>1, <2>2, <2>3 DEF EntryInv
<1>9. BootInv'
  BY <1>1, <1>3, <1>4 DEF KernelInv, BootInv, sched_vars
<1>10. Flags'
  BY <1>1, Zenon DEF KernelInv, Flags, sched_vars
<1>11. RestType'
  BY <1>1, <1>3 DEF KernelInv, RestType, Threads
<1>12. SerialInv'
  BY <1>1 DEF KernelInv, SerialInv
<1>13. FrameInv'
  BY <1>1, <1>3 DEF FrameInv
<1>. QED  BY <1>7, <1>8, <1>9, <1>10, <1>11, <1>12, <1>13 DEF KernelInv

\* The arrival of an interrupt.
LEMMA InterruptStep ==
  ASSUME KernelInv, NEW device \in {"timer", "event", "byte"}, Interrupt(device)
  PROVE  KernelInv'
<1>1. /\ isr = "none" /\ int_flag /\ isr' = device /\ int_flag' = FALSE /\ in_service' = TRUE
      /\ UNCHANGED <<regs, lock, sched_vars, first, call_vars, rsp0, queued>>
  BY DEF Interrupt
<1>2. lock["serial"] = Free /\ Op(regs) # "save"
  BY <1>1 DEF KernelInv, SerialInv, EntryInv
<1>3. SchedType'
  BY <1>1 DEF KernelInv, SchedType, sched_vars
<1>4. EntryInv'
  <2>1. Op(regs)' # "save"
    BY <1>1, <1>2 DEF Op
  <2>2. \A t \in Tasks : Op(tasks[t].context)' # "save"
    BY <1>1 DEF KernelInv, EntryInv, Op, sched_vars
  <2>3. Op(first)' # "save"
    BY <1>1 DEF KernelInv, EntryInv, Op
  <2>. QED  BY <1>1, <2>1, <2>2, <2>3 DEF KernelInv, EntryInv, call_vars
<1>5. BootInv'
  BY <1>1 DEF KernelInv, BootInv, sched_vars
<1>6. Flags'
  BY <1>1, Zenon DEF KernelInv, Flags, sched_vars
<1>7. RestType'
  BY <1>1 DEF KernelInv, RestType, call_vars
<1>8. SerialInv'
  BY <1>1, <1>2 DEF SerialInv
<1>9. FrameInv'
  BY <1>1 DEF KernelInv, FrameInv, InCall, sched_vars, call_vars
<1>. QED  BY <1>3, <1>4, <1>5, <1>6, <1>7, <1>8, <1>9 DEF KernelInv

\* A switch to the next task: one of the tasks, with the context that was saved
\* for it; the old task's context is the interrupted one.
LEMMA SwitchStep ==
  ASSUME KernelInv, isr = "timer", initialized, schedule, first' = first
  PROVE  /\ SchedType' /\ rsp0' \in Threads /\ initialized' = initialized
         /\ Op(regs') # "save" /\ (regs'.who = Boot => regs'.pc > 9)
         /\ \A t \in Tasks :
              /\ Op(tasks'[t].context) # "save"
              /\ tasks'[t].context.who = Boot => tasks'[t].context.pc > 9
              /\ \/ tasks'[t].context = regs
                 \/ tasks'[t].context = tasks[t].context
         /\ regs' = regs \/ \E t \in Tasks : regs' = tasks[t].context
<1>1. /\ regs \in Contexts /\ Op(regs) # "save" /\ current \in Tasks /\ len \in 0 .. N
      /\ regs.who = Boot => regs.pc > 9
      /\ \A t \in Tasks :
           /\ Op(tasks[t].context) # "save"
           /\ tasks[t].context.who = Boot => tasks[t].context.pc > 9
  <2>1. regs \in Contexts /\ regs.who = Boot => regs.pc \in 1 .. 22
    BY BootPc
  <2>. QED  BY <2>1 DEF KernelInv, SchedType, EntryInv, BootInv
<1>2. CASE len < 2
  <2>1. UNCHANGED <<sched_vars, regs, rsp0>>
    BY <1>2 DEF schedule
  <2>. QED  BY <1>1, <2>1 DEF KernelInv, SchedType, RestType, sched_vars
<1>3. CASE ~(len < 2)
  <2>. DEFINE next == (current + 1) % len
  <2>1. next \in Tasks /\ N \in Nat
    <3>1. N \in Nat /\ len \in Nat \ {0} /\ current + 1 \in Nat /\ len <= N
      BY <1>1, <1>3, KernelAssumption DEF Tasks
    <3>2. (current + 1) % len \in 0 .. len - 1
      BY <3>1
    <3>. QED  BY <3>1, <3>2 DEF Tasks
  <2>2. /\ current' = next /\ regs' = tasks[next].context
        /\ tasks' = [tasks EXCEPT ![current] = [state |-> "Ready", context |-> regs],
                                   ![next].state = "Running"]
        /\ SetRsp0(next) /\ UNCHANGED <<len, initialized>>
    BY <1>3 DEF schedule
  <2>. HIDE DEF next
  <2>3. /\ tasks' \in [Tasks -> [state : {"Ready", "Running", "Blocked"}, context : Contexts]]
        /\ \A t \in Tasks : tasks'[t].context = IF t = current THEN regs ELSE tasks[t].context
    BY <1>1, <2>1, <2>2 DEF KernelInv, SchedType
  <2>4. regs' \in Contexts
    BY <2>1, <2>2 DEF KernelInv, SchedType
  <2>5. rsp0' \in Threads
    BY <2>1, <2>2 DEF SetRsp0, KernelInv, RestType, Threads
  <2>. QED  BY <1>1, <2>1, <2>2, <2>3, <2>4, <2>5 DEF KernelInv, SchedType
<1>. QED  BY <1>2, <1>3

\* timer_tick.
LEMMA TickStep ==
  ASSUME KernelInv, TimerTick
  PROVE  KernelInv'
<1>1. /\ isr = "timer" /\ lock["serial"] = Free /\ lock' = lock
      /\ UNCHANGED <<first, call_vars, queued>>
      /\ in_service' = FALSE /\ isr' = "none" /\ int_flag' = TRUE
  BY DEF TimerTick, EndOfInterrupt
<1>2. CASE initialized
  <2>1. schedule
    BY <1>2 DEF TimerTick
  <2>2. /\ SchedType' /\ rsp0' \in Threads /\ initialized' = initialized
        /\ Op(regs') # "save" /\ (regs'.who = Boot => regs'.pc > 9)
        /\ \A t \in Tasks :
             /\ Op(tasks'[t].context) # "save"
             /\ tasks'[t].context.who = Boot => tasks'[t].context.pc > 9
             /\ \/ tasks'[t].context = regs
                \/ tasks'[t].context = tasks[t].context
        /\ regs' = regs \/ \E t \in Tasks : regs' = tasks[t].context
    BY <1>1, <1>2, <2>1, SwitchStep
  <2>3. EntryInv'
    <3>1. Op(regs)' # "save"
      BY <2>2 DEF Op
    <3>2. \A t \in Tasks : Op(tasks[t].context)' # "save"
      BY <2>2 DEF Op
    <3>3. Op(first)' # "save"
      BY <1>1 DEF KernelInv, EntryInv, Op
    <3>. QED  BY <1>1, <3>1, <3>2, <3>3 DEF KernelInv, EntryInv, call_vars
  <2>4. BootInv'
    <3>1. regs'.who = Boot => ~(regs'.pc <= 9)
      <4>1. regs'.who = Boot => regs'.pc \in 1 .. 22
        <5>1. regs' \in Contexts
          BY <2>2 DEF SchedType
        <5>. QED  BY <5>1, BootPc
      <4>. QED  BY <2>2, <4>1
    <3>. QED  BY <1>1, <2>2, <3>1 DEF KernelInv, BootInv
  <2>5. Flags'
    BY <1>1, <2>2, Zenon DEF KernelInv, Flags
  <2>6. RestType'
    BY <1>1, <2>2 DEF KernelInv, RestType, call_vars
  <2>7. SerialInv'
    BY <1>1 DEF SerialInv
  <2>8. FrameInv'
    BY <1>1, <2>2 DEF KernelInv, FrameInv, InCall, call_vars
  <2>. QED  BY <2>2, <2>3, <2>4, <2>5, <2>6, <2>7, <2>8 DEF KernelInv
<1>3. CASE ~initialized
  <2>1. UNCHANGED <<sched_vars, regs, rsp0>>
    BY <1>3 DEF TimerTick
  <2>2. Op(regs) # "save"
    BY <1>1 DEF KernelInv, EntryInv
  <2>3. SchedType'
    BY <1>1, <2>1 DEF KernelInv, SchedType, sched_vars
  <2>4. EntryInv'
    <3>1. Op(regs)' # "save"
      BY <2>1, <2>2 DEF Op
    <3>2. \A t \in Tasks : Op(tasks[t].context)' # "save"
      BY <2>1 DEF KernelInv, EntryInv, Op, sched_vars
    <3>3. Op(first)' # "save"
      BY <1>1 DEF KernelInv, EntryInv, Op
    <3>. QED  BY <1>1, <3>1, <3>2, <3>3 DEF KernelInv, EntryInv, call_vars
  <2>5. BootInv'
    BY <1>1, <2>1 DEF KernelInv, BootInv, sched_vars
  <2>6. Flags'
    BY <1>1, <2>1, Zenon DEF KernelInv, Flags, sched_vars
  <2>7. RestType'
    BY <1>1, <2>1 DEF KernelInv, RestType, call_vars
  <2>8. SerialInv'
    BY <1>1 DEF SerialInv
  <2>9. FrameInv'
    BY <1>1, <2>1 DEF KernelInv, FrameInv, InCall, call_vars, sched_vars
  <2>. QED  BY <2>3, <2>4, <2>5, <2>6, <2>7, <2>8, <2>9 DEF KernelInv
<1>. QED  BY <1>2, <1>3

\* The keyboard and mouse handlers.
LEMMA KeyboardStep ==
  ASSUME KernelInv, KeyboardHandler
  PROVE  KernelInv'
<1>1. /\ isr \in {"event", "byte"}
      /\ UNCHANGED <<regs, lock, sched_vars, first, call_vars, rsp0>>
      /\ in_service' = FALSE /\ isr' = "none" /\ int_flag' = TRUE
  BY DEF KeyboardHandler, EndOfInterrupt
<1>2. queued' \in -1 .. EVENT_QUEUE_SIZE
  BY KernelAssumption DEF KeyboardHandler, push_event, KernelInv, RestType
<1>3. lock["serial"] = Free /\ Op(regs) # "save"
  BY <1>1 DEF KernelInv, SerialInv, EntryInv
<1>4. SchedType'
  BY <1>1 DEF KernelInv, SchedType, sched_vars
<1>5. EntryInv'
  <2>1. Op(regs)' # "save"
    BY <1>1, <1>3 DEF Op
  <2>2. \A t \in Tasks : Op(tasks[t].context)' # "save"
    BY <1>1 DEF KernelInv, EntryInv, Op, sched_vars
  <2>3. Op(first)' # "save"
    BY <1>1 DEF KernelInv, EntryInv, Op
  <2>. QED  BY <1>1, <2>1, <2>2, <2>3 DEF KernelInv, EntryInv, call_vars
<1>6. BootInv'
  BY <1>1 DEF KernelInv, BootInv, sched_vars
<1>7. Flags'
  BY <1>1, Zenon DEF KernelInv, Flags, sched_vars
<1>8. RestType'
  BY <1>1, <1>2 DEF KernelInv, RestType, call_vars
<1>9. SerialInv'
  BY <1>1, <1>3 DEF SerialInv
<1>10. FrameInv'
  BY <1>1 DEF KernelInv, FrameInv, InCall, sched_vars, call_vars
<1>. QED  BY <1>4, <1>5, <1>6, <1>7, <1>8, <1>9, <1>10 DEF KernelInv

\* The handler of a panic is a part of both programs.
LEMMA PanicContext ==
  ASSUME NEW c \in Contexts
  PROVE  LET d == [c EXCEPT !.pc = PanicPc(c.who)]
         IN  /\ d \in Contexts /\ Op(d) = "serial_lock"
             /\ d.who = c.who /\ (c.who = Boot => d.pc = 20)
<1>. DEFINE d == [c EXCEPT !.pc = PanicPc(c.who)]
<1>1. Len(BootProgram) = 22 /\ Len(SyscallProgram) = 14
  BY DEF BootProgram, SyscallProgram
<1>2. CASE c.who = Boot
  <2>1. d = [who |-> Boot, pc |-> 20]
    BY <1>2 DEF PanicPc, Contexts
  <2>. HIDE DEF d
  <2>2. d \in Contexts /\ Op(d) = "serial_lock" /\ d.who = Boot /\ d.pc = 20
    BY <1>1, <2>1 DEF Contexts, Op, BootProgram
  <2>. QED  BY <1>2, <2>2 DEF d
<1>3. CASE c.who # Boot
  <2>1. d = [who |-> c.who, pc |-> 12] /\ c.who \in Tasks
    BY <1>3, TaskPc DEF PanicPc, Contexts
  <2>. HIDE DEF d
  <2>2. d \in Contexts /\ Op(d) = "serial_lock" /\ d.who = c.who
    BY <1>1, <1>3, <2>1 DEF Contexts, Op, SyscallProgram
  <2>. QED  BY <1>3, <2>2 DEF d
<1>. QED  BY <1>2, <1>3

\* A panic leaves SERIAL1 to the panic handler.
LEMMA PanicStep ==
  ASSUME KernelInv, Panic
  PROVE  KernelInv'
<1>1. /\ isr = "none" /\ isr' = isr /\ int_flag' = int_flag /\ Op(regs) = "heap_unlock"
      /\ Release("heap") /\ regs \in Contexts
      /\ regs' = [regs EXCEPT !.pc = PanicPc(regs.who)]
      /\ UNCHANGED <<in_service, sched_vars, first, call_vars, rsp0, queued>>
  BY DEF Panic, At, KernelInv, SchedType
<1>2. /\ regs' \in Contexts /\ Op(regs') = "serial_lock"
      /\ regs'.who = regs.who /\ (regs'.who = Boot => regs'.pc = 20)
  BY <1>1, PanicContext
<1>3. lock["serial"] = Free
  BY <1>1 DEF KernelInv, SerialInv
<1>4. /\ lock' \in [{"sched", "heap", "serial"} -> Threads \union {Free}]
      /\ lock'["serial"] = Free
  BY <1>1, <1>3, LockType
<1>5. SchedType'
  BY <1>1, <1>2 DEF KernelInv, SchedType, sched_vars
<1>6. EntryInv'
  <2>1. Op(regs)' # "save"
    BY <1>2 DEF Op
  <2>2. \A t \in Tasks : Op(tasks[t].context)' # "save"
    BY <1>1 DEF KernelInv, EntryInv, Op, sched_vars
  <2>3. Op(first)' # "save"
    BY <1>1 DEF KernelInv, EntryInv, Op
  <2>. QED  BY <1>1, <2>1, <2>2, <2>3 DEF KernelInv, EntryInv, call_vars
<1>7. BootInv'
  BY <1>1, <1>2 DEF KernelInv, BootInv, sched_vars
<1>8. Flags'
  BY <1>1, Zenon DEF KernelInv, Flags, sched_vars
<1>9. RestType'
  BY <1>1, <1>4 DEF KernelInv, RestType, call_vars
<1>10. SerialInv'
  BY <1>4 DEF SerialInv
<1>11. FrameInv'
  <2>1. InCall(regs) \/ regs.who = Boot
    BY <1>1, TaskInCall
  <2>2. ~InCall(regs) => ~InCall(regs)'
    BY <1>2, <2>1 DEF InCall
  <2>. QED  BY <1>1, <2>2 DEF KernelInv, FrameInv, InCall, sched_vars, call_vars
<1>. QED  BY <1>5, <1>6, <1>7, <1>8, <1>9, <1>10, <1>11 DEF KernelInv

\* An exception, its handler and the end of the machine.
LEMMA FailureSteps ==
  ASSUME KernelInv, Fault \/ FaultHandler \/ Exit
  PROVE  KernelInv'
<1>1. /\ isr' \in {"fault", "halted"} /\ (int_flag' = FALSE \/ int_flag' = int_flag)
      /\ UNCHANGED <<regs, in_service, lock, sched_vars, first, call_vars, rsp0, queued>>
  BY DEF Fault, FaultHandler, Exit
<1>2. lock["serial"] = Free /\ Op(regs) # "save"
  <2>1. CASE FaultHandler
    BY <2>1 DEF FaultHandler, KernelInv, EntryInv
  <2>2. CASE Fault \/ Exit
    <3>1. Op(regs) \in {"user", "serial_lock", "iretq", "exit"}
      BY <2>2 DEF Fault, Exit, At
    <3>. QED  BY <3>1 DEF KernelInv, SerialInv
  <2>. QED  BY <2>1, <2>2
<1>3. SchedType'
  BY <1>1 DEF KernelInv, SchedType, sched_vars
<1>4. EntryInv'
  <2>1. Op(regs)' # "save"
    BY <1>1, <1>2 DEF Op
  <2>2. \A t \in Tasks : Op(tasks[t].context)' # "save"
    BY <1>1 DEF KernelInv, EntryInv, Op, sched_vars
  <2>3. Op(first)' # "save"
    BY <1>1 DEF KernelInv, EntryInv, Op
  <2>. QED  BY <1>1, <2>1, <2>2, <2>3 DEF KernelInv, EntryInv, call_vars
<1>5. BootInv'
  BY <1>1 DEF KernelInv, BootInv, sched_vars
<1>6. Flags'
  BY <1>1, Zenon DEF KernelInv, Flags, sched_vars
<1>7. RestType'
  BY <1>1 DEF KernelInv, RestType, call_vars
<1>8. SerialInv'
  BY <1>1, <1>2 DEF SerialInv
<1>9. FrameInv'
  BY <1>1 DEF KernelInv, FrameInv, InCall, sched_vars, call_vars
<1>. QED  BY <1>3, <1>4, <1>5, <1>6, <1>7, <1>8, <1>9 DEF KernelInv

\* Every step keeps the invariant.
LEMMA NextInvariant == KernelInv /\ [Next]_vars => KernelInv'
<1>. SUFFICES ASSUME KernelInv, [Next]_vars PROVE KernelInv'
  OBVIOUS
<1>1. CASE ThreadStep
  BY <1>1, EnableStep, LockSteps, PrintSteps, AddTaskStep, StartStep, ReadStep, ReturnSteps,
     SaveStep, FailureSteps DEF ThreadStep
<1>2. CASE SyscallEnter
  BY <1>2, EnterStep
<1>3. CASE TimerInterrupt \/ KeyboardInterrupt
  BY <1>3, InterruptStep DEF TimerInterrupt, KeyboardInterrupt
<1>4. CASE TimerTick
  BY <1>4, TickStep
<1>5. CASE KeyboardHandler
  BY <1>5, KeyboardStep
<1>6. CASE Panic
  BY <1>6, PanicStep
<1>7. CASE Fault \/ FaultHandler
  BY <1>7, FailureSteps
<1>8. CASE UNCHANGED vars \/ Halted
  <2>0. /\ regs' = regs /\ int_flag' = int_flag /\ isr' = isr /\ in_service' = in_service
        /\ lock' = lock /\ first' = first /\ rsp0' = rsp0 /\ queued' = queued
        /\ UNCHANGED <<tasks, len, current, initialized, user_rsp_temp, syscall_frame>>
    BY <1>8 DEF Halted, vars, cpu_vars, sched_vars, call_vars
  <2>1. Flags'
    BY <2>0, Zenon DEF KernelInv, Flags
  <2>2. SchedType' /\ RestType'
    BY <2>0 DEF KernelInv, SchedType, RestType
  <2>3. SerialInv'
    BY <2>0 DEF KernelInv, SerialInv, Op
  <2>4. EntryInv'
    <3>1. Op(regs)' = Op(regs) /\ Op(first)' = Op(first)
      BY <2>0 DEF Op
    <3>2. \A t \in Tasks : Op(tasks[t].context)' = Op(tasks[t].context)
      BY <2>0 DEF Op
    <3>. QED  BY <2>0, <3>1, <3>2 DEF KernelInv, EntryInv
  <2>5. BootInv'
    BY <2>0 DEF KernelInv, BootInv
  <2>6. FrameInv'
    BY <2>0 DEF KernelInv, FrameInv, InCall
  <2>. QED  BY <2>1, <2>2, <2>3, <2>4, <2>5, <2>6 DEF KernelInv
<1>. QED  BY <1>1, <1>2, <1>3, <1>4, <1>5, <1>6, <1>7, <1>8 DEF Next

\* KernelInv is an invariant of the kernel, for any number of tasks.
THEOREM Invariant == Spec => []KernelInv
  BY InitInvariant, NextInvariant, PTL DEF Spec

\* The variables of the kernel keep their types: in particular the scheduler's
\* current is always one of the tasks, through add_task, start and schedule, and
\* push_event never exceeds the queue.
THEOREM KernelTypes == Spec => []TypeOK
<1>1. KernelInv => TypeOK
  BY DEF KernelInv, Flags, SchedType, RestType, TypeOK
<1>. QED  BY <1>1, Invariant, PTL

\* No handler ever waits for SERIAL1, because _print holds it with interrupts
\* off (serial.rs).
THEOREM SerialSafe == Spec => []SerialNeverContended
<1>1. KernelInv => SerialNeverContended
  BY DEF KernelInv, SerialInv, SerialNeverContended
<1>. QED  BY <1>1, Invariant, PTL

\* SFMask protects syscall_handler's first instructions and USER_RSP_TEMP,
\* however many tasks make syscalls (syscall.rs).
THEOREM SyscallEntrySafe == Spec => []EntryIsMasked
<1>1. KernelInv => EntryIsMasked
  BY DEF KernelInv, EntryInv, EntryIsMasked
<1>. QED  BY <1>1, Invariant, PTL

-----------------------------------------------------------------------------
(***************************************************************************)
(* SCHEDULER, the contexts and the syscall frame.                          *)
(***************************************************************************)
\* The boot thread is where it holds SCHEDULER, or panics.
HoldsSched(c) ==
  c.who = Boot /\ (c.pc \in 7 .. 13 \/ c.pc \in 17 .. 18 \/ c.pc \in 20 .. 22)

\* SCHEDULER is held by the boot thread only, and only while it is on the CPU: a
\* tick that finds it held does not switch.
HoldInv == lock["sched"] # Free => lock["sched"] = Boot /\ HoldsSched(regs)

\* Calls of different tasks do not overlap.
CallsApart == \A s, t \in Tasks : Position(s) > 0 /\ Position(t) > 0 => s = t

OneCaller == \A s, t \in Callers : s = t

\* The first context is that of task 0 as created, or main's; while main runs and
\* task 0 has its slot, task 0 is as created.
FreshInv ==
  /\ first.who \in {0, Boot} /\ (first.who = 0 => first.pc = 0)
  /\ regs.who = Boot /\ tasks[0].context.who = 0 => tasks[0].context.pc = 0

\* Nobody runs before start(); current is a task that was added.
OrderInv ==
  /\ ~initialized => \A t \in Tasks : tasks[t].state # "Running"
  /\ current = 0 \/ current < len

CallInv == FreshInv /\ OrderInv /\ RunsCurrent /\ SyscallFrameIntact

\* Only callers are inside the kernel.
Calls(c) == c.who # Boot /\ c.pc > 0 => c.who \in Callers
CallerInv == Calls(regs) /\ Calls(first) /\ \A t \in Tasks : Calls(tasks[t].context)

\* Which thread is at an operation, and where.
LEMMA BootOps ==
  ASSUME NEW c \in Contexts
  PROVE  /\ Op(c) \in {"enable", "sched_lock", "sched_unlock", "add_task", "start", "read",
                       "iretq"} => c.who = Boot
         /\ Op(c) = "sched_lock" => c.pc \in {6, 16}
         /\ Op(c) = "iretq" => c.pc = 19
         /\ Op(c) \in {"user", "save", "sysretq"} => c.who # Boot
<1>1. CASE c.who = Boot
  <2>1. c.pc \in 1 .. 22 /\ Op(c) = BootProgram[c.pc]
    BY <1>1, BootPc DEF Op
  <2>2. /\ BootProgram[c.pc] = "sched_lock" => c.pc \in {6, 16}
        /\ BootProgram[c.pc] = "iretq" => c.pc = 19
        /\ BootProgram[c.pc] \notin {"user", "save", "sysretq"}
    BY <2>1 DEF BootProgram
  <2>. QED  BY <1>1, <2>1, <2>2
<1>2. CASE c.who # Boot
  <2>1. c.pc \in 0 .. 14
    BY <1>2, TaskPc
  <2>2. Op(c) \notin {"enable", "sched_lock", "sched_unlock", "add_task", "start", "read",
                      "iretq"}
    BY <1>2, <2>1 DEF Op, SyscallProgram
  <2>. QED  BY <1>2, <2>2
<1>. QED  BY <1>1, <1>2

\* SCHEDULER stays held until it is released.
LEMMA HeldOnward ==
  ASSUME NEW c \in Contexts, HoldsSched(c), Op(c) \notin {"sched_unlock", "exit"}
  PROVE  HoldsSched([c EXCEPT !.pc = @ + 1])
<1>1. c.who = Boot /\ c.pc \in 1 .. 22
  BY BootPc DEF HoldsSched
<1>2. c.pc \notin {13, 18, 22}
  BY <1>1 DEF Op, BootProgram
<1>3. /\ [c EXCEPT !.pc = @ + 1].who = Boot
      /\ [c EXCEPT !.pc = @ + 1].pc = c.pc + 1
  BY <1>1, StepFields
<1>. QED  BY <1>1, <1>2, <1>3 DEF HoldsSched

\* Interrupts are enabled with SCHEDULER free and all tasks fresh.
LEMMA HoldInit == Init => HoldInv /\ CallInv /\ CallerInv
<1>. SUFFICES ASSUME Init PROVE HoldInv /\ CallInv /\ CallerInv
  OBVIOUS
<1>1. 0 \in Tasks /\ \A t \in Tasks : t # Boot
  BY KernelAssumption DEF Tasks, Boot
<1>2. HoldInv
  BY DEF Init, HoldInv
<1>3. FreshInv /\ OrderInv /\ CallerInv
  BY <1>1 DEF Init, FreshInv, OrderInv, CallerInv, Calls, new_user
<1>4. RunsCurrent
  BY <1>1 DEF Init, RunsCurrent, Slot, new_user
<1>5. SyscallFrameIntact
  BY <1>1 DEF Init, SyscallFrameIntact, InCall, new_user
<1>. QED  BY <1>2, <1>3, <1>4, <1>5 DEF CallInv

\* A step of a thread along its program, but for SCHEDULER's lock.
LEMMA HoldAdvance ==
  ASSUME KernelInv, HoldInv, Advance, Op(regs) \notin {"sched_unlock", "exit"},
         lock'["sched"] = lock["sched"]
  PROVE  HoldInv'
<1>1. regs \in Contexts /\ regs' = [regs EXCEPT !.pc = @ + 1]
  BY DEF KernelInv, SchedType, Advance
<1>2. lock'["sched"] # Free => HoldsSched(regs')
  BY <1>1, HeldOnward DEF HoldInv
<1>3. lock'["sched"] # Free => HoldsSched(regs)'
  BY <1>2 DEF HoldsSched
<1>. QED  BY <1>3 DEF HoldInv

\* The steps of the boot thread and of syscalls along their programs.
LEMMA HoldProgram ==
  ASSUME KernelInv, HoldInv,
         \/ EnableInterrupts \/ HeapLock \/ HeapUnlock \/ PrintLock \/ PrintUnlock
         \/ SchedLock \/ SchedUnlock \/ Start \/ ReadContext
  PROVE  HoldInv'
<1>1. /\ Advance /\ regs \in Contexts
      /\ lock \in [{"sched", "heap", "serial"} -> Threads \union {Free}]
  BY DEF EnableInterrupts, HeapLock, HeapUnlock, PrintLock, PrintUnlock, SchedLock, SchedUnlock,
         Start, ReadContext, KernelInv, SchedType, RestType
<1>2. CASE EnableInterrupts \/ HeapLock \/ HeapUnlock \/ PrintLock \/ PrintUnlock
  <2>1. Op(regs) \notin {"sched_unlock", "exit"} /\ lock'["sched"] = lock["sched"]
    BY <1>1, <1>2 DEF EnableInterrupts, HeapLock, HeapUnlock, PrintLock, PrintUnlock, At,
                      Acquire, Release
  <2>. QED  BY <1>1, <2>1, HoldAdvance
<1>3. CASE SchedLock
  <2>1. Op(regs) = "sched_lock" /\ lock'["sched"] = regs.who
    BY <1>1, <1>3 DEF SchedLock, At, Acquire
  <2>2. regs.who = Boot /\ regs.pc \in {6, 16}
    BY <1>1, <2>1, BootOps
  <2>3. regs'.who = Boot /\ regs'.pc = regs.pc + 1
    BY <1>1, <2>2, StepFields DEF Advance
  <2>4. HoldsSched(regs)'
    BY <2>2, <2>3 DEF HoldsSched
  <2>. QED  BY <2>1, <2>2, <2>4 DEF HoldInv
<1>4. CASE SchedUnlock
  <2>1. lock'["sched"] = Free
    BY <1>1, <1>4 DEF SchedUnlock, Release
  <2>. QED  BY <2>1 DEF HoldInv
<1>5. CASE Start \/ ReadContext
  <2>1. Op(regs) \in {"start", "read"} /\ lock' = lock
    BY <1>5 DEF Start, ReadContext, At
  <2>. QED  BY <1>1, <2>1, HoldAdvance
<1>. QED  BY <1>2, <1>3, <1>4, <1>5

\* add_task, and the steps that change neither registers nor SCHEDULER.
LEMMA HoldStill ==
  ASSUME KernelInv, HoldInv,
         \/ AddTask \/ TimerInterrupt \/ KeyboardInterrupt \/ KeyboardHandler
         \/ Exit \/ Fault \/ FaultHandler \/ Halted \/ UNCHANGED vars
  PROVE  HoldInv'
<1>1. CASE AddTask
  <2>1. Op(regs) = "add_task" /\ lock' = lock /\ (Advance \/ regs' = regs)
    BY <1>1 DEF AddTask, At
  <2>2. CASE Advance
    BY <2>1, <2>2, HoldAdvance
  <2>3. CASE regs' = regs
    BY <2>1, <2>3 DEF HoldInv, HoldsSched
  <2>. QED  BY <2>1, <2>2, <2>3
<1>2. CASE ~AddTask
  <2>1. regs' = regs /\ lock' = lock
    BY <1>2 DEF TimerInterrupt, KeyboardInterrupt, Interrupt, KeyboardHandler, Exit, Fault,
                FaultHandler, Halted, vars, cpu_vars
  <2>. QED  BY <2>1 DEF HoldInv, HoldsSched
<1>. QED  BY <1>1, <1>2

\* The first iretq, syscalls, ticks and panics.
LEMMA HoldSwitch ==
  ASSUME KernelInv, HoldInv,
         FirstIret \/ SyscallEnter \/ SyscallSave \/ SyscallReturn \/ TimerTick \/ Panic
  PROVE  HoldInv'
<1>0. regs \in Contexts /\ lock \in [{"sched", "heap", "serial"} -> Threads \union {Free}]
  BY DEF KernelInv, SchedType, RestType
<1>1. CASE FirstIret \/ SyscallEnter \/ SyscallSave \/ SyscallReturn
  <2>1. Op(regs) \in {"iretq", "user", "save", "sysretq"} /\ lock' = lock
    BY <1>1 DEF FirstIret, SyscallEnter, SyscallSave, SyscallReturn, At
  <2>2. regs.pc = 19 \/ regs.who # Boot
    BY <1>0, <2>1, BootOps
  <2>3. lock["sched"] = Free
    BY <2>2 DEF HoldInv, HoldsSched
  <2>. QED  BY <2>1, <2>3 DEF HoldInv
<1>2. CASE TimerTick
  BY <1>2 DEF TimerTick, HoldInv
<1>3. CASE Panic
  <2>1. lock'["sched"] = lock["sched"] /\ regs' = [regs EXCEPT !.pc = PanicPc(regs.who)]
    BY <1>0, <1>3 DEF Panic, Release
  <2>2. regs.who = Boot => regs'.who = Boot /\ regs'.pc = 20
    BY <1>0, <2>1 DEF PanicPc, Contexts
  <2>3. HoldsSched(regs) => HoldsSched(regs)'
    BY <2>2 DEF HoldsSched
  <2>. QED  BY <2>1, <2>3 DEF HoldInv
<1>. QED  BY <1>1, <1>2, <1>3

\* HoldInv is an invariant, whenever interrupts come.
THEOREM HoldInvariant == Spec => []HoldInv
<1>1. KernelInv /\ HoldInv /\ [Next]_vars => HoldInv'
  BY HoldProgram, HoldStill, HoldSwitch DEF Next, ThreadStep
<1>. QED  BY <1>1, HoldInit, Invariant, PTL DEF Spec

\* timer_tick waits for no lock when it interrupts a task (switch.rs), for any
\* number of tasks and callers, with interrupts of every device at any time,
\* faults and panics; the guards of the boot thread are the only ones in its way.
THEOREM TicksWaitOnlyForBoot == Spec => []TickWaitsOnlyForBoot
<1>1. KernelInv /\ HoldInv => TickWaitsOnlyForBoot
  BY DEF KernelInv, SerialInv, HoldInv, HoldsSched, TickWaitsOnlyForBoot
<1>. QED  BY <1>1, Invariant, HoldInvariant, PTL

\* A step that leaves the scheduler and the frame alone and stays in its thread,
\* inside a syscall if it is a task's.
LEMMA CallStill ==
  ASSUME CallInv, UNCHANGED <<sched_vars, first, syscall_frame>>,
         regs'.who = regs.who,
         regs' = regs \/ regs.who = Boot \/ InCall(regs)
  PROVE  CallInv'
<1>1. FreshInv' /\ OrderInv' /\ RunsCurrent'
  BY DEF CallInv, FreshInv, OrderInv, RunsCurrent, sched_vars
<1>2. InCall(regs)' => InCall(regs)
  BY DEF InCall
<1>3. SyscallFrameIntact'
  BY <1>2 DEF CallInv, SyscallFrameIntact, InCall, sched_vars
<1>. QED  BY <1>1, <1>3 DEF CallInv

\* Steps along the programs, into the panic handler too.
LEMMA CallProgram ==
  ASSUME KernelInv, CallInv,
         \/ EnableInterrupts \/ HeapLock \/ HeapUnlock \/ PrintLock \/ PrintUnlock
         \/ SchedLock \/ SchedUnlock \/ Panic
  PROVE  CallInv'
<1>1. /\ regs \in Contexts /\ Op(regs) \notin {"user", "save"}
      /\ UNCHANGED <<sched_vars, first, syscall_frame>>
  BY DEF EnableInterrupts, HeapLock, HeapUnlock, PrintLock, PrintUnlock, SchedLock, SchedUnlock,
         Panic, At, KernelInv, SchedType, call_vars
<1>2. regs'.who = regs.who
  <2>1. Advance \/ regs' = [regs EXCEPT !.pc = PanicPc(regs.who)]
    BY DEF EnableInterrupts, HeapLock, HeapUnlock, PrintLock, PrintUnlock, SchedLock,
           SchedUnlock, Panic
  <2>. QED  BY <1>1, <2>1 DEF Advance, Contexts
<1>3. regs.who = Boot \/ InCall(regs)
  BY <1>1, TaskInCall
<1>. QED  BY <1>1, <1>2, <1>3, CallStill

\* Interrupts, the keyboard's handler and the end of the machine.
LEMMA CallQuietSteps ==
  ASSUME CallInv,
         \/ TimerInterrupt \/ KeyboardInterrupt \/ KeyboardHandler
         \/ Exit \/ Fault \/ FaultHandler \/ Halted \/ UNCHANGED vars
  PROVE  CallInv'
<1>1. regs' = regs /\ UNCHANGED <<sched_vars, first, syscall_frame>>
  BY DEF TimerInterrupt, KeyboardInterrupt, Interrupt, KeyboardHandler, Exit, Fault,
         FaultHandler, Halted, vars, cpu_vars, call_vars
<1>. QED  BY <1>1, CallStill

\* While the boot thread is on the CPU, current is task 0.
LEMMA BootIsCurrent ==
  ASSUME KernelInv, CallInv, regs.who = Boot
  PROVE  current = 0 /\ 0 \in Tasks /\ 0 # Boot
<1>1. 0 \in Tasks /\ 0 # Boot /\ \A t \in Tasks : t # Boot
  BY KernelAssumption DEF Tasks, Boot
<1>2. current \in Tasks /\ Boot \in Slot(current)
  BY DEF KernelInv, SchedType, CallInv, RunsCurrent
<1>. QED  BY <1>1, <1>2 DEF Slot

\* add_task, start and the read of the first context.
LEMMA CallBootSteps ==
  ASSUME KernelInv, CallInv, AddTask \/ Start \/ ReadContext
  PROVE  CallInv'
<1>1. /\ regs \in Contexts /\ Op(regs) \in {"add_task", "start", "read"}
      /\ UNCHANGED <<current, syscall_frame>> /\ len \in Nat
  BY KernelAssumption DEF AddTask, Start, ReadContext, At, KernelInv, SchedType, call_vars,
                          sched_vars
<1>2. regs.who = Boot
  BY <1>1, BootOps
<1>3. current = 0 /\ 0 \in Tasks /\ 0 # Boot
  BY <1>2, BootIsCurrent
<1>4. regs'.who = Boot
  BY <1>1, <1>2 DEF AddTask, Start, ReadContext, Advance, Contexts
<1>5. /\ \A t \in Tasks : tasks'[t].context = tasks[t].context
      /\ first' = first \/ first' = tasks[0].context
  BY <1>1, <1>3 DEF AddTask, Start, ReadContext, KernelInv, SchedType, sched_vars
<1>6. /\ OrderInv'
      /\ initialized' => \A t \in Tasks : tasks'[t].state = "Running" <=> t = current
  <2>1. CASE AddTask \/ ReadContext
    <3>1. UNCHANGED <<tasks, initialized, current>>
      BY <2>1 DEF AddTask, ReadContext, sched_vars
    <3>. QED  BY <1>3, <3>1 DEF CallInv, OrderInv, RunsCurrent
  <2>2. CASE Start /\ len > 0
    <3>1. tasks' = [tasks EXCEPT ![0].state = "Running"] /\ initialized' = TRUE
      BY <2>2 DEF Start
    <3>2. \A t \in Tasks : tasks'[t].state = IF t = 0 THEN "Running" ELSE tasks[t].state
      BY <1>1, <3>1 DEF KernelInv, SchedType
    <3>3. \A t \in Tasks : tasks[t].state = "Running" => t = 0
      BY <1>3 DEF CallInv, OrderInv, RunsCurrent
    <3>. QED  BY <1>1, <1>3, <3>1, <3>2, <3>3 DEF OrderInv
  <2>3. CASE Start /\ ~(len > 0)
    <3>1. UNCHANGED <<tasks, initialized, current>>
      BY <2>3 DEF Start
    <3>. QED  BY <1>3, <3>1 DEF CallInv, OrderInv, RunsCurrent
  <2>. QED  BY <2>1, <2>2, <2>3
<1>7. FreshInv'
  <2>1. tasks[0].context.who \in {0, Boot}
    BY <1>3 DEF CallInv, RunsCurrent, Slot
  <2>. QED  BY <1>2, <1>3, <1>5, <2>1 DEF CallInv, FreshInv
<1>8. RunsCurrent'
  BY <1>1, <1>2, <1>4, <1>5, <1>6 DEF CallInv, RunsCurrent
<1>9. SyscallFrameIntact'
  BY <1>1, <1>4, <1>5 DEF CallInv, SyscallFrameIntact, InCall
<1>. QED  BY <1>6, <1>7, <1>8, <1>9 DEF CallInv

\* The first iretq loads task 0 as created, which is current, or main again.
LEMMA CallFirst ==
  ASSUME KernelInv, CallInv, FirstIret
  PROVE  CallInv'
<1>1. /\ regs \in Contexts /\ Op(regs) = "iretq" /\ regs' = first
      /\ UNCHANGED <<sched_vars, first, syscall_frame>>
  BY DEF FirstIret, At, KernelInv, SchedType, call_vars
<1>2. regs.who = Boot
  BY <1>1, BootOps
<1>3. current = 0 /\ 0 \in Tasks /\ 0 # Boot
  BY <1>2, BootIsCurrent
<1>4. regs'.who \in {0, Boot} /\ (regs'.who = 0 => regs'.pc = 0)
  BY <1>1 DEF CallInv, FreshInv
<1>5. FreshInv' /\ OrderInv'
  BY <1>1, <1>2 DEF CallInv, FreshInv, OrderInv, sched_vars
<1>6. RunsCurrent'
  <2>1. regs'.who \in Slot(current)
    BY <1>3, <1>4 DEF Slot
  <2>. QED  BY <1>1, <2>1 DEF CallInv, RunsCurrent, sched_vars
<1>7. SyscallFrameIntact'
  <2>1. ~InCall(regs)'
    BY <1>4 DEF InCall
  <2>. QED  BY <1>1, <2>1 DEF CallInv, SyscallFrameIntact, InCall, sched_vars
<1>. QED  BY <1>5, <1>6, <1>7 DEF CallInv

\* A task other than the one in a call is in none, if calls do not overlap.
LEMMA OthersOutside ==
  ASSUME KernelInv, CallInv, CallsApart, regs.who = current, regs.pc > 0,
         NEW t \in Tasks \ {current}
  PROVE  ~InCall(tasks[t].context)
<1>. SUFFICES ASSUME InCall(tasks[t].context) PROVE FALSE
  OBVIOUS
<1>. DEFINE c == tasks[t].context
<1>1. c \in Contexts /\ c.who # Boot /\ c.pc > 1 /\ current \in Tasks
  BY DEF InCall, KernelInv, SchedType
<1>2. c.pc \in 0 .. 14 /\ c.who \in Slot(t)
  BY <1>1, TaskPc DEF CallInv, RunsCurrent
<1>3. c.who = t
  BY <1>1, <1>2 DEF Slot
<1>4. Position(t) = c.pc /\ Position(current) = regs.pc
  BY <1>3 DEF Position
<1>5. Position(t) > 0 /\ Position(current) > 0
  <2>. HIDE DEF c
  <2>. QED  BY <1>1, <1>2, <1>4
<1>6. t = current
  BY <1>1, <1>5 DEF CallsApart
<1>. QED  BY <1>6

\* The way into a syscall and out of it: the frame saved is the caller's.
LEMMA CallSteps ==
  ASSUME KernelInv, CallInv, CallsApart, SyscallEnter \/ SyscallSave \/ SyscallReturn
  PROVE  CallInv'
<1>1. /\ regs \in Contexts /\ Op(regs) \in {"user", "save", "sysretq"}
      /\ UNCHANGED <<sched_vars, first>>
  BY DEF SyscallEnter, SyscallSave, SyscallReturn, At, KernelInv, SchedType
<1>2. regs.who # Boot /\ regs.pc \in 0 .. 14 /\ regs.who = current
  <2>1. regs.who # Boot
    BY <1>1, BootOps
  <2>. QED  BY <1>1, <2>1, TaskPc DEF CallInv, RunsCurrent, Slot
<1>3. ASSUME regs'.who = regs.who
      PROVE  FreshInv' /\ OrderInv' /\ RunsCurrent'
  BY <1>1, <1>2, <1>3 DEF CallInv, FreshInv, OrderInv, RunsCurrent, sched_vars
<1>4. CASE SyscallEnter
  <2>1. /\ regs' = [regs EXCEPT !.pc = @ + 1] /\ Op(regs) = "user"
        /\ syscall_frame' = syscall_frame
    BY <1>4 DEF SyscallEnter, Advance, At
  <2>2. regs.pc = 0
    BY <1>2, <2>1 DEF Op, SyscallProgram
  <2>3. regs'.who = regs.who /\ regs'.pc = 1
    BY <1>1, <2>1, <2>2 DEF Contexts
  <2>4. SyscallFrameIntact'
    BY <1>1, <2>1, <2>3 DEF CallInv, SyscallFrameIntact, InCall, sched_vars
  <2>. QED  BY <1>3, <2>3, <2>4 DEF CallInv
<1>5. CASE SyscallSave
  <2>1. /\ \E path \in SyscallPaths : regs' = [regs EXCEPT !.pc = path]
        /\ Op(regs) = "save" /\ syscall_frame'.rip = regs.who
    BY <1>5 DEF SyscallSave, At
  <2>2. regs.pc > 0
    BY <1>2, <2>1 DEF Op
  <2>3. regs'.who = regs.who
    BY <1>1, <2>1 DEF Contexts
  <2>4. \A t \in Tasks \ {current} : ~InCall(tasks[t].context)
    BY <1>2, <2>2, OthersOutside
  <2>5. SyscallFrameIntact'
    BY <1>1, <2>1, <2>3, <2>4 DEF SyscallFrameIntact, InCall, sched_vars
  <2>. QED  BY <1>3, <2>3, <2>5 DEF CallInv
<1>6. CASE SyscallReturn
  <2>1. /\ Op(regs) = "sysretq" /\ regs' = [who |-> syscall_frame.rip, pc |-> 0]
        /\ syscall_frame' = syscall_frame
    BY <1>6 DEF SyscallReturn, At, call_vars
  <2>2. syscall_frame.rip = regs.who
    BY <1>1, <1>2, <2>1, TaskInCall DEF CallInv, SyscallFrameIntact
  <2>3. regs'.who = regs.who /\ regs'.pc = 0
    BY <2>1, <2>2
  <2>4. SyscallFrameIntact'
    BY <1>1, <2>1, <2>3 DEF CallInv, SyscallFrameIntact, InCall, sched_vars
  <2>. QED  BY <1>3, <2>3, <2>4 DEF CallInv
<1>. QED  BY <1>4, <1>5, <1>6

\* Round robin over at least two tasks leaves the current one.
LEMMA NextDiffers ==
  ASSUME NEW n \in Nat, n >= 2, NEW c \in 0 .. n - 1
  PROVE  (c + 1) % n \in 0 .. n - 1 /\ (c + 1) % n # c
<1>1. CASE c + 1 < n
  BY <1>1
<1>2. CASE c + 1 = n
  BY <1>2
<1>. QED  BY <1>1, <1>2

\* What a tick that switches does to the saved contexts.
LEMMA TickContexts ==
  ASSUME KernelInv, CallInv, TimerTick, initialized, ~(len < 2)
  PROVE  \E next \in Tasks \ {current} :
           /\ next < len /\ len' = len /\ initialized' = initialized
           /\ current' = next /\ regs' = tasks[next].context
           /\ \A t \in Tasks :
                /\ tasks'[t].context = IF t = current THEN regs ELSE tasks[t].context
                /\ tasks'[t].state = IF t = next THEN "Running"
                                     ELSE IF t = current THEN "Ready" ELSE tasks[t].state
<1>. DEFINE next == (current + 1) % len
<1>1. current \in Tasks /\ len \in 0 .. N /\ N \in Nat
  BY KernelAssumption DEF KernelInv, SchedType
<1>2. next \in Tasks \ {current} /\ next < len
  <2>1. current \in 0 .. len - 1 /\ len \in Nat /\ len >= 2
    BY <1>1 DEF CallInv, OrderInv, Tasks
  <2>2. next \in 0 .. len - 1 /\ next # current
    BY <2>1, NextDiffers
  <2>. QED  BY <1>1, <2>1, <2>2 DEF Tasks
<1>3. /\ current' = next /\ regs' = tasks[next].context
      /\ tasks' = [tasks EXCEPT ![current] = [state |-> "Ready", context |-> regs],
                                 ![next].state = "Running"]
      /\ len' = len /\ initialized' = initialized
  BY DEF TimerTick, schedule
<1>. HIDE DEF next
<1>4. \A t \in Tasks :
        /\ tasks'[t].context = IF t = current THEN regs ELSE tasks[t].context
        /\ tasks'[t].state = IF t = next THEN "Running"
                             ELSE IF t = current THEN "Ready" ELSE tasks[t].state
  BY <1>1, <1>2, <1>3 DEF KernelInv, SchedType
<1>. QED  BY <1>2, <1>3, <1>4

\* A tick: the running task's context is saved as its own, the next one's loaded.
LEMMA CallTick ==
  ASSUME KernelInv, CallInv, TimerTick
  PROVE  CallInv'
<1>1. first' = first /\ syscall_frame' = syscall_frame /\ current \in Tasks
  BY DEF TimerTick, KernelInv, SchedType, call_vars
<1>2. CASE ~initialized \/ len < 2
  <2>1. regs' = regs /\ UNCHANGED <<sched_vars, first, syscall_frame>>
    BY <1>1, <1>2 DEF TimerTick, schedule
  <2>. QED  BY <2>1, CallStill
<1>3. CASE initialized /\ ~(len < 2)
  <2>1. PICK next \in Tasks \ {current} :
           /\ next < len /\ len' = len /\ initialized' = initialized
           /\ current' = next /\ regs' = tasks[next].context
           /\ \A t \in Tasks :
                /\ tasks'[t].context = IF t = current THEN regs ELSE tasks[t].context
                /\ tasks'[t].state = IF t = next THEN "Running"
                                     ELSE IF t = current THEN "Ready" ELSE tasks[t].state
    BY <1>3, TickContexts
  <2>2. RunsCurrent'
    <3>1. regs'.who \in Slot(next)
      BY <2>1 DEF CallInv, RunsCurrent
    <3>2. \A t \in Tasks : tasks'[t].context.who \in Slot(t)
      BY <2>1 DEF CallInv, RunsCurrent
    <3>3. \A t \in Tasks : tasks'[t].state = "Running" <=> t = next
      BY <1>3, <2>1 DEF CallInv, RunsCurrent
    <3>. QED  BY <2>1, <3>1, <3>2, <3>3 DEF RunsCurrent
  <2>3. FreshInv'
    <3>1. 0 \in Tasks /\ 0 # Boot /\ \A t \in Tasks : t # Boot
      BY KernelAssumption DEF Tasks, Boot
    <3>2. regs'.who = Boot => next = 0
      BY <2>1, <3>1 DEF CallInv, RunsCurrent, Slot
    <3>3. regs'.who = Boot => tasks'[0].context.who = Boot
      BY <2>1, <3>1, <3>2
    <3>. QED  BY <1>1, <3>1, <3>3 DEF CallInv, FreshInv
  <2>4. OrderInv'
    BY <1>3, <2>1 DEF OrderInv
  <2>5. SyscallFrameIntact'
    <3>1. InCall(regs') => syscall_frame.rip = regs'.who
      BY <2>1 DEF CallInv, SyscallFrameIntact
    <3>2. \A t \in Tasks : InCall(tasks'[t].context) =>
                             t = current \/ syscall_frame.rip = tasks'[t].context.who
      BY <2>1 DEF CallInv, SyscallFrameIntact
    <3>3. InCall(tasks'[current].context) => syscall_frame.rip = tasks'[current].context.who
      BY <1>1, <2>1 DEF CallInv, SyscallFrameIntact
    <3>4. InCall(regs)' => syscall_frame'.rip = regs'.who
      BY <1>1, <3>1 DEF InCall
    <3>5. \A t \in Tasks : InCall(tasks[t].context)' => syscall_frame'.rip = tasks'[t].context.who
      BY <1>1, <3>2, <3>3 DEF InCall
    <3>. QED  BY <3>4, <3>5 DEF SyscallFrameIntact
  <2>. QED  BY <2>2, <2>3, <2>4, <2>5 DEF CallInv
<1>. QED  BY <1>2, <1>3

\* While calls do not overlap every step keeps contexts and the frame where they
\* belong.
LEMMA CallNext ==
  ASSUME KernelInv, CallInv, CallsApart, [Next]_vars
  PROVE  CallInv'
BY CallProgram, CallQuietSteps, CallBootSteps, CallFirst, CallSteps, CallTick
   DEF Next, ThreadStep

\* Each switch saves the context of the task it interrupts as that task's and
\* loads the one schedule made current, which alone is Running (switch.rs,
\* scheduler.rs), for any number of tasks and callers and whenever ticks come, as
\* long as no task enters a syscall while another is inside one.
THEOREM SwitchesCorrect == Spec /\ []CallsApart => []RunsCurrent
<1>1. KernelInv /\ CallInv /\ CallsApart /\ [Next]_vars => CallInv'
  BY CallNext
<1>2. CallInv => RunsCurrent
  BY DEF CallInv
<1>. QED  BY <1>1, <1>2, HoldInit, Invariant, PTL DEF Spec

\* A step keeps contexts at pc > 0 to the callers.
LEMMA CallerNext ==
  ASSUME KernelInv, CallerInv, [Next]_vars
  PROVE  CallerInv'
<1>0. regs \in Contexts /\ current \in Tasks
  BY DEF KernelInv, SchedType
<1>1. CASE SyscallEnter
  <2>1. /\ regs.who \in Callers /\ regs' = [regs EXCEPT !.pc = @ + 1]
        /\ UNCHANGED <<sched_vars, first>>
    BY <1>1 DEF SyscallEnter, Advance
  <2>2. regs'.who \in Callers
    BY <1>0, <2>1 DEF Contexts
  <2>. QED  BY <2>1, <2>2 DEF CallerInv, Calls, sched_vars
<1>2. CASE SyscallReturn
  <2>1. regs'.pc = 0 /\ UNCHANGED <<sched_vars, first>>
    BY <1>2 DEF SyscallReturn
  <2>. QED  BY <2>1 DEF CallerInv, Calls, sched_vars
<1>3. CASE FirstIret
  BY <1>3 DEF FirstIret, CallerInv, Calls, sched_vars
<1>4. CASE TimerTick
  <2>1. first' = first
    BY <1>4 DEF TimerTick
  <2>2. CASE ~initialized \/ len < 2
    BY <1>4, <2>1, <2>2 DEF TimerTick, schedule, CallerInv, Calls, sched_vars
  <2>3. CASE initialized /\ ~(len < 2)
    <3>1. /\ regs' = regs \/ \E t \in Tasks : regs' = tasks[t].context
          /\ \A t \in Tasks : tasks'[t].context = regs \/ tasks'[t].context = tasks[t].context
      BY <1>4, <2>1, <2>3, SwitchStep DEF TimerTick
    <3>2. Calls(regs')
      BY <3>1 DEF CallerInv
    <3>3. \A t \in Tasks : Calls(tasks'[t].context)
      BY <3>1 DEF CallerInv
    <3>. QED  BY <2>1, <3>2, <3>3 DEF CallerInv, Calls
  <2>. QED  BY <2>2, <2>3
<1>5. CASE SyscallSave \/ EnableInterrupts \/ HeapLock \/ HeapUnlock \/ PrintLock \/ PrintUnlock
           \/ SchedLock \/ SchedUnlock \/ Panic
  <2>1. /\ Op(regs) # "user" /\ UNCHANGED <<sched_vars, first>>
        /\ \E n : regs' = [regs EXCEPT !.pc = n]
    BY <1>5 DEF SyscallSave, EnableInterrupts, HeapLock, HeapUnlock, PrintLock, PrintUnlock,
                SchedLock, SchedUnlock, Panic, At, Advance
  <2>2. regs'.who = regs.who
    BY <1>0, <2>1 DEF Contexts
  <2>3. regs.who # Boot => regs.who \in Callers
    <3>1. regs.who # Boot => regs.pc > 0
      BY <1>0, <2>1, TaskPc DEF Op
    <3>. QED  BY <3>1 DEF CallerInv, Calls
  <2>. QED  BY <2>1, <2>2, <2>3 DEF CallerInv, Calls, sched_vars
<1>6. CASE AddTask \/ Start \/ ReadContext
  <2>1. /\ Op(regs) \in {"add_task", "start", "read"}
        /\ regs' = regs \/ regs' = [regs EXCEPT !.pc = @ + 1]
    BY <1>6 DEF AddTask, Start, ReadContext, At, Advance
  <2>2. regs'.who = Boot
    <3>1. regs.who = Boot
      BY <1>0, <2>1, BootOps
    <3>. QED  BY <1>0, <2>1, <3>1, StepFields
  <2>3. /\ \A t \in Tasks : tasks'[t].context = tasks[t].context
        /\ first' = first \/ first' = tasks[current].context
    BY <1>0, <1>6 DEF AddTask, Start, ReadContext, KernelInv, SchedType, sched_vars
  <2>4. Calls(first')
    BY <1>0, <2>3 DEF CallerInv
  <2>. QED  BY <2>2, <2>3, <2>4 DEF CallerInv, Calls
<1>7. CASE \/ TimerInterrupt \/ KeyboardInterrupt \/ KeyboardHandler
           \/ Exit \/ Fault \/ FaultHandler \/ Halted \/ UNCHANGED vars
  <2>1. regs' = regs /\ UNCHANGED <<sched_vars, first>>
    BY <1>7 DEF TimerInterrupt, KeyboardInterrupt, Interrupt, KeyboardHandler, Exit, Fault,
                FaultHandler, Halted, vars, cpu_vars
  <2>. QED  BY <2>1 DEF CallerInv, Calls, sched_vars
<1>. QED  BY <1>1, <1>2, <1>3, <1>4, <1>5, <1>6, <1>7 DEF Next, ThreadStep

\* With one caller, as main creates it, calls cannot overlap: every switch is
\* right, however many other tasks there are and whenever ticks come.
THEOREM OneCallerSwitches == ASSUME OneCaller PROVE Spec => []RunsCurrent
<1>1. KernelInv /\ CallerInv /\ [Next]_vars => CallerInv'
  BY CallerNext
<1>2. KernelInv /\ CallerInv => CallsApart
  <2>. SUFFICES ASSUME KernelInv, CallerInv,
                       NEW s \in Tasks, NEW t \in Tasks, Position(s) > 0, Position(t) > 0
                PROVE  s = t
    BY DEF CallsApart
  <2>1. \A u \in Tasks : Position(u) > 0 => u \in Callers
    <3>. SUFFICES ASSUME NEW u \in Tasks, Position(u) > 0 PROVE u \in Callers
      OBVIOUS
    <3>1. u # Boot
      BY DEF Tasks, Boot
    <3>2. CASE regs.who = u
      <4>1. regs.pc > 0
        BY <3>2 DEF Position
      <4>. QED  BY <3>1, <3>2, <4>1 DEF CallerInv, Calls
    <3>3. CASE regs.who # u
      <4>1. tasks[u].context.who = u /\ tasks[u].context.pc > 0
        BY <3>3 DEF Position
      <4>. QED  BY <3>1, <4>1 DEF CallerInv, Calls
    <3>. QED  BY <3>2, <3>3
  <2>. QED  BY <2>1 DEF OneCaller
<1>. QED  BY <1>1, <1>2, HoldInit, Invariant, SwitchesCorrect, PTL DEF Spec
=============================================================================
