-------------------------- MODULE RegistersProofs ---------------------------
(***************************************************************************)
(* For any number of tasks, of which at most one makes syscalls: every     *)
(* thread finds its registers as it left them after a tick, a switch or a  *)
(* syscall (UserRegistersKept, ResumesExactly), and Rust code is called    *)
(* with the right parameters on an aligned stack (CallsWellFormed).        *)
(*                                                                         *)
(* The invariant says where the registers of every thread are: in the CPU, *)
(* in the frame of a tick, in Task.context; and for a task inside          *)
(* syscall_handler, which of them are on the syscall stack at each         *)
(* instruction. A frame is written below the stack pointer, so no tick     *)
(* touches the words a suspended syscall still needs.                      *)
(***************************************************************************)
EXTENDS Registers, SequenceTheorems, TLAPS

OneCaller == \A s, t \in Callers : s = t

\* With several tasks no tick comes between start() and the first iretq.
Quiet == QuietStart \/ N = 1

Regs == [Registers -> Int]

\* The registers of the running or interrupted thread.
Running == IF isr THEN cut[Thread] ELSE reg

\* User mode of task t.
UserState(t, r) ==
  /\ r["cs"] = 35 /\ r["ss"] = 27
  /\ r["rflags"] \in 512 .. 516
  /\ r["rip"] \in UserRip(t) .. UserRip(t) + 9

\* What syscall_handler has pushed: the registers e to return with, and
\* the number, or the answer once it is stored.
Saved(m, e, rax) ==
  /\ m[120] = e["r9"] /\ m[121] = e["r8"] /\ m[122] = e["r10"] /\ m[123] = e["rdx"]
  /\ m[124] = e["rsi"] /\ m[125] = e["rdi"] /\ m[126] = rax
  /\ m[127] = e["rsp"] /\ m[128] = e["rflags"] /\ m[129] = e["rip"]

\* What a syscall made with the registers a returns with.
Answered(e, a) ==
  /\ e["rcx"] = e["rip"] /\ e["r11"] = e["rflags"] /\ e["rax"] = e["rdx"]
  /\ a["rdi"] = e["rdi"] /\ a["rsi"] = e["rsi"] /\ a["rdx"] = e["rdx"]
  /\ a["r10"] = e["r10"] /\ a["r8"] = e["r8"]

\* The first n parameters of syscall_entry are loaded.
Loaded(r, a, n) ==
  /\ n >= 1 => r["rdi"] = a["rax"]
  /\ n >= 2 => r["rsi"] = a["rdi"]
  /\ n >= 3 => r["rdx"] = a["rsi"]
  /\ n >= 4 => r["rcx"] = a["rdx"]
  /\ n >= 5 => r["r8"] = a["r10"]
  /\ n >= 6 => r["r9"] = a["r8"]

KernelState(r) == r["cs"] = 8 /\ r["ss"] = 16 /\ r["rflags"] \in 512 .. 516

Untouched(r, e) ==
  r["r12"] = e["r12"] /\ r["r13"] = e["r13"] /\ r["r14"] = e["r14"] /\ r["r15"] = e["r15"]

SameB(r, e) == r["rbx"] = e["rbx"] /\ r["rbp"] = e["rbp"]

\* The instructions of syscall_handler and syscall_entry.
AtLoads(r, m, e, a) ==
  /\ r["rip"] \in 10 .. 16 /\ r["rsp"] = 120
  /\ SameB(r, e) /\ Saved(m, e, a["rax"]) /\ Loaded(r, a, r["rip"] - 10)

AtEntry(r, m, e, a) ==
  /\ r["rip"] = 20 /\ r["rsp"] = 119 /\ m[119] = 17
  /\ SameB(r, e) /\ Saved(m, e, a["rax"]) /\ Loaded(r, a, 6)

InEntry(r, m, e, a) ==
  /\ r["rip"] = 21 /\ r["rsp"] = 117 /\ m[119] = 17
  /\ m[117] = e["rbx"] /\ m[118] = e["rbp"] /\ r["rbx"] = e["rax"] /\ Saved(m, e, a["rax"])

AtReturn(r, m, e, a) ==
  /\ r["rip"] = 17 /\ r["rsp"] = 120 /\ r["rax"] = e["rax"]
  /\ SameB(r, e) /\ Saved(m, e, a["rax"])

AtStored(r, m, e) ==
  /\ r["rip"] = 18 /\ r["rsp"] = 120
  /\ SameB(r, e) /\ Saved(m, e, e["rax"])

SyscallState(t, r, m, e, a) ==
  /\ t \in Callers
  /\ KernelState(r) /\ Untouched(r, e) /\ UserState(t, e) /\ Answered(e, a)
  /\ \/ AtLoads(r, m, e, a) \/ AtEntry(r, m, e, a) \/ InEntry(r, m, e, a)
     \/ AtReturn(r, m, e, a) \/ AtStored(r, m, e)

\* A task with the registers r.
TaskState(t, r, m, e, a) ==
  (UserState(t, r) /\ r = e) \/ SyscallState(t, r, m, e, a)

BootState(r) ==
  r["rip"] \in 1 .. 2 /\ r["rsp"] = 39 /\ r["cs"] = 8 /\ r["ss"] = 16 /\ r["rflags"] = 512

\* Where a tick puts its frame.
FrameOf(r) == IF UserMode(r) THEN 60 ELSE Aligned(r["rsp"]) - 20

TypeOK ==
  /\ reg \in Regs /\ mem \in [Words -> Int] /\ isr \in BOOLEAN /\ user_rsp_temp \in Int
  /\ contexts \in [Tasks -> Regs] /\ asked \in [Tasks -> Regs] /\ expect \in [Tasks -> Regs]
  /\ cut \in [Tasks \union {Boot} -> Regs]
  /\ len \in 1 .. N /\ current \in 0 .. len - 1
  /\ initialized \in BOOLEAN /\ entered \in BOOLEAN

\* The registers of a task, wherever they are.
StateOf(t) == IF entered /\ t = current THEN Running ELSE contexts[t]

TasksOK == \A t \in Tasks : TaskState(t, StateOf(t), mem, expect[t], asked[t])

CutOK == \A t \in Tasks : ~(entered /\ t = current) => cut[t] = contexts[t]

BootOK ==
  IF entered THEN initialized
  ELSE /\ current = 0 /\ UserMode(contexts[0])
       /\ BootState(Running) /\ initialized = (Running["rip"] = 2)

\* The frame of a tick; with several tasks it never is the boot thread's
\* after start().
FrameOK ==
  isr => /\ reg["rdi"] = FrameOf(Running) /\ reg["rsp"] = FrameOf(Running)
         /\ ContextAt(mem, FrameOf(Running)) = Running
         /\ ~entered => ~(initialized /\ len >= 2)

RInv == TypeOK /\ TasksOK /\ CutOK /\ BootOK /\ FrameOK
-----------------------------------------------------------------------------
(***************************************************************************)
(* The order of the registers.                                             *)
(***************************************************************************)
LEMMA LayoutWords ==
  /\ DOMAIN Layout = 1 .. 20
  /\ Layout[1] = "r15" /\ Layout[2] = "r14" /\ Layout[3] = "r13" /\ Layout[4] = "r12"
  /\ Layout[5] = "r11" /\ Layout[6] = "r10" /\ Layout[7] = "r9" /\ Layout[8] = "r8"
  /\ Layout[9] = "rbp" /\ Layout[10] = "rdi" /\ Layout[11] = "rsi" /\ Layout[12] = "rdx"
  /\ Layout[13] = "rcx" /\ Layout[14] = "rbx" /\ Layout[15] = "rax" /\ Layout[16] = "rip"
  /\ Layout[17] = "cs" /\ Layout[18] = "rflags" /\ Layout[19] = "rsp" /\ Layout[20] = "ss"
  BY DEF Layout

GeneralNames ==
  {"r15", "r14", "r13", "r12", "r11", "r10", "r9", "r8", "rbp", "rdi", "rsi", "rdx", "rcx",
   "rbx", "rax"}

IretqNames == {"rip", "cs", "rflags", "rsp", "ss"}

LEMMA TwentyRegisters == Registers = GeneralNames \union IretqNames /\ General = GeneralNames
<1>1. \A i \in 1 .. 20 : i \in 1 .. 15 \/ i = 16 \/ i = 17 \/ i = 18 \/ i = 19 \/ i = 20
  OBVIOUS
<1>2. \A i \in 1 .. 15 : \/ i = 1 \/ i = 2 \/ i = 3 \/ i = 4 \/ i = 5 \/ i = 6 \/ i = 7 \/ i = 8
                         \/ i = 9 \/ i = 10 \/ i = 11 \/ i = 12 \/ i = 13 \/ i = 14 \/ i = 15
  OBVIOUS
<1>3. General = GeneralNames
  <2>1. \A i \in 1 .. 15 : Layout[i] \in GeneralNames
    BY <1>2, LayoutWords DEF GeneralNames
  <2>2. \A x \in GeneralNames : \E i \in 1 .. 15 : Layout[i] = x
    BY LayoutWords DEF GeneralNames
  <2>. QED  BY <2>1, <2>2 DEF General
<1>4. \A i \in 1 .. 20 : Layout[i] \in GeneralNames \union IretqNames
  <2>1. \A i \in 1 .. 15 : Layout[i] \in GeneralNames
    BY <1>3 DEF General
  <2>. QED  BY <1>1, <2>1, LayoutWords DEF IretqNames
<1>5. \A x \in GeneralNames \union IretqNames : \E i \in 1 .. 20 : Layout[i] = x
  <2>1. \A x \in GeneralNames : \E i \in 1 .. 15 : Layout[i] = x
    BY <1>3 DEF General
  <2>2. \A i \in 1 .. 15 : i \in 1 .. 20
    OBVIOUS
  <2>3. \A x \in IretqNames : \E i \in 1 .. 20 : Layout[i] = x
    BY LayoutWords DEF IretqNames
  <2>. QED  BY <2>1, <2>2, <2>3
<1>. QED  BY <1>3, <1>4, <1>5, LayoutWords DEF Registers, Range

\* The place of a register, the other way round.
Place(x) ==
  CASE x = "r15" -> 1 [] x = "r14" -> 2 [] x = "r13" -> 3 [] x = "r12" -> 4 [] x = "r11" -> 5
    [] x = "r10" -> 6 [] x = "r9" -> 7 [] x = "r8" -> 8 [] x = "rbp" -> 9 [] x = "rdi" -> 10
    [] x = "rsi" -> 11 [] x = "rdx" -> 12 [] x = "rcx" -> 13 [] x = "rbx" -> 14
    [] x = "rax" -> 15 [] x = "rip" -> 16 [] x = "cs" -> 17 [] x = "rflags" -> 18
    [] x = "rsp" -> 19 [] OTHER -> 20

LEMMA LayoutPlaces == \A i \in 1 .. 20 : Place(Layout[i]) = i
<1>1. \A i \in 1 .. 20 : \/ i = 1 \/ i = 2 \/ i = 3 \/ i = 4 \/ i = 5 \/ i = 6 \/ i = 7 \/ i = 8
                         \/ i = 9 \/ i = 10 \/ i = 11 \/ i = 12 \/ i = 13 \/ i = 14 \/ i = 15
                         \/ i = 16 \/ i = 17 \/ i = 18 \/ i = 19 \/ i = 20
  OBVIOUS
<1>2. /\ Place("r15") = 1 /\ Place("r14") = 2 /\ Place("r13") = 3 /\ Place("r12") = 4
      /\ Place("r11") = 5 /\ Place("r10") = 6 /\ Place("r9") = 7 /\ Place("r8") = 8
      /\ Place("rbp") = 9 /\ Place("rdi") = 10 /\ Place("rsi") = 11 /\ Place("rdx") = 12
      /\ Place("rcx") = 13 /\ Place("rbx") = 14 /\ Place("rax") = 15 /\ Place("rip") = 16
      /\ Place("cs") = 17 /\ Place("rflags") = 18 /\ Place("rsp") = 19 /\ Place("ss") = 20
  BY DEF Place
<1>. QED  BY <1>1, <1>2, LayoutWords

LEMMA LayoutIndex ==
  ASSUME NEW x \in Registers
  PROVE  /\ IndexIn(Layout, x) \in 1 .. 20 /\ Layout[IndexIn(Layout, x)] = x
         /\ \A i \in 1 .. 20 : Layout[i] = x => i = IndexIn(Layout, x)
<1>1. DOMAIN Layout = 1 .. 20
  BY LayoutWords
<1>2. \E i \in 1 .. 20 : Layout[i] = x
  BY <1>1 DEF Registers, Range
<1>3. IndexIn(Layout, x) \in 1 .. 20 /\ Layout[IndexIn(Layout, x)] = x
  BY <1>1, <1>2 DEF IndexIn
<1>4. Place(x) = IndexIn(Layout, x)
  BY <1>3, LayoutPlaces
<1>5. ASSUME NEW i \in 1 .. 20, Layout[i] = x PROVE i = IndexIn(Layout, x)
  BY <1>4, <1>5, LayoutPlaces
<1>. QED  BY <1>3, <1>5

FrameNames == <<"rip", "cs", "rflags", "rsp", "ss">>
FramePushes == <<"ss", "rsp", "rflags", "cs", "rip">>

\* Both ways of saving and loading a frame follow TaskContext.
LEMMA PopOrder ==
  /\ DOMAIN TickPops = 1 .. 15 /\ Len(TickPops) = 15
  /\ \A i \in 1 .. 15 : TickPops[i] = Layout[i]
  /\ DOMAIN FrameNames = 1 .. 5
  /\ \A i \in 1 .. 5 : FrameNames[i] = Layout[15 + i]
<1>1. \A i \in 1 .. 15 : \/ i = 1 \/ i = 2 \/ i = 3 \/ i = 4 \/ i = 5 \/ i = 6 \/ i = 7 \/ i = 8
                         \/ i = 9 \/ i = 10 \/ i = 11 \/ i = 12 \/ i = 13 \/ i = 14 \/ i = 15
  OBVIOUS
<1>2. \A i \in 1 .. 5 : \/ i = 1 \/ i = 2 \/ i = 3 \/ i = 4 \/ i = 5
  OBVIOUS
<1>3. /\ DOMAIN TickPops = 1 .. 15 /\ Len(TickPops) = 15
      /\ TickPops[1] = "r15" /\ TickPops[2] = "r14" /\ TickPops[3] = "r13"
      /\ TickPops[4] = "r12" /\ TickPops[5] = "r11" /\ TickPops[6] = "r10"
      /\ TickPops[7] = "r9" /\ TickPops[8] = "r8" /\ TickPops[9] = "rbp"
      /\ TickPops[10] = "rdi" /\ TickPops[11] = "rsi" /\ TickPops[12] = "rdx"
      /\ TickPops[13] = "rcx" /\ TickPops[14] = "rbx" /\ TickPops[15] = "rax"
  BY DEF TickPops
<1>4. /\ DOMAIN FrameNames = 1 .. 5
      /\ FrameNames[1] = "rip" /\ FrameNames[2] = "cs" /\ FrameNames[3] = "rflags"
      /\ FrameNames[4] = "rsp" /\ FrameNames[5] = "ss"
  BY DEF FrameNames
<1>5. \A i \in 1 .. 15 : TickPops[i] = Layout[i]
  BY <1>1, <1>3, LayoutWords
<1>6. \A i \in 1 .. 5 : FrameNames[i] = Layout[15 + i]
  BY <1>2, <1>4, LayoutWords
<1>. QED  BY <1>3, <1>4, <1>5, <1>6

Pushes == FramePushes \o TickPushes

LEMMA PushOrder ==
  DOMAIN Pushes = 1 .. 20 /\ \A i \in 1 .. 20 : Pushes[i] = Layout[21 - i]
<1>1. /\ FramePushes \in Seq(IretqNames) /\ Len(FramePushes) = 5
      /\ TickPushes \in Seq(GeneralNames) /\ Len(TickPushes) = 15
  <2>1. FramePushes \in Seq(IretqNames) /\ Len(FramePushes) = 5
    BY DEF FramePushes, IretqNames
  <2>2. TickPushes \in Seq(GeneralNames) /\ Len(TickPushes) = 15
    BY DEF TickPushes, GeneralNames
  <2>. QED  BY <2>1, <2>2
<1>2. /\ FramePushes[1] = "ss" /\ FramePushes[2] = "rsp" /\ FramePushes[3] = "rflags"
      /\ FramePushes[4] = "cs" /\ FramePushes[5] = "rip"
  BY DEF FramePushes
<1>3. /\ TickPushes[1] = "rax" /\ TickPushes[2] = "rbx" /\ TickPushes[3] = "rcx"
      /\ TickPushes[4] = "rdx" /\ TickPushes[5] = "rsi" /\ TickPushes[6] = "rdi"
      /\ TickPushes[7] = "rbp" /\ TickPushes[8] = "r8" /\ TickPushes[9] = "r9"
      /\ TickPushes[10] = "r10" /\ TickPushes[11] = "r11" /\ TickPushes[12] = "r12"
      /\ TickPushes[13] = "r13" /\ TickPushes[14] = "r14" /\ TickPushes[15] = "r15"
  BY DEF TickPushes
<1>4. /\ DOMAIN Pushes = 1 .. 20
      /\ \A i \in 1 .. 5 : Pushes[i] = FramePushes[i]
      /\ \A i \in 6 .. 20 : Pushes[i] = TickPushes[i - 5]
  <2>. DEFINE S == IretqNames \union GeneralNames
              f == FramePushes  g == TickPushes
  <2>1. f \in Seq(S) /\ g \in Seq(S) /\ Len(f) = 5 /\ Len(g) = 15
    BY <1>1
  <2>. HIDE DEF S, f, g
  <2>2. /\ f \o g \in Seq(S) /\ Len(f \o g) = Len(f) + Len(g)
        /\ \A i \in 1 .. Len(f) + Len(g) : (f \o g)[i] = IF i <= Len(f) THEN f[i] ELSE g[i - Len(f)]
    BY <2>1, ConcatProperties
  <2>. DEFINE h == f \o g
  <2>. HIDE DEF h
  <2>3. /\ DOMAIN h = 1 .. 20
        /\ \A i \in 1 .. 20 : h[i] = IF i <= 5 THEN f[i] ELSE g[i - 5]
    <3>1. /\ h \in Seq(S) /\ Len(h) = Len(f) + Len(g)
          /\ \A i \in 1 .. Len(f) + Len(g) : h[i] = IF i <= Len(f) THEN f[i] ELSE g[i - Len(f)]
      BY <2>2 DEF h
    <3>. QED  BY <2>1, <3>1
  <2>4. Pushes = h
    BY DEF Pushes, f, g, h
  <2>5. /\ \A i \in 1 .. 5 : i \in 1 .. 20 /\ i <= 5
        /\ \A i \in 6 .. 20 : i \in 1 .. 20 /\ ~(i <= 5)
    OBVIOUS
  <2>. QED  BY <2>3, <2>4, <2>5 DEF f, g
<1>5. \A i \in 1 .. 5 : \/ i = 1 \/ i = 2 \/ i = 3 \/ i = 4 \/ i = 5
  OBVIOUS
<1>6. \A i \in 6 .. 20 : \/ i = 6 \/ i = 7 \/ i = 8 \/ i = 9 \/ i = 10 \/ i = 11 \/ i = 12
                         \/ i = 13 \/ i = 14 \/ i = 15 \/ i = 16 \/ i = 17 \/ i = 18 \/ i = 19
                         \/ i = 20
  OBVIOUS
<1>7. \A i \in 1 .. 5 : Pushes[i] = Layout[21 - i]
  BY <1>2, <1>4, <1>5, LayoutWords
<1>8. \A i \in 6 .. 20 : Pushes[i] = Layout[21 - i]
  BY <1>3, <1>4, <1>6, LayoutWords
<1>. QED  BY <1>4, <1>7, <1>8

\* The pops and iretq load exactly the context at the stack pointer.
LEMMA ResumedRegisters ==
  ASSUME NEW m, NEW p \in Int, NEW r
  PROVE  Iretq(m, p + 15, PopAll(m, p, TickPops, r)) = ContextAt(m, p)
<1>. DEFINE q == PopAll(m, p, TickPops, r)  z == Iretq(m, p + 15, q)
<1>1. z = [x \in Registers |-> IF x \in Range(FrameNames)
                               THEN m[(p + 15) + IndexIn(FrameNames, x) - 1] ELSE q[x]]
  BY DEF Iretq, PopAll, FrameNames
<1>2. \A x \in Registers : q[x] = IF x \in Range(TickPops)
                                  THEN m[p + IndexIn(TickPops, x) - 1] ELSE r[x]
  BY DEF PopAll
<1>3. ContextAt(m, p) = [x \in Registers |-> m[p + IndexIn(Layout, x) - 1]]
  BY DEF ContextAt
<1>. HIDE DEF q, z
<1>4. ASSUME NEW x \in Registers
      PROVE  z[x] = m[p + IndexIn(Layout, x) - 1]
  <2>. DEFINE k == IndexIn(Layout, x)
  <2>1. k \in 1 .. 20 /\ Layout[k] = x /\ \A i \in 1 .. 20 : Layout[i] = x => i = k
    BY LayoutIndex
  <2>. HIDE DEF k
  <2>2. CASE x \in Range(FrameNames)
    <3>. DEFINE j == IndexIn(FrameNames, x)
    <3>1. \E i \in 1 .. 5 : FrameNames[i] = x
      BY <2>2, PopOrder DEF Range
    <3>2. j \in 1 .. 5 /\ FrameNames[j] = x
      BY <3>1, PopOrder DEF IndexIn
    <3>3. z[x] = m[(p + 15) + j - 1]
      BY <1>1, <2>2
    <3>. HIDE DEF j
    <3>4. 15 + j \in 1 .. 20 /\ Layout[15 + j] = x
      BY <3>2, PopOrder
    <3>5. 15 + j = k
      BY <2>1, <3>4
    <3>6. (p + 15) + j - 1 = p + k - 1
      BY <2>1, <3>2, <3>5
    <3>. QED  BY <3>3, <3>6 DEF k
  <2>3. CASE x \notin Range(FrameNames)
    <3>. DEFINE j == IndexIn(TickPops, x)
    <3>1. k \in 1 .. 15
      <4>1. ASSUME k \notin 1 .. 15 PROVE FALSE
        <5>1. k - 15 \in 1 .. 5 /\ 15 + (k - 15) = k
          BY <2>1, <4>1
        <5>2. FrameNames[k - 15] = x
          BY <2>1, <5>1, PopOrder
        <5>. QED  BY <2>3, <5>1, <5>2, PopOrder DEF Range
      <4>. QED  BY <4>1
    <3>2. TickPops[k] = x /\ k \in DOMAIN TickPops
      BY <2>1, <3>1, PopOrder
    <3>3. j \in 1 .. 15 /\ TickPops[j] = x /\ x \in Range(TickPops)
      BY <3>2, PopOrder DEF IndexIn, Range
    <3>4. z[x] = m[p + j - 1]
      BY <1>1, <1>2, <2>3, <3>3
    <3>. HIDE DEF j
    <3>5. j \in 1 .. 20 /\ Layout[j] = x
      BY <3>3, PopOrder
    <3>6. j = k
      BY <2>1, <3>5
    <3>. QED  BY <3>4, <3>6 DEF k
  <2>. QED  BY <2>2, <2>3
<1>5. z = [x \in Registers |-> z[x]]
  BY <1>1
<1>. QED  BY <1>3, <1>4, <1>5 DEF z, q

\* The CPU's frame and the pushes lay the registers out as a TaskContext.
LEMMA PushedContext ==
  ASSUME NEW m, NEW top \in Int, NEW r \in Regs, \A a \in top - 20 .. top - 1 : a \in Words
  PROVE  LET pushed == ValuesOf(r, Pushes)  m2 == PushAll(m, top, pushed)
         IN  /\ Len(pushed) = 20
             /\ ContextAt(m2, top - 20) = r
             /\ \A a \in Words : a \notin top - 20 .. top - 1 => m2[a] = m[a]
             /\ m \in [Words -> Int] => m2 \in [Words -> Int]
<1>. DEFINE pushed == ValuesOf(r, Pushes)  m2 == PushAll(m, top, pushed)
<1>1. pushed = [i \in 1 .. 20 |-> r[Layout[21 - i]]]
  BY PushOrder DEF ValuesOf
<1>2. \A i \in 1 .. 20 : 21 - i \in 1 .. 20
  OBVIOUS
<1>3. \A i \in 1 .. 20 : Layout[i] \in Registers
  BY LayoutWords DEF Registers, Range
<1>4. pushed \in [1 .. 20 -> Int]
  BY <1>1, <1>2, <1>3 DEF Regs
<1>5. Len(pushed) = 20
  BY <1>1, <1>4
<1>. HIDE DEF pushed
<1>6. m2 = [a \in Words |-> IF a \in top - 20 .. top - 1 THEN pushed[top - a] ELSE m[a]]
  BY <1>5 DEF PushAll
<1>7. ASSUME NEW x \in Registers
      PROVE  m2[(top - 20) + IndexIn(Layout, x) - 1] = r[x]
  <2>. DEFINE k == IndexIn(Layout, x)
  <2>1. k \in 1 .. 20 /\ Layout[k] = x
    BY LayoutIndex
  <2>. HIDE DEF k
  <2>. DEFINE a == (top - 20) + k - 1
  <2>2. a \in top - 20 .. top - 1 /\ top - a = 21 - k /\ 21 - k \in 1 .. 20 /\ 21 - (21 - k) = k
    BY <2>1
  <2>3. m2[a] = pushed[21 - k]
    BY <1>6, <2>2
  <2>4. pushed[21 - k] = r[Layout[k]]
    BY <1>1, <2>2
  <2>. QED  BY <2>1, <2>3, <2>4 DEF k
<1>. HIDE DEF m2
<1>8. ContextAt(m2, top - 20) = r
  <2>1. ContextAt(m2, top - 20) = [x \in Registers |-> m2[(top - 20) + IndexIn(Layout, x) - 1]]
    BY DEF ContextAt
  <2>2. r = [x \in Registers |-> r[x]]
    BY DEF Regs
  <2>. QED  BY <1>7, <2>1, <2>2
<1>9. ASSUME m \in [Words -> Int] PROVE m2 \in [Words -> Int]
  <2>1. \A a \in Words : a \in top - 20 .. top - 1 => top - a \in 1 .. 20
    BY DEF Words
  <2>. QED  BY <1>4, <1>6, <1>9, <2>1
<1>. QED  BY <1>5, <1>6, <1>8, <1>9 DEF pushed, m2

LEMMA StoredContext ==
  ASSUME NEW m \in [Words -> Int], NEW p \in Int, NEW c \in Regs, \A a \in p .. p + 19 : a \in Words
  PROVE  /\ ContextAt(StoreContext(m, p, c), p) = c
         /\ StoreContext(m, p, c) \in [Words -> Int]
         /\ \A a \in Words : a \notin p .. p + 19 => StoreContext(m, p, c)[a] = m[a]
<1>. DEFINE m2 == StoreContext(m, p, c)
<1>1. m2 = [a \in Words |-> IF a \in p .. p + 19 THEN c[Layout[a - p + 1]] ELSE m[a]]
  BY DEF StoreContext
<1>2. \A a \in Words : a \in p .. p + 19 => a - p + 1 \in 1 .. 20
  BY DEF Words
<1>3. \A i \in 1 .. 20 : Layout[i] \in Registers
  BY LayoutWords DEF Registers, Range
<1>4. m2 \in [Words -> Int]
  BY <1>1, <1>2, <1>3 DEF Regs
<1>5. ASSUME NEW x \in Registers
      PROVE  m2[p + IndexIn(Layout, x) - 1] = c[x]
  <2>. DEFINE k == IndexIn(Layout, x)  a == p + k - 1
  <2>1. k \in 1 .. 20 /\ Layout[k] = x
    BY LayoutIndex
  <2>. HIDE DEF k
  <2>2. a \in p .. p + 19 /\ a - p + 1 = k
    BY <2>1
  <2>. QED  BY <1>1, <2>1, <2>2 DEF k
<1>6. \A a \in Words : a \notin p .. p + 19 => m2[a] = m[a]
  BY <1>1
<1>. HIDE DEF m2
<1>7. ContextAt(m2, p) = c
  <2>1. ContextAt(m2, p) = [x \in Registers |-> m2[p + IndexIn(Layout, x) - 1]]
    BY DEF ContextAt
  <2>2. c = [x \in Registers |-> c[x]]
    BY DEF Regs
  <2>. QED  BY <1>5, <2>1, <2>2
<1>. QED  BY <1>4, <1>6, <1>7 DEF m2
-----------------------------------------------------------------------------
(***************************************************************************)
(* Segments and types.                                                     *)
(***************************************************************************)
LEMMA Selectors ==
  /\ Selector("code") = 8 /\ Selector("data") = 16
  /\ Ring3(Selector("user_data")) = 27 /\ Ring3(Selector("user_code")) = 35
  /\ syscall_cs = 8
  /\ Ring3(sysret_base + 16) = 35 /\ Ring3(sysret_base + 8) = 27
<1>1. /\ DOMAIN GDT = 1 .. 5 /\ GDT[1] = "code" /\ GDT[2] = "data" /\ GDT[3] = "user_data"
      /\ GDT[4] = "user_code" /\ GDT[5] = "tss"
  BY DEF GDT
<1>2. \A i \in 1 .. 5 : i = 1 \/ i = 2 \/ i = 3 \/ i = 4 \/ i = 5
  OBVIOUS
<1>3. IndexIn(GDT, "code") = 1
  BY <1>1, <1>2 DEF IndexIn
<1>4. IndexIn(GDT, "data") = 2
  BY <1>1, <1>2 DEF IndexIn
<1>5. IndexIn(GDT, "user_data") = 3
  BY <1>1, <1>2 DEF IndexIn
<1>6. IndexIn(GDT, "user_code") = 4
  BY <1>1, <1>2 DEF IndexIn
<1>7. /\ Selector("code") = 8 /\ Selector("data") = 16
      /\ Selector("user_data") = 27 /\ Selector("user_code") = 35
  BY <1>3, <1>4, <1>5, <1>6 DEF Selector
<1>. QED  BY <1>7 DEF Ring3, Cleared, syscall_cs, sysret_base

LEMMA Names ==
  /\ "r15" \in Registers /\ "r14" \in Registers /\ "r13" \in Registers /\ "r12" \in Registers
  /\ "r11" \in Registers /\ "r10" \in Registers /\ "r9" \in Registers /\ "r8" \in Registers
  /\ "rbp" \in Registers /\ "rdi" \in Registers /\ "rsi" \in Registers /\ "rdx" \in Registers
  /\ "rcx" \in Registers /\ "rbx" \in Registers /\ "rax" \in Registers /\ "rip" \in Registers
  /\ "cs" \in Registers /\ "rflags" \in Registers /\ "rsp" \in Registers /\ "ss" \in Registers
  BY TwentyRegisters DEF GeneralNames, IretqNames

LEMMA TaskTypes ==
  ASSUME RInv
  PROVE  /\ current \in Tasks /\ current \in Int /\ len \in Int /\ N \in Int /\ Boot \notin Tasks
         /\ Thread \in Tasks \union {Boot} /\ Running \in Regs /\ \A t \in Tasks : t \in Int
<1>1. TypeOK
  BY DEF RInv
<1>2. N \in Nat /\ len \in 1 .. N /\ current \in 0 .. len - 1
  BY <1>1, RegistersAssumption DEF TypeOK
<1>3. current \in Tasks /\ Boot \notin Tasks /\ \A t \in Tasks : t \in Int
  BY <1>2 DEF Tasks, Boot
<1>4. Thread \in Tasks \union {Boot}
  BY <1>3 DEF Thread
<1>. QED  BY <1>1, <1>2, <1>3, <1>4 DEF Running, TypeOK

\* A task state that is not user mode is inside a syscall.
LEMMA ModeOf ==
  ASSUME NEW t, NEW r, NEW m, NEW e, NEW a, TaskState(t, r, m, e, a)
  PROVE  /\ UserMode(r) => UserState(t, r) /\ r = e
         /\ ~UserMode(r) => SyscallState(t, r, m, e, a)
         /\ InterruptsOn(r) /\ r["rflags"] \in 512 .. 516
<1>1. CASE UserState(t, r) /\ r = e
  <2>1. UserMode(r)
    BY <1>1 DEF UserState, UserMode
  <2>2. r["rflags"] \in 512 .. 516
    BY <1>1 DEF UserState
  <2>. QED  BY <1>1, <2>1, <2>2 DEF InterruptsOn, IntFlag
<1>2. CASE SyscallState(t, r, m, e, a)
  <2>1. ~UserMode(r)
    BY <1>2 DEF SyscallState, KernelState, UserMode
  <2>2. r["rflags"] \in 512 .. 516
    BY <1>2 DEF SyscallState, KernelState
  <2>. QED  BY <1>2, <2>1, <2>2 DEF InterruptsOn, IntFlag
<1>. QED  BY <1>1, <1>2 DEF TaskState

LEMMA SyscallStack ==
  ASSUME NEW t, NEW r, NEW m, NEW e, NEW a, SyscallState(t, r, m, e, a)
  PROVE  r["rsp"] \in {117, 119, 120} /\ t \in Callers /\ r["rip"] \in 10 .. 21 /\ ~UserMode(r)
<1>1. t \in Callers /\ ~UserMode(r)
  BY DEF SyscallState, KernelState, UserMode
<1>2. r["rsp"] \in {117, 119, 120} /\ r["rip"] \in 10 .. 21
  BY DEF SyscallState, AtLoads, AtEntry, InEntry, AtReturn, AtStored
<1>. QED  BY <1>1, <1>2

\* A task needs only the words at and above its stack pointer.
LEMMA TaskKept ==
  ASSUME NEW t, NEW r, NEW m, NEW e, NEW a, NEW m2, TaskState(t, r, m, e, a),
         ~UserMode(r) => \A b \in 117 .. 129 : r["rsp"] <= b => m2[b] = m[b]
  PROVE  TaskState(t, r, m2, e, a)
<1>1. CASE UserMode(r)
  BY <1>1, ModeOf DEF TaskState
<1>2. CASE ~UserMode(r)
  <2>1. SyscallState(t, r, m, e, a)
    BY <1>2, ModeOf
  <2>2. r["rsp"] \in {117, 119, 120}
    BY <2>1, SyscallStack
  <2>3. \A b \in 120 .. 129 : m2[b] = m[b]
    BY <1>2, <2>2
  <2>4. \A x : Saved(m, e, x) => Saved(m2, e, x)
    BY <2>3 DEF Saved
  <2>5. AtLoads(r, m, e, a) => AtLoads(r, m2, e, a)
    BY <2>4 DEF AtLoads
  <2>6. AtEntry(r, m, e, a) => AtEntry(r, m2, e, a)
    <3>1. r["rsp"] = 119 => m2[119] = m[119]
      BY <1>2
    <3>. QED  BY <2>4, <3>1 DEF AtEntry
  <2>7. InEntry(r, m, e, a) => InEntry(r, m2, e, a)
    <3>1. r["rsp"] = 117 => m2[117] = m[117] /\ m2[118] = m[118] /\ m2[119] = m[119]
      BY <1>2
    <3>. QED  BY <2>4, <3>1 DEF InEntry
  <2>8. AtReturn(r, m, e, a) => AtReturn(r, m2, e, a)
    BY <2>4 DEF AtReturn
  <2>9. AtStored(r, m, e) => AtStored(r, m2, e)
    BY <2>4 DEF AtStored
  <2>. QED  BY <2>1, <2>5, <2>6, <2>7, <2>8, <2>9 DEF SyscallState, TaskState
<1>. QED  BY <1>1, <1>2
-----------------------------------------------------------------------------
(***************************************************************************)
(* Ticks.                                                                  *)
(***************************************************************************)
\* The frame of a tick lies on a stack, aligned.
LEMMA FrameSpot ==
  ASSUME RInv
  PROVE  LET p == FrameOf(Running)
         IN  /\ p \in {18, 60, 96, 98, 100} /\ \A a \in p .. p + 19 : a \in Words
             /\ p = Aligned(IF UserMode(Running) THEN Rsp0 ELSE Running["rsp"]) - 20
<1>. DEFINE r == Running  p == FrameOf(r)
<1>1. r["rsp"] \in {39, 117, 119, 120} \/ UserMode(r)
  <2>1. CASE ~entered
    BY <2>1 DEF RInv, BootOK, BootState
  <2>2. CASE entered
    <3>1. TaskState(current, r, mem, expect[current], asked[current])
      BY <2>2, TaskTypes DEF RInv, TasksOK, StateOf
    <3>. QED  BY <3>1, ModeOf, SyscallStack
  <2>. QED  BY <2>1, <2>2
<1>. HIDE DEF r
<1>2. p \in {18, 60, 96, 98, 100} /\ p = Aligned(IF UserMode(r) THEN Rsp0 ELSE r["rsp"]) - 20
  <2>1. CASE UserMode(r)
    BY <2>1 DEF FrameOf, Aligned, Rsp0
  <2>2. CASE ~UserMode(r)
    BY <1>1, <2>2 DEF FrameOf, Aligned
  <2>. QED  BY <2>1, <2>2
<1>. HIDE DEF p
<1>3. \A a \in p .. p + 19 : a \in Words
  BY <1>2 DEF Words
<1>. QED  BY <1>2, <1>3 DEF p, r

\* It lies below everything a suspended syscall needs.
LEMMA FrameWrites ==
  ASSUME RInv, OneCaller, NEW m2,
         \A a \in Words : a \notin FrameOf(Running) .. FrameOf(Running) + 19 => m2[a] = mem[a]
  PROVE  \A t \in Tasks : TaskState(t, StateOf(t), m2, expect[t], asked[t])
<1>. DEFINE p == FrameOf(Running)
<1>0. p \in {18, 60, 96, 98, 100}
  BY FrameSpot
<1>1. ASSUME NEW t \in Tasks, ~UserMode(StateOf(t)), NEW b \in 117 .. 129,
             StateOf(t)["rsp"] <= b
      PROVE  m2[b] = mem[b]
  <2>. DEFINE r == StateOf(t)
  <2>1. SyscallState(t, r, mem, expect[t], asked[t])
    <3>1. TaskState(t, r, mem, expect[t], asked[t])
      BY DEF RInv, TasksOK
    <3>. HIDE DEF r
    <3>. QED  BY <1>1, <3>1, ModeOf DEF r
  <2>2. r["rsp"] \in {117, 119, 120} /\ t \in Callers
    <3>. HIDE DEF r
    <3>. QED  BY <2>1, SyscallStack
  <2>3. p + 19 < r["rsp"]
    <3>1. CASE UserMode(Running)
      BY <2>2, <3>1 DEF FrameOf
    <3>2. CASE ~entered
      <4>1. Running["rsp"] = 39 /\ Running["cs"] = 8
        BY <3>2 DEF RInv, BootOK, BootState
      <4>2. p = 18
        BY <4>1 DEF FrameOf, UserMode, Aligned
      <4>. QED  BY <2>2, <4>2
    <3>3. CASE entered /\ ~UserMode(Running)
      <4>1. StateOf(current) = Running /\ current \in Tasks
        BY <3>3, TaskTypes DEF StateOf
      <4>2. TaskState(current, Running, mem, expect[current], asked[current])
        BY <4>1 DEF RInv, TasksOK
      <4>3. current \in Callers
        BY <3>3, <4>2, ModeOf, SyscallStack
      <4>4. r = Running
        BY <2>2, <4>1, <4>3 DEF OneCaller
      <4>5. p = Aligned(r["rsp"]) - 20
        BY <3>3, <4>4 DEF FrameOf
      <4>. HIDE DEF p, r
      <4>. QED  BY <2>2, <4>5 DEF Aligned
    <3>. QED  BY <3>1, <3>2, <3>3
  <2>. HIDE DEF p, r
  <2>4. b \notin p .. p + 19 /\ b \in Words
    <3>1. r["rsp"] <= b
      BY <1>1 DEF r
    <3>. QED  BY <1>0, <2>2, <2>3, <3>1 DEF Words
  <2>. QED  BY <2>4 DEF p
<1>2. ASSUME NEW t \in Tasks PROVE TaskState(t, StateOf(t), m2, expect[t], asked[t])
  <2>1. TaskState(t, StateOf(t), mem, expect[t], asked[t])
    BY DEF RInv, TasksOK
  <2>2. ~UserMode(StateOf(t)) => \A b \in 117 .. 129 : StateOf(t)["rsp"] <= b => m2[b] = mem[b]
    BY <1>1
  <2>. QED  BY <2>1, <2>2, TaskKept
<1>. QED  BY <1>2

\* What Resume(m) does.
LEMMA Resumed ==
  ASSUME RInv, isr, NEW m \in [Words -> Int], Resume(m)
  PROVE  /\ reg' = ContextAt(m, FrameOf(Running))
         /\ mem' \in [Words -> Int] /\ isr' = FALSE
         /\ \A a \in Words : a \notin FrameOf(Running) .. FrameOf(Running) + 19 => mem'[a] = m[a]
         /\ UNCHANGED <<user_rsp_temp, len, initialized, entered, asked, expect, cut>>
<1>. DEFINE p == FrameOf(Running)
<1>1. reg["rsp"] = p /\ p \in Int
  BY FrameSpot DEF RInv, FrameOK
<1>2. reg' = Iretq(m, p + 15, PopAll(m, p, TickPops, reg))
  BY <1>1, PopOrder DEF Resume
<1>. HIDE DEF p
<1>3. reg' = ContextAt(m, p)
  BY <1>1, <1>2, ResumedRegisters
<1>4. mem' = [a \in Words |-> IF a \in p .. p + 20 - 1 THEN 0 ELSE m[a]]
  BY <1>1 DEF Resume, Dropped
<1>5. \A a \in Words : a \notin p .. p + 19 => mem'[a] = m[a]
  BY <1>1, <1>4
<1>6. mem' \in [Words -> Int]
  BY <1>4
<1>. QED  BY <1>3, <1>5, <1>6 DEF Resume, p

LEMMA TimerInterruptStep ==
  ASSUME RInv, OneCaller, Quiet, TimerInterrupt
  PROVE  RInv'
<1>. DEFINE p == FrameOf(reg)  top == IF UserMode(reg) THEN Rsp0 ELSE reg["rsp"]
<1>1. TypeOK /\ ~isr /\ isr' = TRUE /\ cut' = [cut EXCEPT ![Thread] = reg]
      /\ UNCHANGED <<user_rsp_temp, sched_vars, entered, asked, expect>>
  BY DEF RInv, TimerInterrupt
<1>2. Running = reg /\ reg \in Regs
  BY <1>1 DEF Running, TypeOK
<1>3. p \in {18, 60, 96, 98, 100} /\ (\A a \in p .. p + 19 : a \in Words) /\ p = Aligned(top) - 20
  BY <1>2, FrameSpot
<1>4. Aligned(top) \in Int /\ Aligned(top) = p + 20
  <2>1. top \in Int
    BY <1>2, Names DEF Rsp0, Regs
  <2>. HIDE DEF top, p
  <2>2. Aligned(top) \in Int
    BY <2>1 DEF Aligned
  <2>. QED  BY <1>3, <2>2
<1>5. /\ mem' = PushAll(mem, p + 20, ValuesOf(reg, Pushes))
      /\ reg' = [reg EXCEPT !["rsp"] = p, !["rdi"] = p, !["rip"] = TickRip,
                            !["rflags"] = @ - IntFlag, !["cs"] = Selector("code"),
                            !["ss"] = IF UserMode(reg) THEN 0 ELSE @]
  <2>. DEFINE v == ValuesOf(reg, Pushes)
  <2>1. mem' = PushAll(mem, Aligned(top), v)
    BY DEF TimerInterrupt, Pushes, FramePushes
  <2>2. Len(v) = 20
    <3>1. p + 20 \in Int /\ \A a \in (p + 20) - 20 .. (p + 20) - 1 : a \in Words
      BY <1>3
    <3>. HIDE DEF p
    <3>. QED  BY <1>2, <3>1, PushedContext
  <2>3. Aligned(top) - Len(v) = p
    BY <1>3, <2>2
  <2>4. reg' = [reg EXCEPT !["rsp"] = Aligned(top) - Len(v), !["rdi"] = Aligned(top) - Len(v),
                           !["rip"] = TickRip, !["rflags"] = @ - IntFlag,
                           !["cs"] = Selector("code"), !["ss"] = IF UserMode(reg) THEN 0 ELSE @]
    BY DEF TimerInterrupt, Pushes, FramePushes
  <2>. QED  BY <1>4, <2>1, <2>3, <2>4
<1>. HIDE DEF p, top
<1>6. /\ ContextAt(mem', p) = reg
      /\ \A a \in Words : a \notin p .. p + 19 => mem'[a] = mem[a]
      /\ mem' \in [Words -> Int]
  <2>. DEFINE z == p + 20
  <2>1. z \in Int /\ z - 20 = p /\ z - 1 = p + 19 /\ \A a \in z - 20 .. z - 1 : a \in Words
    BY <1>3
  <2>2. mem' = PushAll(mem, z, ValuesOf(reg, Pushes)) /\ mem \in [Words -> Int]
    BY <1>1, <1>5 DEF TypeOK
  <2>. HIDE DEF z
  <2>3. /\ ContextAt(mem', z - 20) = reg
        /\ \A a \in Words : a \notin z - 20 .. z - 1 => mem'[a] = mem[a]
        /\ mem' \in [Words -> Int]
    BY <1>2, <2>1, <2>2, PushedContext
  <2>. QED  BY <2>1, <2>3
<1>7. reg' \in Regs /\ reg'["rdi"] = p /\ reg'["rsp"] = p
  <2>1. p \in Int /\ TickRip \in Int /\ Selector("code") \in Int /\ reg["rflags"] - IntFlag \in Int
    BY <1>2, <1>3, Selectors, Names DEF TickRip, IntFlag, Regs
  <2>. QED  BY <1>2, <1>5, <2>1, Names DEF Regs
<1>8. Thread' = Thread /\ Thread \in Tasks \union {Boot}
  BY <1>1, TaskTypes DEF Thread, sched_vars
<1>9. cut' \in [Tasks \union {Boot} -> Regs] /\ cut'[Thread] = reg
      /\ \A t \in Tasks : t # Thread => cut'[t] = cut[t]
  BY <1>1, <1>2, <1>8 DEF TypeOK
<1>10. Running' = reg
  BY <1>1, <1>8, <1>9 DEF Running
<1>11. TypeOK'
  BY <1>1, <1>6, <1>7, <1>9 DEF TypeOK, sched_vars
<1>12. TasksOK'
  <2>1. \A t \in Tasks : TaskState(t, StateOf(t), mem', expect[t], asked[t])
    BY <1>2, <1>6, FrameWrites DEF p
  <2>2. \A t \in Tasks : StateOf(t)' = StateOf(t)
    BY <1>1, <1>2, <1>10 DEF StateOf, sched_vars
  <2>. QED  BY <1>1, <2>1, <2>2 DEF TasksOK
<1>13. CutOK'
  <2>1. \A t \in Tasks : ~(entered /\ t = current) => t # Thread
    BY TaskTypes DEF Thread
  <2>. QED  BY <1>1, <1>9, <2>1 DEF CutOK, RInv, sched_vars
<1>14. BootOK'
  BY <1>1, <1>2, <1>10 DEF RInv, BootOK, sched_vars
<1>15. FrameOK'
  <2>1. ~entered => ~(initialized /\ len >= 2)
    <3>1. ASSUME ~entered, initialized, len >= 2 PROVE FALSE
      <4>1. reg["rip"] = 2
        BY <1>2, <3>1 DEF RInv, BootOK
      <4>2. N # 1
        BY <1>1, <3>1, RegistersAssumption DEF TypeOK
      <4>3. QuietStart /\ len > 1
        BY <1>1, <3>1, <4>2, TaskTypes DEF Quiet
      <4>. QED  BY <4>1, <4>3 DEF TimerInterrupt, BootRip
    <3>. QED  BY <3>1
  <2>. QED  BY <1>1, <1>6, <1>7, <1>10, <2>1 DEF FrameOK, p, sched_vars
<1>. QED  BY <1>11, <1>12, <1>13, <1>14, <1>15 DEF RInv

LEMMA NoSwitchStep ==
  ASSUME RInv, OneCaller, NoSwitch
  PROVE  RInv' /\ reg' = cut[Thread']
<1>1. TypeOK /\ isr /\ mem \in [Words -> Int] /\ Resume(mem) /\ UNCHANGED <<contexts, current>>
  BY DEF RInv, NoSwitch, TypeOK
<1>2. /\ reg' = ContextAt(mem, FrameOf(Running))
      /\ mem' \in [Words -> Int] /\ isr' = FALSE
      /\ \A a \in Words : a \notin FrameOf(Running) .. FrameOf(Running) + 19 => mem'[a] = mem[a]
      /\ UNCHANGED <<user_rsp_temp, len, initialized, entered, asked, expect, cut>>
  BY <1>1, Resumed
<1>3. reg' = Running /\ Running = cut[Thread] /\ Running \in Regs
  BY <1>1, <1>2, TaskTypes DEF RInv, FrameOK, Running
<1>4. Thread' = Thread /\ Running' = Running
  BY <1>1, <1>2, <1>3 DEF Thread, Running
<1>5. TypeOK'
  BY <1>1, <1>2, <1>3 DEF TypeOK
<1>6. TasksOK'
  <2>1. \A t \in Tasks : TaskState(t, StateOf(t), mem', expect[t], asked[t])
    BY <1>2, FrameWrites
  <2>2. \A t \in Tasks : StateOf(t)' = StateOf(t)
    BY <1>1, <1>2, <1>4 DEF StateOf
  <2>. QED  BY <1>2, <2>1, <2>2 DEF TasksOK
<1>7. CutOK'
  BY <1>1, <1>2 DEF RInv, CutOK
<1>8. BootOK'
  BY <1>1, <1>2, <1>4 DEF RInv, BootOK
<1>9. FrameOK'
  BY <1>2 DEF FrameOK
<1>. QED  BY <1>3, <1>4, <1>5, <1>6, <1>7, <1>8, <1>9 DEF RInv

LEMMA SwitchStep ==
  ASSUME RInv, OneCaller, Switch
  PROVE  RInv' /\ reg' = cut[Thread']
<1>. DEFINE next == (current + 1) % len  p == FrameOf(Running)
            m == StoreContext(mem, p, contexts[next])
<1>1. TypeOK /\ isr /\ initialized /\ len >= 2 /\ mem \in [Words -> Int]
  BY DEF RInv, Switch, TypeOK
<1>2. entered
  BY <1>1 DEF RInv, FrameOK
<1>3. reg["rdi"] = p /\ ContextAt(mem, p) = Running /\ Running = cut[current]
  BY <1>1, <1>2 DEF RInv, FrameOK, Running, Thread
<1>4. next \in 0 .. len - 1 /\ next # current /\ next \in Tasks
  <2>1. len \in 1 .. N /\ current \in 0 .. len - 1 /\ N \in Nat
    BY <1>1, RegistersAssumption DEF TypeOK
  <2>2. next \in 0 .. len - 1
    BY <2>1
  <2>3. next # current
    <3>1. CASE current = len - 1
      BY <1>1, <2>1, <3>1
    <3>2. CASE current # len - 1
      <4>1. current + 1 \in 0 .. len - 1
        BY <2>1, <3>2
      <4>2. next = current + 1
        BY <2>1, <4>1
      <4>. QED  BY <2>1, <4>2
    <3>. QED  BY <3>1, <3>2
  <2>4. next \in Tasks
    BY <2>1, <2>2 DEF Tasks
  <2>. QED  BY <2>2, <2>3, <2>4
<1>5. /\ current' = next /\ contexts' = [contexts EXCEPT ![current] = Running] /\ Resume(m)
  BY <1>3 DEF Switch
<1>. HIDE DEF next
<1>6. contexts[next] \in Regs /\ contexts \in [Tasks -> Regs]
  BY <1>1, <1>4 DEF TypeOK
<1>7. p \in Int /\ \A a \in p .. p + 19 : a \in Words
  BY FrameSpot
<1>. HIDE DEF p
<1>8. /\ ContextAt(m, p) = contexts[next] /\ m \in [Words -> Int]
      /\ \A a \in Words : a \notin p .. p + 19 => m[a] = mem[a]
  <2>. DEFINE c == contexts[next]
  <2>1. c \in Regs
    BY <1>6
  <2>. HIDE DEF c
  <2>2. /\ ContextAt(StoreContext(mem, p, c), p) = c
        /\ StoreContext(mem, p, c) \in [Words -> Int]
        /\ \A a \in Words : a \notin p .. p + 19 => StoreContext(mem, p, c)[a] = mem[a]
    BY <1>1, <1>7, <2>1, StoredContext
  <2>. QED  BY <2>2 DEF c
<1>. HIDE DEF m
<1>9. /\ reg' = ContextAt(m, p)
      /\ mem' \in [Words -> Int] /\ isr' = FALSE
      /\ \A a \in Words : a \notin p .. p + 19 => mem'[a] = m[a]
      /\ UNCHANGED <<user_rsp_temp, len, initialized, entered, asked, expect, cut>>
  BY <1>1, <1>5, <1>8, Resumed DEF p
<1>10. reg' = contexts[next] /\ Running' = contexts[next]
  BY <1>8, <1>9 DEF Running
<1>11. cut[next] = contexts[next] /\ Thread' = next
  BY <1>2, <1>4, <1>5, <1>9 DEF RInv, CutOK, Thread
<1>12. TypeOK'
  BY <1>1, <1>4, <1>5, <1>6, <1>9, <1>10, TaskTypes DEF TypeOK
<1>13. current \in Tasks /\ contexts'[current] = Running
       /\ \A t \in Tasks : t # current => contexts'[t] = contexts[t]
  BY <1>5, <1>6, TaskTypes
<1>14. TasksOK'
  <2>1. \A a \in Words : a \notin p .. p + 19 => mem'[a] = mem[a]
    BY <1>8, <1>9
  <2>2. \A t \in Tasks : TaskState(t, StateOf(t), mem', expect[t], asked[t])
    BY <2>1, FrameWrites DEF p
  <2>3. \A t \in Tasks : StateOf(t)' = StateOf(t)
    BY <1>2, <1>4, <1>5, <1>9, <1>10, <1>13 DEF StateOf
  <2>. QED  BY <1>9, <2>2, <2>3 DEF TasksOK
<1>15. CutOK'
  BY <1>2, <1>3, <1>5, <1>9, <1>13 DEF RInv, CutOK
<1>16. BootOK'
  BY <1>1, <1>2, <1>9 DEF BootOK
<1>17. FrameOK'
  BY <1>9 DEF FrameOK
<1>. QED  BY <1>9, <1>10, <1>11, <1>12, <1>14, <1>15, <1>16, <1>17 DEF RInv
-----------------------------------------------------------------------------
(***************************************************************************)
(* Steps of the running thread.                                            *)
(***************************************************************************)
\* Which thread runs can be told from rip.
LEMMA WhoRuns ==
  ASSUME RInv, ~isr
  PROVE  /\ reg \in Regs /\ mem \in [Words -> Int] /\ current \in Tasks
         /\ expect[current] \in Regs /\ asked[current] \in Regs
         /\ ~entered => BootState(reg) /\ current = 0 /\ UserMode(contexts[0])
         /\ entered => TaskState(current, reg, mem, expect[current], asked[current])
         /\ reg["rip"] \in 1 .. 2 => ~entered
         /\ reg["rip"] \in 10 .. 21 =>
              entered /\ SyscallState(current, reg, mem, expect[current], asked[current])
         /\ UserMode(reg) \/ reg["rip"] >= 100 =>
              entered /\ UserState(current, reg) /\ reg = expect[current]
<1>. DEFINE e == expect[current]  a == asked[current]
<1>1. /\ reg \in Regs /\ mem \in [Words -> Int] /\ current \in Tasks /\ current \in Int /\ current >= 0
      /\ e \in Regs /\ a \in Regs
  BY TaskTypes DEF RInv, TypeOK, Tasks
<1>2. Running = reg
  BY DEF Running
<1>3. ~entered => BootState(reg) /\ current = 0 /\ UserMode(contexts[0])
  BY <1>2 DEF RInv, BootOK
<1>4. entered => TaskState(current, reg, mem, e, a)
  BY <1>1, <1>2 DEF RInv, TasksOK, StateOf
<1>. HIDE DEF e, a
<1>5. ~entered => reg["rip"] \in 1 .. 2 /\ ~UserMode(reg)
  BY <1>3 DEF BootState, UserMode
<1>6. ASSUME entered, UserMode(reg)
      PROVE  UserState(current, reg) /\ reg = e /\ reg["rip"] \in Int /\ reg["rip"] >= 100
  <2>1. UserState(current, reg) /\ reg = e
    BY <1>4, <1>6, ModeOf
  <2>2. reg["rip"] \in 100 + 10 * current .. 100 + 10 * current + 9
    BY <2>1 DEF UserState, UserRip
  <2>. QED  BY <1>1, <2>1, <2>2
<1>7. ASSUME entered, ~UserMode(reg)
      PROVE  SyscallState(current, reg, mem, e, a) /\ reg["rip"] \in 10 .. 21
  BY <1>4, <1>7, ModeOf, SyscallStack
<1>8. reg["rip"] \in 1 .. 2 => ~entered
  BY <1>6, <1>7
<1>9. reg["rip"] \in 10 .. 21 => entered /\ SyscallState(current, reg, mem, e, a)
  BY <1>5, <1>6, <1>7
<1>10. UserMode(reg) \/ reg["rip"] >= 100 => entered /\ UserState(current, reg) /\ reg = e
  BY <1>5, <1>6, <1>7
<1>. QED  BY <1>1, <1>3, <1>4, <1>8, <1>9, <1>10 DEF e, a

\* A step of the current task that leaves the scheduler alone.
LEMMA CurrentStep ==
  ASSUME RInv, OneCaller, entered, ~isr, UNCHANGED <<isr, sched_vars, entered, cut>>,
         reg' \in Regs, mem' \in [Words -> Int], user_rsp_temp' \in Int,
         expect' \in [Tasks -> Regs], asked' \in [Tasks -> Regs],
         \A t \in Tasks : t # current => expect'[t] = expect[t] /\ asked'[t] = asked[t],
         current \in Callers \/ mem' = mem,
         TaskState(current, reg', mem', expect'[current], asked'[current])
  PROVE  RInv'
<1>1. TypeOK'
  BY DEF RInv, TypeOK, sched_vars
<1>2. TasksOK'
  <2>1. ASSUME NEW t \in Tasks
        PROVE  TaskState(t, StateOf(t)', mem', expect'[t], asked'[t])
    <3>1. CASE t = current
      <4>1. StateOf(t)' = reg'
        BY <3>1 DEF StateOf, Running, sched_vars
      <4>. QED  BY <3>1, <4>1
    <3>2. CASE t # current
      <4>1. StateOf(t)' = contexts[t] /\ StateOf(t) = contexts[t]
        BY <3>2 DEF StateOf, sched_vars
      <4>2. TaskState(t, contexts[t], mem, expect[t], asked[t])
        BY <4>1 DEF RInv, TasksOK
      <4>3. TaskState(t, contexts[t], mem', expect[t], asked[t])
        <5>1. CASE mem' = mem
          BY <4>2, <5>1
        <5>2. CASE current \in Callers
          <6>1. t \notin Callers
            BY <3>2, <5>2 DEF OneCaller
          <6>2. UserState(t, contexts[t]) /\ contexts[t] = expect[t]
            BY <4>2, <6>1 DEF TaskState, SyscallState
          <6>. QED  BY <6>2 DEF TaskState
        <5>. QED  BY <5>1, <5>2
      <4>. QED  BY <3>2, <4>1, <4>3
    <3>. QED  BY <3>1, <3>2
  <2>. QED  BY <2>1 DEF TasksOK
<1>3. CutOK'
  BY DEF RInv, CutOK, sched_vars
<1>4. BootOK'
  BY DEF RInv, BootOK, sched_vars
<1>5. FrameOK'
  BY DEF FrameOK
<1>. QED  BY <1>1, <1>2, <1>3, <1>4, <1>5 DEF RInv

LEMMA StartStep ==
  ASSUME RInv, Start
  PROVE  RInv'
<1>1. ~isr /\ reg["rip"] = 1 /\ initialized' = TRUE /\ reg' = [reg EXCEPT !["rip"] = 2]
      /\ UNCHANGED <<mem, isr, user_rsp_temp, contexts, len, current, entered, asked, expect, cut>>
  BY DEF Start, At, BootRip
<1>2. ~entered /\ BootState(reg) /\ reg \in Regs /\ current = 0 /\ UserMode(contexts[0])
  BY <1>1, WhoRuns
<1>3. reg' \in Regs /\ BootState(reg') /\ reg'["rip"] = 2
  BY <1>1, <1>2, Names DEF Regs, BootState
<1>4. TypeOK'
  BY <1>1, <1>3 DEF RInv, TypeOK
<1>5. TasksOK'
  <2>1. \A t \in Tasks : StateOf(t)' = StateOf(t)
    BY <1>1, <1>2 DEF StateOf
  <2>. QED  BY <1>1, <2>1 DEF RInv, TasksOK
<1>6. CutOK'
  BY <1>1 DEF RInv, CutOK
<1>7. BootOK'
  BY <1>1, <1>2, <1>3 DEF BootOK, Running
<1>8. FrameOK'
  BY <1>1 DEF FrameOK
<1>. QED  BY <1>4, <1>5, <1>6, <1>7, <1>8 DEF RInv

LEMMA FirstStep ==
  ASSUME RInv, switch_to_first_task
  PROVE  RInv'
<1>. DEFINE c == contexts[current]
            frame == <<c["ss"], c["rsp"], c["rflags"], c["cs"], c["rip"]>>
            m == PushAll(mem, 39, frame)
<1>0. ~isr /\ reg["rip"] = 2
  BY DEF switch_to_first_task, At, BootRip
<1>1. /\ ~entered /\ BootState(reg) /\ reg \in Regs /\ current = 0 /\ UserMode(contexts[0])
      /\ current \in Tasks /\ c \in Regs /\ initialized
  BY <1>0, WhoRuns DEF RInv, BootOK, Running, TypeOK
<1>2. reg["rsp"] = 39
  BY <1>1 DEF BootState
<1>3. /\ reg' = Iretq(m, 39 - Len(frame), reg)
      /\ expect' = [expect EXCEPT ![current] =
                     [x \in Registers |-> IF x \in General THEN reg[x] ELSE c[x]]]
      /\ entered' = TRUE
      /\ UNCHANGED <<mem, isr, user_rsp_temp, sched_vars, asked, cut>>
  BY <1>2 DEF switch_to_first_task
<1>4. Len(frame) = 5 /\ frame[1] = c["ss"] /\ frame[2] = c["rsp"] /\ frame[3] = c["rflags"]
      /\ frame[4] = c["cs"] /\ frame[5] = c["rip"]
  OBVIOUS
<1>. HIDE DEF c, frame
<1>5. m[34] = c["rip"] /\ m[35] = c["cs"] /\ m[36] = c["rflags"] /\ m[37] = c["rsp"]
      /\ m[38] = c["ss"]
  BY <1>4 DEF PushAll, Words
<1>. HIDE DEF m
<1>6. reg' = PopAll(m, 34, FrameNames, reg)
  BY <1>3, <1>4 DEF Iretq, FrameNames
<1>7. /\ DOMAIN FrameNames = 1 .. 5
      /\ FrameNames[1] = "rip" /\ FrameNames[2] = "cs" /\ FrameNames[3] = "rflags"
      /\ FrameNames[4] = "rsp" /\ FrameNames[5] = "ss"
  BY DEF FrameNames
<1>8. \A i \in 1 .. 5 : i = 1 \/ i = 2 \/ i = 3 \/ i = 4 \/ i = 5
  OBVIOUS
<1>9. /\ IndexIn(FrameNames, "rip") = 1 /\ IndexIn(FrameNames, "cs") = 2
      /\ IndexIn(FrameNames, "rflags") = 3 /\ IndexIn(FrameNames, "rsp") = 4
      /\ IndexIn(FrameNames, "ss") = 5
  <2>1. IndexIn(FrameNames, "rip") = 1
    BY <1>7, <1>8 DEF IndexIn
  <2>2. IndexIn(FrameNames, "cs") = 2
    BY <1>7, <1>8 DEF IndexIn
  <2>3. IndexIn(FrameNames, "rflags") = 3
    BY <1>7, <1>8 DEF IndexIn
  <2>4. IndexIn(FrameNames, "rsp") = 4
    BY <1>7, <1>8 DEF IndexIn
  <2>5. IndexIn(FrameNames, "ss") = 5
    BY <1>7, <1>8 DEF IndexIn
  <2>. QED  BY <2>1, <2>2, <2>3, <2>4, <2>5
<1>10. Range(FrameNames) = IretqNames
  BY <1>7, <1>8 DEF Range, IretqNames
<1>11. \A x \in Registers : reg'[x] = IF x \in IretqNames THEN c[x] ELSE reg[x]
  <2>1. \A x \in Registers :
          reg'[x] = IF x \in IretqNames THEN m[34 + IndexIn(FrameNames, x) - 1] ELSE reg[x]
    BY <1>6, <1>10 DEF PopAll
  <2>2. \A x \in IretqNames : m[34 + IndexIn(FrameNames, x) - 1] = c[x]
    BY <1>5, <1>9 DEF IretqNames
  <2>. QED  BY <2>1, <2>2
<1>12. \A x \in Registers : x \in General <=> x \notin IretqNames
  BY TwentyRegisters DEF GeneralNames, IretqNames
<1>13. reg' = [x \in Registers |-> IF x \in General THEN reg[x] ELSE c[x]]
  <2>1. reg' = [x \in Registers |-> reg'[x]]
    BY <1>6 DEF PopAll
  <2>. QED  BY <1>11, <1>12, <2>1
<1>14. reg' \in Regs /\ expect' = [expect EXCEPT ![current] = reg']
  BY <1>1, <1>3, <1>13 DEF Regs
<1>15. expect' \in [Tasks -> Regs] /\ expect'[current] = reg'
       /\ \A t \in Tasks : t # current => expect'[t] = expect[t]
  BY <1>1, <1>14 DEF RInv, TypeOK
<1>16. UserState(current, reg')
  <2>1. TaskState(current, c, mem, expect[current], asked[current])
    BY <1>1 DEF RInv, TasksOK, StateOf, c
  <2>2. UserMode(c)
    BY <1>1 DEF c
  <2>3. UserState(current, c)
    BY <2>1, <2>2, ModeOf
  <2>4. reg'["cs"] = c["cs"] /\ reg'["ss"] = c["ss"] /\ reg'["rflags"] = c["rflags"]
        /\ reg'["rip"] = c["rip"]
    BY <1>11, Names DEF IretqNames
  <2>. QED  BY <2>3, <2>4 DEF UserState
<1>17. TypeOK'
  BY <1>3, <1>14, <1>15 DEF RInv, TypeOK, sched_vars
<1>18. TasksOK'
  <2>1. ASSUME NEW t \in Tasks
        PROVE  TaskState(t, StateOf(t)', mem', expect'[t], asked'[t])
    <3>1. CASE t = current
      <4>1. StateOf(t)' = reg'
        BY <1>0, <1>3, <3>1 DEF StateOf, Running, sched_vars
      <4>. QED  BY <1>15, <1>16, <3>1, <4>1 DEF TaskState
    <3>2. CASE t # current
      <4>1. StateOf(t)' = contexts[t] /\ StateOf(t) = contexts[t]
        BY <1>3, <3>2 DEF StateOf, sched_vars
      <4>2. TaskState(t, contexts[t], mem, expect[t], asked[t])
        BY <4>1 DEF RInv, TasksOK
      <4>. QED  BY <1>3, <1>15, <3>2, <4>1, <4>2
    <3>. QED  BY <3>1, <3>2
  <2>. QED  BY <2>1 DEF TasksOK
<1>19. CutOK'
  BY <1>1, <1>3 DEF RInv, CutOK, sched_vars
<1>20. BootOK' /\ FrameOK'
  BY <1>0, <1>1, <1>3 DEF BootOK, FrameOK, sched_vars
<1>. QED  BY <1>17, <1>18, <1>19, <1>20 DEF RInv

LEMMA UserComputeStep ==
  ASSUME RInv, OneCaller, NEW gen \in Gens, UserCompute(gen)
  PROVE  RInv'
<1>1. /\ ~isr /\ UserMode(reg) /\ expect' = [expect EXCEPT ![current] = reg']
      /\ UNCHANGED <<mem, isr, user_rsp_temp, sched_vars, entered, asked, cut>>
  BY DEF UserCompute
<1>2. /\ reg \in Regs /\ current \in Tasks /\ current \in Int
      /\ entered /\ UserState(current, reg) /\ gen \in 0 .. 4
  BY <1>1, WhoRuns, TaskTypes, RegistersAssumption
<1>3. \A x \in Registers : IndexIn(Layout, x) \in Int
  BY LayoutIndex
<1>4. \A x \in Registers : x \in General <=> x \notin IretqNames
  BY TwentyRegisters DEF GeneralNames, IretqNames
<1>5. reg' = [x \in Registers |->
               CASE x \in General  -> 2000 + 500 * current + 50 * gen + IndexIn(Layout, x)
                 [] x = "rip"      -> UserRip(current) + gen
                 [] x = "rflags"   -> IntFlag + gen
                 [] x = "rsp"      -> 1000 + 100 * current - gen
                 [] OTHER          -> reg[x]]
  BY DEF UserCompute
<1>6. ASSUME NEW x \in Registers PROVE reg'[x] \in Int
  <2>1. CASE x \in General
    <3>1. reg'[x] = 2000 + 500 * current + 50 * gen + IndexIn(Layout, x)
      BY <1>4, <1>5, <2>1 DEF IretqNames
    <3>. QED  BY <1>2, <1>3, <3>1
  <2>2. CASE x \notin General
    BY <1>2, <1>5, <2>2 DEF UserRip, IntFlag, Regs
  <2>. QED  BY <2>1, <2>2
<1>7. reg' \in Regs
  BY <1>5, <1>6 DEF Regs
<1>8. /\ reg'["rip"] = UserRip(current) + gen /\ reg'["rflags"] = 512 + gen
      /\ reg'["cs"] = reg["cs"] /\ reg'["ss"] = reg["ss"]
  BY <1>4, <1>5, Names DEF IretqNames, IntFlag
<1>9. UserState(current, reg')
  BY <1>2, <1>8 DEF UserState, UserRip
<1>10. expect' \in [Tasks -> Regs] /\ expect'[current] = reg'
       /\ \A t \in Tasks : t # current => expect'[t] = expect[t]
  BY <1>1, <1>2, <1>7 DEF RInv, TypeOK
<1>11. TaskState(current, reg', mem', expect'[current], asked'[current])
  BY <1>9, <1>10 DEF TaskState
<1>12. mem' = mem /\ mem' \in [Words -> Int] /\ asked' \in [Tasks -> Regs] /\ user_rsp_temp' \in Int
       /\ \A t \in Tasks : asked'[t] = asked[t]
  BY <1>1 DEF RInv, TypeOK
<1>. QED  BY <1>1, <1>2, <1>7, <1>10, <1>11, <1>12, CurrentStep
-----------------------------------------------------------------------------
(***************************************************************************)
(* syscall_handler and syscall_entry.                                      *)
(***************************************************************************)
SyscallArgs == <<"rax", "rdi", "rsi", "rdx", "r10", "r8", "r9">>

\* The ten words syscall_handler pushes.
SyscallSaved(v1, v2, v3, r) == <<v1, v2, v3>> \o ValuesOf(r, SyscallArgs)

\* They are the return address, rflags, the user's rsp and the seven registers
\* of the calling convention.
LEMMA SavedWords ==
  ASSUME NEW r \in Regs, NEW v1 \in Int, NEW v2 \in Int, NEW v3 \in Int
  PROVE  LET h == SyscallSaved(v1, v2, v3, r)
         IN  /\ Len(h) = 10 /\ h \in [1 .. 10 -> Int]
             /\ h[1] = v1 /\ h[2] = v2 /\ h[3] = v3 /\ h[4] = r["rax"] /\ h[5] = r["rdi"]
             /\ h[6] = r["rsi"] /\ h[7] = r["rdx"] /\ h[8] = r["r10"] /\ h[9] = r["r8"]
             /\ h[10] = r["r9"]
<1>. DEFINE f == <<v1, v2, v3>>
            g == <<r["rax"], r["rdi"], r["rsi"], r["rdx"], r["r10"], r["r8"], r["r9"]>>
            h == SyscallSaved(v1, v2, v3, r)
<1>1. f \in Seq(Int) /\ Len(f) = 3 /\ f[1] = v1 /\ f[2] = v2 /\ f[3] = v3
  OBVIOUS
<1>2. /\ DOMAIN SyscallArgs = 1 .. 7
      /\ SyscallArgs[1] = "rax" /\ SyscallArgs[2] = "rdi" /\ SyscallArgs[3] = "rsi"
      /\ SyscallArgs[4] = "rdx" /\ SyscallArgs[5] = "r10" /\ SyscallArgs[6] = "r8"
      /\ SyscallArgs[7] = "r9"
  BY DEF SyscallArgs
<1>3. /\ DOMAIN g = 1 .. 7 /\ Len(g) = 7
      /\ g[1] = r["rax"] /\ g[2] = r["rdi"] /\ g[3] = r["rsi"] /\ g[4] = r["rdx"]
      /\ g[5] = r["r10"] /\ g[6] = r["r8"] /\ g[7] = r["r9"]
  OBVIOUS
<1>4. g \in Seq(Int)
  <2>1. /\ r["rax"] \in Int /\ r["rdi"] \in Int /\ r["rsi"] \in Int /\ r["rdx"] \in Int
        /\ r["r10"] \in Int /\ r["r8"] \in Int /\ r["r9"] \in Int
    BY Names DEF Regs
  <2>. QED  BY <2>1
<1>5. g = [i \in DOMAIN g |-> g[i]]
  OBVIOUS
<1>. HIDE DEF f, g
<1>6. ValuesOf(r, SyscallArgs) = g
  <2>1. \A i \in 1 .. 7 : i = 1 \/ i = 2 \/ i = 3 \/ i = 4 \/ i = 5 \/ i = 6 \/ i = 7
    OBVIOUS
  <2>2. \A i \in 1 .. 7 : r[SyscallArgs[i]] = g[i]
    BY <1>2, <1>3, <2>1
  <2>. QED  BY <1>2, <1>3, <1>5, <2>2 DEF ValuesOf
<1>7. h = f \o g
  BY <1>6 DEF SyscallSaved, f
<1>. HIDE DEF h
<1>8. /\ h \in Seq(Int) /\ Len(h) = Len(f) + Len(g)
      /\ \A i \in 1 .. Len(f) + Len(g) : h[i] = IF i <= Len(f) THEN f[i] ELSE g[i - Len(f)]
  BY ONLY <1>1, <1>4, <1>7, ConcatProperties
<1>9. Len(h) = 10
  BY ONLY <1>1, <1>3, <1>8
<1>10. h \in [1 .. 10 -> Int]
  BY ONLY <1>8, <1>9, LenProperties
<1>11. \A i \in 1 .. 10 : h[i] = IF i <= 3 THEN f[i] ELSE g[i - 3]
  BY ONLY <1>1, <1>3, <1>8
<1>12. /\ h[1] = f[1] /\ h[2] = f[2] /\ h[3] = f[3] /\ h[4] = g[1] /\ h[5] = g[2] /\ h[6] = g[3]
       /\ h[7] = g[4] /\ h[8] = g[5] /\ h[9] = g[6] /\ h[10] = g[7]
  BY ONLY <1>11
<1>. QED  BY <1>1, <1>3, <1>9, <1>10, <1>12 DEF h

\* Where the pushes leave them.
LEMMA SyscallPushed ==
  ASSUME NEW m \in [Words -> Int], NEW h \in [1 .. 10 -> Int], Len(h) = 10
  PROVE  LET m2 == PushAll(m, SyscallTop, h)
         IN  /\ m2 \in [Words -> Int]
             /\ m2[129] = h[1] /\ m2[128] = h[2] /\ m2[127] = h[3] /\ m2[126] = h[4]
             /\ m2[125] = h[5] /\ m2[124] = h[6] /\ m2[123] = h[7] /\ m2[122] = h[8]
             /\ m2[121] = h[9] /\ m2[120] = h[10]
<1>. DEFINE m2 == PushAll(m, SyscallTop, h)
<1>1. m2 = [a \in Words |-> IF a \in 120 .. 129 THEN h[130 - a] ELSE m[a]]
  BY DEF PushAll, SyscallTop
<1>. HIDE DEF m2
<1>2. m2 \in [Words -> Int]
  <2>1. \A a \in 120 .. 129 : 130 - a \in 1 .. 10
    OBVIOUS
  <2>. QED  BY <1>1, <2>1
<1>3. /\ m2[129] = h[1] /\ m2[128] = h[2] /\ m2[127] = h[3] /\ m2[126] = h[4] /\ m2[125] = h[5]
      /\ m2[124] = h[6] /\ m2[123] = h[7] /\ m2[122] = h[8] /\ m2[121] = h[9] /\ m2[120] = h[10]
  BY <1>1 DEF Words
<1>. QED  BY <1>2, <1>3 DEF m2

LEMMA SyscallEntryStep ==
  ASSUME RInv, OneCaller, SyscallEntry
  PROVE  RInv'
<1>. DEFINE rip == AfterSyscall(reg["rip"])
            saved == SyscallSaved(rip, reg["rflags"], reg["rsp"], reg)
            e == [reg EXCEPT !["rip"] = rip, !["rcx"] = rip,
                             !["r11"] = reg["rflags"], !["rax"] = reg["rdx"]]
<1>1. /\ ~isr /\ current \in Callers /\ reg["rip"] - UserRip(current) \in Gens
      /\ user_rsp_temp' = reg["rsp"] /\ asked' = [asked EXCEPT ![current] = reg]
      /\ UNCHANGED <<isr, sched_vars, entered, cut>>
  BY DEF SyscallEntry
<1>2. /\ mem' = PushAll(mem, SyscallTop, saved)
      /\ reg' = [reg EXCEPT !["rcx"] = rip, !["r11"] = reg["rsp"],
                            !["cs"] = syscall_cs, !["ss"] = syscall_cs + 8,
                            !["rsp"] = SyscallTop - Len(saved), !["rip"] = ArgsRip]
      /\ expect' = [expect EXCEPT ![current] = e]
  BY <1>1 DEF SyscallEntry, SyscallArgs, SyscallSaved
<1>3. reg \in Regs /\ mem \in [Words -> Int] /\ current \in Tasks /\ current \in Int /\ current >= 0
  <2>1. reg \in Regs /\ mem \in [Words -> Int] /\ current \in Tasks
    BY <1>1, WhoRuns
  <2>2. current \in Int
    BY TaskTypes
  <2>. QED  BY <2>1, <2>2 DEF Tasks
<1>4. reg["rip"] \in Int /\ reg["rflags"] \in Int /\ reg["rsp"] \in Int /\ reg["rdx"] \in Int
  BY <1>3, Names DEF Regs
<1>5. reg["rip"] - (100 + 10 * current) \in 0 .. 4
  BY <1>1, RegistersAssumption DEF UserRip
<1>6. reg["rip"] >= 100
  BY <1>3, <1>4, <1>5
<1>7. entered /\ UserState(current, reg)
  BY <1>1, <1>6, WhoRuns
<1>8. rip \in Int /\ rip \in UserRip(current) .. UserRip(current) + 9
  BY <1>3, <1>4, <1>5 DEF AfterSyscall, UserRip
<1>. HIDE DEF rip
<1>8a. /\ Len(saved) = 10 /\ saved \in [1 .. 10 -> Int]
      /\ saved[1] = rip /\ saved[2] = reg["rflags"] /\ saved[3] = reg["rsp"]
      /\ saved[4] = reg["rax"] /\ saved[5] = reg["rdi"] /\ saved[6] = reg["rsi"]
      /\ saved[7] = reg["rdx"] /\ saved[8] = reg["r10"] /\ saved[9] = reg["r8"]
      /\ saved[10] = reg["r9"]
  BY ONLY <1>3, <1>4, <1>8, SavedWords
<1>. HIDE DEF saved
<1>9. /\ mem' \in [Words -> Int]
      /\ mem'[129] = rip /\ mem'[128] = reg["rflags"] /\ mem'[127] = reg["rsp"]
      /\ mem'[126] = reg["rax"] /\ mem'[125] = reg["rdi"] /\ mem'[124] = reg["rsi"]
      /\ mem'[123] = reg["rdx"] /\ mem'[122] = reg["r10"] /\ mem'[121] = reg["r8"]
      /\ mem'[120] = reg["r9"]
  <2>. DEFINE m2 == PushAll(mem, SyscallTop, saved)
  <2>1. /\ m2 \in [Words -> Int]
        /\ m2[129] = saved[1] /\ m2[128] = saved[2] /\ m2[127] = saved[3] /\ m2[126] = saved[4]
        /\ m2[125] = saved[5] /\ m2[124] = saved[6] /\ m2[123] = saved[7] /\ m2[122] = saved[8]
        /\ m2[121] = saved[9] /\ m2[120] = saved[10]
    BY ONLY <1>3, <1>8a, SyscallPushed
  <2>2. mem' = m2
    BY <1>2
  <2>. HIDE DEF m2
  <2>. QED  BY ONLY <1>8a, <2>1, <2>2
<1>10. /\ e \in Regs /\ e["rip"] = rip /\ e["rcx"] = rip /\ e["r11"] = reg["rflags"]
       /\ e["rax"] = reg["rdx"]
       /\ \A x \in Registers \ {"rip", "rcx", "r11", "rax"} : e[x] = reg[x]
  BY <1>3, <1>4, <1>8, Names DEF Regs
<1>. HIDE DEF e
<1>11. reg' = [reg EXCEPT !["rcx"] = rip, !["r11"] = reg["rsp"], !["cs"] = 8, !["ss"] = 16,
                          !["rsp"] = 120, !["rip"] = 10]
  BY <1>2, <1>8a, Selectors DEF SyscallTop, ArgsRip
<1>12. /\ reg' \in Regs /\ reg'["cs"] = 8 /\ reg'["ss"] = 16 /\ reg'["rsp"] = 120 /\ reg'["rip"] = 10
       /\ \A x \in Registers \ {"rcx", "r11", "cs", "ss", "rsp", "rip"} : reg'[x] = reg[x]
  BY <1>3, <1>4, <1>8, <1>11, Names DEF Regs
<1>13. /\ expect' \in [Tasks -> Regs] /\ expect'[current] = e
       /\ asked' \in [Tasks -> Regs] /\ asked'[current] = reg
       /\ \A t \in Tasks : t # current => expect'[t] = expect[t] /\ asked'[t] = asked[t]
  BY <1>1, <1>2, <1>3, <1>10 DEF RInv, TypeOK
<1>14. SyscallState(current, reg', mem', e, reg)
  <2>1. KernelState(reg') /\ Untouched(reg', e) /\ SameB(reg', e)
    BY <1>7, <1>10, <1>12, Names DEF KernelState, Untouched, SameB, UserState
  <2>2. UserState(current, e)
    BY <1>7, <1>8, <1>10, Names DEF UserState
  <2>3. Answered(e, reg)
    BY <1>10, <1>7, Names DEF Answered
  <2>4. Saved(mem', e, reg["rax"])
    BY <1>9, <1>10, Names DEF Saved
  <2>5. Loaded(reg', reg, reg'["rip"] - 10)
    BY <1>12 DEF Loaded
  <2>6. AtLoads(reg', mem', e, reg)
    BY <1>12, <2>1, <2>4, <2>5 DEF AtLoads
  <2>. QED  BY <1>1, <2>1, <2>2, <2>3, <2>6 DEF SyscallState
<1>15. TaskState(current, reg', mem', expect'[current], asked'[current])
  BY <1>13, <1>14 DEF TaskState
<1>. QED  BY <1>1, <1>4, <1>7, <1>9, <1>12, <1>13, <1>15, CurrentStep

\* The instruction pointer tells where in a syscall a task is.
LEMMA InSyscall ==
  ASSUME RInv, ~isr, reg["rip"] \in 10 .. 21
  PROVE  LET e == expect[current]  a == asked[current]
         IN  /\ entered /\ current \in Callers /\ reg \in Regs /\ mem \in [Words -> Int]
             /\ e \in Regs /\ a \in Regs
             /\ KernelState(reg) /\ Untouched(reg, e) /\ UserState(current, e) /\ Answered(e, a)
             /\ reg["rip"] \in 10 .. 16 => AtLoads(reg, mem, e, a)
             /\ reg["rip"] = 20 => AtEntry(reg, mem, e, a)
             /\ reg["rip"] = 21 => InEntry(reg, mem, e, a)
             /\ reg["rip"] = 17 => AtReturn(reg, mem, e, a)
             /\ reg["rip"] = 18 => AtStored(reg, mem, e)
<1>. DEFINE e == expect[current]  a == asked[current]
<1>1. /\ reg \in Regs /\ mem \in [Words -> Int] /\ e \in Regs /\ a \in Regs /\ entered
      /\ SyscallState(current, reg, mem, e, a)
  BY WhoRuns
<1>. HIDE DEF e, a
<1>2. /\ current \in Callers /\ KernelState(reg) /\ Untouched(reg, e) /\ UserState(current, e)
      /\ Answered(e, a)
      /\ \/ AtLoads(reg, mem, e, a) \/ AtEntry(reg, mem, e, a) \/ InEntry(reg, mem, e, a)
         \/ AtReturn(reg, mem, e, a) \/ AtStored(reg, mem, e)
  BY <1>1 DEF SyscallState
<1>3. /\ AtLoads(reg, mem, e, a) => reg["rip"] \in 10 .. 16
      /\ AtEntry(reg, mem, e, a) => reg["rip"] = 20
      /\ InEntry(reg, mem, e, a) => reg["rip"] = 21
      /\ AtReturn(reg, mem, e, a) => reg["rip"] = 17
      /\ AtStored(reg, mem, e) => reg["rip"] = 18
  BY DEF AtLoads, AtEntry, InEntry, AtReturn, AtStored
<1>4. /\ reg["rip"] \in 10 .. 16 => AtLoads(reg, mem, e, a)
      /\ reg["rip"] = 20 => AtEntry(reg, mem, e, a)
      /\ reg["rip"] = 21 => InEntry(reg, mem, e, a)
      /\ reg["rip"] = 17 => AtReturn(reg, mem, e, a)
      /\ reg["rip"] = 18 => AtStored(reg, mem, e)
  BY ONLY <1>2, <1>3
<1>. QED  BY <1>1, <1>2, <1>4 DEF e, a

\* The steps of a syscall after its entry change the registers and the stack.
LEMMA SyscallStep ==
  ASSUME RInv, OneCaller, ~isr, reg["rip"] \in 10 .. 21,
         UNCHANGED <<isr, user_rsp_temp, sched_vars, entered, asked, expect, cut>>,
         reg' \in Regs, mem' \in [Words -> Int],
         TaskState(current, reg', mem', expect[current], asked[current])
  PROVE  RInv'
<1>1. entered /\ current \in Callers
  BY InSyscall
<1>2. expect' \in [Tasks -> Regs] /\ asked' \in [Tasks -> Regs] /\ user_rsp_temp' \in Int
      /\ expect' = expect /\ asked' = asked
  BY DEF RInv, TypeOK
<1>3. TaskState(current, reg', mem', expect'[current], asked'[current])
  BY <1>2
<1>. QED  BY <1>1, <1>2, <1>3, CurrentStep

\* One load.
LEMMA OneLoad ==
  ASSUME NEW x \in {"rdi", "rsi", "rdx", "rcx", "r8", "r9"}, NEW v \in Int, NEW i \in 1 .. 6,
         NEW e \in Regs, NEW a \in Regs, NEW m, NEW r \in Regs, NEW t \in Callers, NEW s,
         s = [r EXCEPT ![x] = v, !["rip"] = 10 + i],
         KernelState(r), Untouched(r, e), UserState(t, e), Answered(e, a), AtLoads(r, m, e, a),
         Loaded(s, a, i)
  PROVE  s \in Regs /\ SyscallState(t, s, m, e, a)
<1>1. x \in Registers /\ x \notin {"rip", "cs", "ss", "rflags", "rsp", "r12", "r13", "r14", "r15", "rbx", "rbp"}
  BY Names
<1>2. /\ s \in Regs /\ s["rip"] = 10 + i
      /\ \A y \in Registers \ {x, "rip"} : s[y] = r[y]
  BY <1>1, Names DEF Regs
<1>3. KernelState(s) /\ Untouched(s, e) /\ SameB(s, e) /\ s["rsp"] = r["rsp"]
  <2>1. /\ s["cs"] = r["cs"] /\ s["ss"] = r["ss"] /\ s["rflags"] = r["rflags"] /\ s["rsp"] = r["rsp"]
        /\ s["r12"] = r["r12"] /\ s["r13"] = r["r13"] /\ s["r14"] = r["r14"] /\ s["r15"] = r["r15"]
        /\ s["rbx"] = r["rbx"] /\ s["rbp"] = r["rbp"]
    BY <1>1, <1>2, Names
  <2>. QED  BY ONLY <2>1, KernelState(r), Untouched(r, e), AtLoads(r, m, e, a)
            DEF KernelState, Untouched, SameB, AtLoads
<1>4. s["rip"] \in 10 .. 16 /\ s["rip"] - 10 = i
  BY <1>2
<1>5. AtLoads(s, m, e, a)
  BY <1>3, <1>4 DEF AtLoads
<1>. QED  BY <1>2, <1>3, <1>5 DEF SyscallState

LEMMA LoadArgumentStep ==
  ASSUME RInv, OneCaller, LoadArgument
  PROVE  RInv'
<1>. DEFINE e == expect[current]  a == asked[current]
<1>1. PICK i \in DOMAIN ArgumentLoads :
        /\ At(ArgsRip + i - 1)
        /\ reg' = [reg EXCEPT ![ArgumentLoads[i][1]] = mem[reg["rsp"] + ArgumentLoads[i][2]],
                              !["rip"] = ArgsRip + i]
  BY DEF LoadArgument
<1>2. UNCHANGED <<mem, isr, user_rsp_temp, sched_vars, entered, asked, expect, cut>>
  BY DEF LoadArgument
<1>3. i \in 1 .. 6
  BY DEF ArgumentLoads
<1>4. ~isr /\ reg["rip"] = 9 + i /\ reg["rip"] \in 10 .. 16 /\ reg["rip"] \in 10 .. 21
  BY <1>1, <1>3 DEF At, ArgsRip
<1>5. /\ current \in Callers /\ reg \in Regs /\ mem \in [Words -> Int] /\ e \in Regs /\ a \in Regs
      /\ KernelState(reg) /\ Untouched(reg, e) /\ UserState(current, e) /\ Answered(e, a)
      /\ AtLoads(reg, mem, e, a)
  BY <1>4, InSyscall
<1>. HIDE DEF e, a
<1>6. /\ reg["rsp"] = 120 /\ Saved(mem, e, a["rax"]) /\ Loaded(reg, a, i - 1)
  BY <1>3, <1>4, <1>5 DEF AtLoads
<1>7. /\ mem[126] = a["rax"] /\ mem[125] = a["rdi"] /\ mem[124] = a["rsi"] /\ mem[123] = a["rdx"]
      /\ mem[122] = a["r10"] /\ mem[121] = a["r8"]
  BY <1>5, <1>6 DEF Saved, Answered
<1>8. /\ mem[126] \in Int /\ mem[125] \in Int /\ mem[124] \in Int /\ mem[123] \in Int
      /\ mem[122] \in Int /\ mem[121] \in Int
  BY <1>5 DEF Words
<1>9. ASSUME NEW x \in {"rdi", "rsi", "rdx", "rcx", "r8", "r9"}, NEW v \in Int,
             reg' = [reg EXCEPT ![x] = v, !["rip"] = 10 + i], Loaded(reg', a, i)
      PROVE  RInv'
  <2>1. reg' \in Regs /\ SyscallState(current, reg', mem, e, a)
    BY ONLY <1>3, <1>5, <1>9, OneLoad
  <2>2. TaskState(current, reg', mem', expect[current], asked[current]) /\ mem' \in [Words -> Int]
    BY <1>2, <1>5, <2>1 DEF TaskState, e, a
  <2>. QED  BY <1>2, <1>4, <2>1, <2>2, SyscallStep
<1>10. reg' = [reg EXCEPT ![ArgumentLoads[i][1]] = mem[120 + ArgumentLoads[i][2]], !["rip"] = 10 + i]
  BY <1>1, <1>6 DEF ArgsRip
<1>11. CASE i = 1
  <2>1. reg' = [reg EXCEPT !["rdi"] = mem[126], !["rip"] = 10 + i]
    BY <1>10, <1>11 DEF ArgumentLoads
  <2>2. Loaded(reg', a, i)
    <3>1. reg'["rdi"] = mem[126]
      BY <1>5, <2>1, Names DEF Regs
    <3>2. Loaded(reg, a, 0)
      BY <1>6, <1>11
    <3>. QED  BY ONLY <1>7, <1>11, <3>1, <3>2 DEF Loaded
  <2>. QED  BY <1>8, <1>9, <2>1, <2>2
<1>12. CASE i = 2
  <2>1. reg' = [reg EXCEPT !["rsi"] = mem[125], !["rip"] = 10 + i]
    BY <1>10, <1>12 DEF ArgumentLoads
  <2>2. Loaded(reg', a, i)
    <3>1. reg'["rsi"] = mem[125]
          /\ reg'["rdi"] = reg["rdi"]
      BY <1>5, <2>1, Names DEF Regs
    <3>2. Loaded(reg, a, 1)
      BY <1>6, <1>12
    <3>. QED  BY ONLY <1>7, <1>12, <3>1, <3>2 DEF Loaded
  <2>. QED  BY <1>8, <1>9, <2>1, <2>2
<1>13. CASE i = 3
  <2>1. reg' = [reg EXCEPT !["rdx"] = mem[124], !["rip"] = 10 + i]
    BY <1>10, <1>13 DEF ArgumentLoads
  <2>2. Loaded(reg', a, i)
    <3>1. reg'["rdx"] = mem[124]
          /\ reg'["rdi"] = reg["rdi"] /\ reg'["rsi"] = reg["rsi"]
      BY <1>5, <2>1, Names DEF Regs
    <3>2. Loaded(reg, a, 2)
      BY <1>6, <1>13
    <3>. QED  BY ONLY <1>7, <1>13, <3>1, <3>2 DEF Loaded
  <2>. QED  BY <1>8, <1>9, <2>1, <2>2
<1>14. CASE i = 4
  <2>1. reg' = [reg EXCEPT !["rcx"] = mem[123], !["rip"] = 10 + i]
    BY <1>10, <1>14 DEF ArgumentLoads
  <2>2. Loaded(reg', a, i)
    <3>1. reg'["rcx"] = mem[123]
          /\ reg'["rdi"] = reg["rdi"] /\ reg'["rsi"] = reg["rsi"] /\ reg'["rdx"] = reg["rdx"]
      BY <1>5, <2>1, Names DEF Regs
    <3>2. Loaded(reg, a, 3)
      BY <1>6, <1>14
    <3>. QED  BY ONLY <1>7, <1>14, <3>1, <3>2 DEF Loaded
  <2>. QED  BY <1>8, <1>9, <2>1, <2>2
<1>15. CASE i = 5
  <2>1. reg' = [reg EXCEPT !["r8"] = mem[122], !["rip"] = 10 + i]
    BY <1>10, <1>15 DEF ArgumentLoads
  <2>2. Loaded(reg', a, i)
    <3>1. reg'["r8"] = mem[122]
          /\ reg'["rdi"] = reg["rdi"] /\ reg'["rsi"] = reg["rsi"] /\ reg'["rdx"] = reg["rdx"]
          /\ reg'["rcx"] = reg["rcx"]
      BY <1>5, <2>1, Names DEF Regs
    <3>2. Loaded(reg, a, 4)
      BY <1>6, <1>15
    <3>. QED  BY ONLY <1>7, <1>15, <3>1, <3>2 DEF Loaded
  <2>. QED  BY <1>8, <1>9, <2>1, <2>2
<1>16. CASE i = 6
  <2>1. reg' = [reg EXCEPT !["r9"] = mem[121], !["rip"] = 10 + i]
    BY <1>10, <1>16 DEF ArgumentLoads
  <2>2. Loaded(reg', a, i)
    <3>1. reg'["r9"] = mem[121]
          /\ reg'["rdi"] = reg["rdi"] /\ reg'["rsi"] = reg["rsi"] /\ reg'["rdx"] = reg["rdx"]
          /\ reg'["rcx"] = reg["rcx"] /\ reg'["r8"] = reg["r8"]
      BY <1>5, <2>1, Names DEF Regs
    <3>2. Loaded(reg, a, 5)
      BY <1>6, <1>16
    <3>. QED  BY ONLY <1>7, <1>16, <3>1, <3>2 DEF Loaded
  <2>. QED  BY <1>8, <1>9, <2>1, <2>2
<1>. QED  BY <1>3, <1>11, <1>12, <1>13, <1>14, <1>15, <1>16

LEMMA CallEntryStep ==
  ASSUME RInv, OneCaller, CallEntry
  PROVE  RInv'
<1>. DEFINE e == expect[current]  a == asked[current]
<1>1. ~isr /\ reg["rip"] = 16 /\ reg["rip"] \in 10 .. 16 /\ reg["rip"] \in 10 .. 21
  BY DEF CallEntry, At, ArgsRip
<1>2. UNCHANGED <<isr, user_rsp_temp, sched_vars, entered, asked, expect, cut>>
  BY DEF CallEntry
<1>3. /\ current \in Callers /\ reg \in Regs /\ mem \in [Words -> Int]
      /\ KernelState(reg) /\ Untouched(reg, e) /\ UserState(current, e) /\ Answered(e, a)
      /\ AtLoads(reg, mem, e, a)
  BY <1>1, InSyscall
<1>. HIDE DEF e, a
<1>4. reg["rsp"] = 120 /\ SameB(reg, e) /\ Saved(mem, e, a["rax"]) /\ Loaded(reg, a, 6)
  BY <1>1, <1>3 DEF AtLoads
<1>5. mem' = [b \in Words |-> IF b = 119 THEN 17 ELSE mem[b]]
  <2>1. mem' = PushAll(mem, 120, <<17>>)
    BY <1>4 DEF CallEntry, ReturnRip
  <2>2. Len(<<17>>) = 1 /\ <<17>>[1] = 17
    OBVIOUS
  <2>3. \A b \in Words : b \in 119 .. 119 <=> b = 119
    BY DEF Words
  <2>. QED  BY <2>1, <2>2, <2>3 DEF PushAll
<1>6. mem' \in [Words -> Int] /\ mem'[119] = 17 /\ \A b \in 120 .. 129 : mem'[b] = mem[b]
  BY <1>3, <1>5 DEF Words
<1>7. reg' = [reg EXCEPT !["rax"] = 20, !["rsp"] = 119, !["rip"] = 20]
  BY <1>3, <1>4, Names DEF CallEntry, EntryRip, Regs
<1>8. /\ reg' \in Regs /\ reg'["rsp"] = 119 /\ reg'["rip"] = 20
      /\ \A x \in Registers \ {"rax", "rsp", "rip"} : reg'[x] = reg[x]
  BY <1>3, <1>7, Names DEF Regs
<1>9. KernelState(reg') /\ Untouched(reg', e) /\ SameB(reg', e)
  BY <1>3, <1>4, <1>8, Names DEF KernelState, Untouched, SameB
<1>10. Loaded(reg', a, 6)
  BY <1>4, <1>8, Names DEF Loaded
<1>11. Saved(mem', e, a["rax"])
  BY <1>4, <1>6 DEF Saved
<1>12. AtEntry(reg', mem', e, a)
  BY <1>6, <1>8, <1>9, <1>10, <1>11 DEF AtEntry
<1>13. TaskState(current, reg', mem', expect[current], asked[current])
  BY <1>3, <1>9, <1>12 DEF TaskState, SyscallState, e, a
<1>. QED  BY <1>1, <1>2, <1>6, <1>8, <1>13, SyscallStep

LEMMA EntryBodyStep ==
  ASSUME RInv, OneCaller, EntryBody
  PROVE  RInv'
<1>. DEFINE e == expect[current]  a == asked[current]
<1>1. ~isr /\ reg["rip"] = 20 /\ reg["rip"] \in 10 .. 21
  BY DEF EntryBody, At, EntryRip
<1>2. UNCHANGED <<isr, user_rsp_temp, sched_vars, entered, asked, expect, cut>>
  BY DEF EntryBody
<1>3. /\ current \in Callers /\ reg \in Regs /\ mem \in [Words -> Int]
      /\ KernelState(reg) /\ Untouched(reg, e) /\ UserState(current, e) /\ Answered(e, a)
      /\ AtEntry(reg, mem, e, a)
  BY <1>1, InSyscall
<1>. HIDE DEF e, a
<1>4. reg["rsp"] = 119 /\ mem[119] = 17 /\ SameB(reg, e) /\ Saved(mem, e, a["rax"]) /\ Loaded(reg, a, 6)
  BY <1>3 DEF AtEntry
<1>5. mem' = [b \in Words |-> IF b = 118 THEN reg["rbp"] ELSE IF b = 117 THEN reg["rbx"] ELSE mem[b]]
  <2>. DEFINE v == ValuesOf(reg, <<"rbp", "rbx">>)
  <2>1. v = <<reg["rbp"], reg["rbx"]>>
    BY DEF ValuesOf
  <2>2. Len(v) = 2 /\ v[1] = reg["rbp"] /\ v[2] = reg["rbx"]
    BY <2>1
  <2>3. mem' = PushAll(mem, 119, v)
    BY <1>4 DEF EntryBody
  <2>. HIDE DEF v
  <2>4. \A b \in Words : (b \in 117 .. 118 <=> b = 117 \/ b = 118)
    BY DEF Words
  <2>5. mem' = [b \in Words |-> IF b \in 117 .. 118 THEN v[119 - b] ELSE mem[b]]
    BY <2>2, <2>3 DEF PushAll
  <2>6. \A b \in Words : (IF b \in 117 .. 118 THEN v[119 - b] ELSE mem[b])
          = IF b = 118 THEN reg["rbp"] ELSE IF b = 117 THEN reg["rbx"] ELSE mem[b]
    <3>1. v[119 - 118] = reg["rbp"] /\ v[119 - 117] = reg["rbx"]
      BY ONLY <2>2
    <3>. QED  BY ONLY <2>4, <3>1
  <2>. QED  BY <2>5, <2>6
<1>6. reg["rbp"] \in Int /\ reg["rbx"] \in Int /\ reg["rcx"] \in Int
  BY <1>3, Names DEF Regs
<1>7. /\ mem' \in [Words -> Int] /\ mem'[119] = 17 /\ mem'[118] = reg["rbp"] /\ mem'[117] = reg["rbx"]
      /\ \A b \in 120 .. 129 : mem'[b] = mem[b]
  BY <1>3, <1>4, <1>5, <1>6 DEF Words
<1>8. reg' = [x \in Registers |->
               CASE x = "rbx"           -> reg["rcx"]
                 [] x = "rsp"           -> 117
                 [] x = "rip"           -> 21
                 [] x \in CallerSaved \union {"rbp"} -> 800 + IndexIn(Layout, x)
                 [] OTHER               -> reg[x]]
  BY <1>4 DEF EntryBody, EntryRip
<1>9. /\ "rbx" \notin CallerSaved /\ "rsp" \notin CallerSaved /\ "rip" \notin CallerSaved
  BY DEF CallerSaved
<1>10. \A x \in Registers : IndexIn(Layout, x) \in Int
  BY LayoutIndex
<1>11. ASSUME NEW x \in Registers PROVE reg'[x] \in Int
  <2>1. CASE x \in CallerSaved \union {"rbp"}
    <3>1. reg'[x] = 800 + IndexIn(Layout, x)
      BY <1>8, <1>9, <2>1
    <3>. QED  BY <1>10, <3>1
  <2>2. CASE x \notin CallerSaved \union {"rbp"}
    BY <1>3, <1>6, <1>8, <2>2 DEF Regs
  <2>. QED  BY <2>1, <2>2
<1>12. reg' \in Regs
  BY <1>8, <1>11 DEF Regs
<1>13. /\ reg'["rbx"] = reg["rcx"] /\ reg'["rsp"] = 117 /\ reg'["rip"] = 21
       /\ \A x \in {"cs", "ss", "rflags", "r12", "r13", "r14", "r15"} : reg'[x] = reg[x]
  BY <1>8, <1>9, Names DEF CallerSaved
<1>14. KernelState(reg') /\ Untouched(reg', e)
  BY <1>3, <1>13 DEF KernelState, Untouched
<1>15. Saved(mem', e, a["rax"])
  BY <1>4, <1>7 DEF Saved
<1>16. reg'["rbx"] = e["rax"]
  BY <1>3, <1>4, <1>13 DEF Loaded, Answered
<1>17. InEntry(reg', mem', e, a)
  BY <1>4, <1>7, <1>13, <1>15, <1>16 DEF InEntry, SameB
<1>18. TaskState(current, reg', mem', expect[current], asked[current])
  BY <1>3, <1>14, <1>17 DEF TaskState, SyscallState, e, a
<1>. QED  BY <1>1, <1>2, <1>7, <1>12, <1>18, SyscallStep

LEMMA EntryReturnStep ==
  ASSUME RInv, OneCaller, EntryReturn
  PROVE  RInv'
<1>. DEFINE e == expect[current]  a == asked[current]
            pops == <<"rbx", "rbp", "rip">>  r == PopAll(mem, 117, pops, reg)
<1>1. ~isr /\ reg["rip"] = 21 /\ reg["rip"] \in 10 .. 21
  BY DEF EntryReturn, At, EntryRip
<1>2. UNCHANGED <<isr, user_rsp_temp, sched_vars, entered, asked, expect, cut>>
  BY DEF EntryReturn
<1>3. /\ current \in Callers /\ reg \in Regs /\ mem \in [Words -> Int]
      /\ KernelState(reg) /\ Untouched(reg, e) /\ UserState(current, e) /\ Answered(e, a)
      /\ InEntry(reg, mem, e, a)
  BY <1>1, InSyscall
<1>. HIDE DEF e, a
<1>4. /\ reg["rsp"] = 117 /\ mem[119] = 17 /\ mem[117] = e["rbx"] /\ mem[118] = e["rbp"]
      /\ reg["rbx"] = e["rax"] /\ Saved(mem, e, a["rax"])
  BY <1>3 DEF InEntry
<1>5. DOMAIN pops = 1 .. 3 /\ pops[1] = "rbx" /\ pops[2] = "rbp" /\ pops[3] = "rip"
  OBVIOUS
<1>6. reg' = [r EXCEPT !["rax"] = reg["rbx"], !["rsp"] = 120] /\ mem' = Dropped(mem, 117, 3)
  BY <1>4 DEF EntryReturn
<1>. HIDE DEF pops
<1>7. \A i \in 1 .. 3 : i = 1 \/ i = 2 \/ i = 3
  OBVIOUS
<1>8. IndexIn(pops, "rbx") = 1 /\ IndexIn(pops, "rbp") = 2 /\ IndexIn(pops, "rip") = 3
  BY <1>5, <1>7 DEF IndexIn
<1>9. Range(pops) = {"rbx", "rbp", "rip"}
  BY <1>5, <1>7 DEF Range
<1>10. r = [x \in Registers |->
             IF x \in {"rbx", "rbp", "rip"} THEN mem[117 + IndexIn(pops, x) - 1] ELSE reg[x]]
  BY <1>9 DEF PopAll
<1>. HIDE DEF r
<1>11. mem[117] \in Int /\ mem[118] \in Int /\ reg["rbx"] \in Int
  BY <1>3, Names DEF Words, Regs
<1>12. r["rbx"] = mem[117] /\ r["rbp"] = mem[118] /\ r["rip"] = 17
       /\ \A x \in Registers \ {"rbx", "rbp", "rip"} : r[x] = reg[x]
  BY <1>4, <1>8, <1>10, Names
<1>13. r \in Regs
  <2>1. \A x \in Registers : r[x] \in Int
    BY <1>3, <1>11, <1>12 DEF Regs
  <2>. QED  BY <1>10, <2>1 DEF Regs
<1>14. /\ reg' \in Regs /\ reg'["rax"] = e["rax"] /\ reg'["rsp"] = 120 /\ reg'["rip"] = 17
       /\ reg'["rbx"] = e["rbx"] /\ reg'["rbp"] = e["rbp"]
       /\ \A x \in Registers \ {"rax", "rsp", "rbx", "rbp", "rip"} : reg'[x] = reg[x]
  <2>1. /\ reg' \in Regs /\ reg'["rax"] = reg["rbx"] /\ reg'["rsp"] = 120
        /\ \A x \in Registers \ {"rax", "rsp"} : reg'[x] = r[x]
    BY <1>6, <1>11, <1>13, Names DEF Regs
  <2>. QED  BY <1>4, <1>12, <2>1, Names
<1>15. mem' \in [Words -> Int] /\ \A b \in 120 .. 129 : mem'[b] = mem[b]
  BY <1>3, <1>6 DEF Dropped, Words
<1>16. KernelState(reg') /\ Untouched(reg', e) /\ SameB(reg', e)
  BY <1>3, <1>14, Names DEF KernelState, Untouched, SameB
<1>17. Saved(mem', e, a["rax"])
  BY <1>4, <1>15 DEF Saved
<1>18. AtReturn(reg', mem', e, a)
  BY <1>14, <1>16, <1>17 DEF AtReturn
<1>19. TaskState(current, reg', mem', expect[current], asked[current])
  BY <1>3, <1>16, <1>18 DEF TaskState, SyscallState, e, a
<1>. QED  BY <1>1, <1>2, <1>14, <1>15, <1>19, SyscallStep

LEMMA StoreResultStep ==
  ASSUME RInv, OneCaller, StoreResult
  PROVE  RInv'
<1>. DEFINE e == expect[current]  a == asked[current]
<1>1. ~isr /\ reg["rip"] = 17 /\ reg["rip"] \in 10 .. 21
  BY DEF StoreResult, At, ReturnRip
<1>2. UNCHANGED <<isr, user_rsp_temp, sched_vars, entered, asked, expect, cut>>
  BY DEF StoreResult
<1>3. /\ current \in Callers /\ reg \in Regs /\ mem \in [Words -> Int]
      /\ KernelState(reg) /\ Untouched(reg, e) /\ UserState(current, e) /\ Answered(e, a)
      /\ AtReturn(reg, mem, e, a)
  BY <1>1, InSyscall
<1>. HIDE DEF e, a
<1>4. reg["rsp"] = 120 /\ reg["rax"] = e["rax"] /\ SameB(reg, e) /\ Saved(mem, e, a["rax"])
  BY <1>3 DEF AtReturn
<1>5. mem' = [mem EXCEPT ![126] = reg["rax"]] /\ reg' = [reg EXCEPT !["rip"] = 18]
  BY <1>4 DEF StoreResult, ReturnRip
<1>6. reg["rax"] \in Int
  BY <1>3, Names DEF Regs
<1>7. /\ mem' \in [Words -> Int] /\ mem'[126] = e["rax"]
      /\ \A b \in 120 .. 129 : b # 126 => mem'[b] = mem[b]
  BY <1>3, <1>4, <1>5, <1>6 DEF Words
<1>8. /\ reg' \in Regs /\ reg'["rip"] = 18 /\ \A x \in Registers \ {"rip"} : reg'[x] = reg[x]
  BY <1>3, <1>5, Names DEF Regs
<1>9. KernelState(reg') /\ Untouched(reg', e) /\ SameB(reg', e) /\ reg'["rsp"] = 120
  BY <1>3, <1>4, <1>8, Names DEF KernelState, Untouched, SameB
<1>10. Saved(mem', e, e["rax"])
  BY <1>4, <1>7 DEF Saved
<1>11. AtStored(reg', mem', e)
  BY <1>8, <1>9, <1>10 DEF AtStored
<1>12. TaskState(current, reg', mem', expect[current], asked[current])
  BY <1>3, <1>9, <1>11 DEF TaskState, SyscallState, e, a
<1>. QED  BY <1>1, <1>2, <1>7, <1>8, <1>12, SyscallStep

SyscallPops == <<"r9", "r8", "r10", "rdx", "rsi", "rdi", "rax">>

LEMMA SyscallPopOrder ==
  /\ Range(SyscallPops) = {"r9", "r8", "r10", "rdx", "rsi", "rdi", "rax"}
  /\ IndexIn(SyscallPops, "r9") = 1 /\ IndexIn(SyscallPops, "r8") = 2
  /\ IndexIn(SyscallPops, "r10") = 3 /\ IndexIn(SyscallPops, "rdx") = 4
  /\ IndexIn(SyscallPops, "rsi") = 5 /\ IndexIn(SyscallPops, "rdi") = 6
  /\ IndexIn(SyscallPops, "rax") = 7
<1>1. /\ DOMAIN SyscallPops = 1 .. 7
      /\ SyscallPops[1] = "r9" /\ SyscallPops[2] = "r8" /\ SyscallPops[3] = "r10"
      /\ SyscallPops[4] = "rdx" /\ SyscallPops[5] = "rsi" /\ SyscallPops[6] = "rdi"
      /\ SyscallPops[7] = "rax"
  BY DEF SyscallPops
<1>2. \A i \in 1 .. 7 : i = 1 \/ i = 2 \/ i = 3 \/ i = 4 \/ i = 5 \/ i = 6 \/ i = 7
  OBVIOUS
<1>3. Range(SyscallPops) = {"r9", "r8", "r10", "rdx", "rsi", "rdi", "rax"}
  BY <1>1, <1>2 DEF Range
<1>4. IndexIn(SyscallPops, "r9") = 1
  BY <1>1, <1>2 DEF IndexIn
<1>5. IndexIn(SyscallPops, "r8") = 2
  BY <1>1, <1>2 DEF IndexIn
<1>6. IndexIn(SyscallPops, "r10") = 3
  BY <1>1, <1>2 DEF IndexIn
<1>7. IndexIn(SyscallPops, "rdx") = 4
  BY <1>1, <1>2 DEF IndexIn
<1>8. IndexIn(SyscallPops, "rsi") = 5
  BY <1>1, <1>2 DEF IndexIn
<1>9. IndexIn(SyscallPops, "rdi") = 6
  BY <1>1, <1>2 DEF IndexIn
<1>10. IndexIn(SyscallPops, "rax") = 7
  BY <1>1, <1>2 DEF IndexIn
<1>. QED  BY <1>3, <1>4, <1>5, <1>6, <1>7, <1>8, <1>9, <1>10

LEMMA SyscallReturnStep ==
  ASSUME RInv, OneCaller, SyscallReturn
  PROVE  RInv'
<1>. DEFINE e == expect[current]  a == asked[current]
            r == PopAll(mem, 120, SyscallPops, reg)
            popped == {"r9", "r8", "r10", "rdx", "rsi", "rdi", "rax"}
<1>1. ~isr /\ reg["rip"] = 18 /\ reg["rip"] \in 10 .. 21
  BY DEF SyscallReturn, At, ReturnRip
<1>2. UNCHANGED <<isr, user_rsp_temp, sched_vars, entered, asked, expect, cut>>
  BY DEF SyscallReturn
<1>3. /\ reg \in Regs /\ mem \in [Words -> Int] /\ e \in Regs
      /\ Untouched(reg, e) /\ UserState(current, e) /\ Answered(e, a) /\ AtStored(reg, mem, e)
  BY <1>1, InSyscall
<1>. HIDE DEF e, a
<1>4. reg["rsp"] = 120 /\ SameB(reg, e) /\ Saved(mem, e, e["rax"])
  BY <1>3 DEF AtStored
<1>5. /\ reg' = [r EXCEPT !["r11"] = mem[128], !["rcx"] = mem[129], !["rsp"] = mem[127],
                          !["rip"] = mem[129], !["rflags"] = mem[128],
                          !["cs"] = Ring3(sysret_base + 16), !["ss"] = Ring3(sysret_base + 8)]
      /\ mem' = Dropped(mem, 120, 10)
  BY <1>4 DEF SyscallReturn, SyscallPops
<1>6. r = [x \in Registers |->
             IF x \in popped THEN mem[120 + IndexIn(SyscallPops, x) - 1] ELSE reg[x]]
  BY SyscallPopOrder DEF PopAll
<1>. HIDE DEF r
<1>7. /\ r["r9"] = mem[120] /\ r["r8"] = mem[121] /\ r["r10"] = mem[122] /\ r["rdx"] = mem[123]
      /\ r["rsi"] = mem[124] /\ r["rdi"] = mem[125] /\ r["rax"] = mem[126]
  BY <1>6, SyscallPopOrder, Names
<1>8. /\ r["rbx"] = reg["rbx"] /\ r["rbp"] = reg["rbp"] /\ r["r12"] = reg["r12"]
      /\ r["r13"] = reg["r13"] /\ r["r14"] = reg["r14"] /\ r["r15"] = reg["r15"]
  BY <1>6, Names
<1>9. /\ reg'["r11"] = mem[128] /\ reg'["rcx"] = mem[129] /\ reg'["rsp"] = mem[127]
      /\ reg'["rip"] = mem[129] /\ reg'["rflags"] = mem[128] /\ reg'["cs"] = 35 /\ reg'["ss"] = 27
      /\ DOMAIN reg' = Registers /\ reg' = [x \in Registers |-> reg'[x]]
      /\ \A x \in Registers \ {"r11", "rcx", "rsp", "rip", "rflags", "cs", "ss"} : reg'[x] = r[x]
  <2>1. r = [x \in Registers |-> r[x]] /\ DOMAIN r = Registers
    BY <1>6
  <2>2. reg' = [x \in Registers |->
                 CASE x = "r11" \/ x = "rflags" -> mem[128]
                   [] x = "rcx" \/ x = "rip" -> mem[129]
                   [] x = "rsp" -> mem[127]
                   [] x = "cs" -> 35
                   [] x = "ss" -> 27
                   [] OTHER -> r[x]]
    BY <1>5, <2>1, Selectors
  <2>. QED  BY <2>2, Names
<1>10. /\ reg'["r15"] = e["r15"] /\ reg'["r14"] = e["r14"] /\ reg'["r13"] = e["r13"]
       /\ reg'["r12"] = e["r12"] /\ reg'["rbp"] = e["rbp"] /\ reg'["rbx"] = e["rbx"]
  <2>1. /\ reg'["r15"] = r["r15"] /\ reg'["r14"] = r["r14"] /\ reg'["r13"] = r["r13"]
        /\ reg'["r12"] = r["r12"] /\ reg'["rbp"] = r["rbp"] /\ reg'["rbx"] = r["rbx"]
    BY ONLY <1>9, Names
  <2>. QED  BY ONLY <1>3, <1>4, <1>8, <2>1 DEF Untouched, SameB
<1>11. /\ reg'["r9"] = e["r9"] /\ reg'["r8"] = e["r8"] /\ reg'["r10"] = e["r10"]
       /\ reg'["rdx"] = e["rdx"] /\ reg'["rsi"] = e["rsi"] /\ reg'["rdi"] = e["rdi"]
       /\ reg'["rax"] = e["rax"]
  <2>1. /\ reg'["r9"] = r["r9"] /\ reg'["r8"] = r["r8"] /\ reg'["r10"] = r["r10"]
        /\ reg'["rdx"] = r["rdx"] /\ reg'["rsi"] = r["rsi"] /\ reg'["rdi"] = r["rdi"]
        /\ reg'["rax"] = r["rax"]
    BY ONLY <1>9, Names
  <2>. QED  BY ONLY <1>4, <1>7, <2>1 DEF Saved
<1>12. /\ reg'["r11"] = e["r11"] /\ reg'["rcx"] = e["rcx"] /\ reg'["rsp"] = e["rsp"]
       /\ reg'["rip"] = e["rip"] /\ reg'["rflags"] = e["rflags"]
  BY <1>3, <1>4, <1>9 DEF Saved, Answered
<1>13. reg'["cs"] = e["cs"] /\ reg'["ss"] = e["ss"]
  BY <1>3, <1>9 DEF UserState
<1>14. reg' = e
  <2>1. \A x \in Registers : reg'[x] = e[x]
    BY <1>10, <1>11, <1>12, <1>13, TwentyRegisters DEF GeneralNames, IretqNames
  <2>. QED  BY <1>3, <1>9, <2>1 DEF Regs
<1>15. mem' \in [Words -> Int]
  BY <1>3, <1>5 DEF Dropped
<1>16. TaskState(current, reg', mem', expect[current], asked[current])
  BY <1>3, <1>14 DEF TaskState, e, a
<1>. QED  BY <1>1, <1>2, <1>3, <1>14, <1>15, <1>16, SyscallStep
-----------------------------------------------------------------------------
(***************************************************************************)
(* The theorems.                                                           *)
(***************************************************************************)
LEMMA InitInvariant == Init => RInv
<1>. SUFFICES ASSUME Init PROVE RInv
  OBVIOUS
<1>1. N \in Nat /\ N >= 1 /\ \A t \in Tasks : t \in Int /\ t >= 0
  BY RegistersAssumption DEF Tasks
<1>2. 0 \in Tasks /\ Boot \notin Tasks
  BY <1>1 DEF Tasks, Boot
<1>3. \A t \in Tasks :
        /\ new_user(t) \in Regs /\ new_user(t)["cs"] = 35 /\ new_user(t)["ss"] = 27
        /\ new_user(t)["rflags"] = 512 /\ new_user(t)["rip"] = UserRip(t)
  <2>. SUFFICES ASSUME NEW t \in Tasks
                PROVE  /\ new_user(t) \in Regs /\ new_user(t)["cs"] = 35 /\ new_user(t)["ss"] = 27
                       /\ new_user(t)["rflags"] = 512 /\ new_user(t)["rip"] = UserRip(t)
    OBVIOUS
  <2>1. new_user(t) = [x \in Registers |->
          CASE x = "rip" -> UserRip(t) [] x = "cs" -> 35 [] x = "rflags" -> 512
            [] x = "rsp" -> 1000 + 100 * t [] x = "ss" -> 27 [] OTHER -> 0]
    BY Selectors DEF new_user, IntFlag
  <2>2. UserRip(t) \in Int /\ 1000 + 100 * t \in Int
    BY <1>1 DEF UserRip
  <2>3. \A x \in Registers : new_user(t)[x] \in Int
    BY <2>1, <2>2
  <2>. QED  BY <2>1, <2>3, Names DEF Regs
<1>4. \A t \in Tasks : UserState(t, new_user(t))
  BY <1>1, <1>3 DEF UserState, UserRip
<1>5. /\ reg \in Regs /\ reg["rip"] = 1 /\ reg["cs"] = 8 /\ reg["rflags"] = 512 /\ reg["rsp"] = 39
      /\ reg["ss"] = 16
  <2>1. reg = [x \in Registers |->
          CASE x = "rip" -> 1 [] x = "cs" -> 8 [] x = "rflags" -> 512
            [] x = "rsp" -> 39 [] x = "ss" -> 16 [] OTHER -> 900 + IndexIn(Layout, x)]
    BY Selectors DEF Init, BootRip, IntFlag, BootTop
  <2>2. \A x \in Registers : 900 + IndexIn(Layout, x) \in Int
    BY LayoutIndex
  <2>3. \A x \in Registers : reg[x] \in Int
    BY <2>1, <2>2
  <2>. QED  BY <2>1, <2>3, Names DEF Regs
<1>6. /\ contexts = [t \in Tasks |-> new_user(t)] /\ expect = contexts /\ asked = contexts
      /\ ~isr /\ ~entered /\ initialized = FALSE /\ current = 0 /\ len \in 1 .. N
      /\ cut = [t \in Tasks \union {Boot} |-> IF t = Boot THEN reg ELSE contexts[t]]
  BY DEF Init
<1>7. \A t \in Tasks : contexts[t] = new_user(t)
  BY <1>6
<1>8. TypeOK
  <2>1. contexts \in [Tasks -> Regs] /\ expect \in [Tasks -> Regs] /\ asked \in [Tasks -> Regs]
    BY <1>3, <1>6
  <2>2. cut \in [Tasks \union {Boot} -> Regs]
    BY <1>5, <1>6, <2>1
  <2>3. mem \in [Words -> Int] /\ isr \in BOOLEAN /\ user_rsp_temp \in Int
        /\ initialized \in BOOLEAN /\ entered \in BOOLEAN
    <3>1. mem \in [Words -> Int] /\ user_rsp_temp \in Int
      BY DEF Init
    <3>2. isr = FALSE /\ initialized = FALSE /\ entered = FALSE
      BY DEF Init
    <3>3. isr \in BOOLEAN /\ initialized \in BOOLEAN /\ entered \in BOOLEAN
      BY ONLY <3>2
    <3>. QED  BY <3>1, <3>3
  <2>4. current \in 0 .. len - 1
    BY <1>1, <1>6
  <2>. QED  BY <1>5, <1>6, <2>1, <2>2, <2>3, <2>4 DEF TypeOK
<1>9. TasksOK
  <2>1. \A t \in Tasks : StateOf(t) = contexts[t]
    BY <1>6 DEF StateOf
  <2>2. \A t \in Tasks : UserState(t, contexts[t]) /\ contexts[t] = expect[t]
    BY <1>4, <1>6, <1>7
  <2>. QED  BY <2>1, <2>2 DEF TasksOK, TaskState
<1>10. CutOK
  BY <1>2, <1>6 DEF CutOK
<1>11. BootOK
  <2>1. UserMode(contexts[0])
    BY <1>2, <1>3, <1>7 DEF UserMode
  <2>2. Running = reg
    BY <1>6 DEF Running
  <2>3. BootState(Running) /\ (initialized = (Running["rip"] = 2))
    <3>1. BootState(reg)
      BY <1>5 DEF BootState
    <3>2. (reg["rip"] = 2) = FALSE /\ initialized = FALSE
      BY <1>5, <1>6
    <3>. QED  BY <2>2, <3>1, <3>2
  <2>. QED  BY <1>6, <2>1, <2>3 DEF BootOK
<1>12. FrameOK
  BY <1>6 DEF FrameOK
<1>. QED  BY <1>8, <1>9, <1>10, <1>11, <1>12 DEF RInv

LEMMA StutterInvariant == RInv /\ UNCHANGED vars => RInv'
<1>. SUFFICES ASSUME RInv, UNCHANGED vars PROVE RInv'
  OBVIOUS
<1>1. /\ reg' = reg /\ mem' = mem /\ isr' = isr /\ user_rsp_temp' = user_rsp_temp
      /\ contexts' = contexts /\ len' = len /\ current' = current /\ initialized' = initialized
      /\ entered' = entered /\ asked' = asked /\ expect' = expect /\ cut' = cut
  BY DEF vars, sched_vars
<1>2. TypeOK'
  BY <1>1 DEF RInv, TypeOK
<1>3. Thread' = Thread
  BY <1>1 DEF Thread
<1>4. Running' = Running
  BY <1>1, <1>3 DEF Running
<1>5. \A t : StateOf(t)' = StateOf(t)
  BY <1>1, <1>4 DEF StateOf
<1>6. TasksOK' /\ CutOK'
  BY <1>1, <1>5 DEF RInv, TasksOK, CutOK
<1>7. BootOK'
  BY <1>1, <1>4 DEF RInv, BootOK
<1>8. FrameOK'
  BY <1>1, <1>4 DEF RInv, FrameOK
<1>. QED  BY <1>2, <1>6, <1>7, <1>8 DEF RInv

LEMMA NextInvariant ==
  ASSUME OneCaller, Quiet, RInv, Next
  PROVE  RInv'
<1>1. CASE Start
  BY <1>1, StartStep
<1>2. CASE switch_to_first_task
  BY <1>2, FirstStep
<1>3. ASSUME NEW gen \in Gens, UserCompute(gen) PROVE RInv'
  BY <1>3, UserComputeStep
<1>4. CASE SyscallEntry
  BY <1>4, SyscallEntryStep
<1>5. CASE LoadArgument
  BY <1>5, LoadArgumentStep
<1>6. CASE CallEntry
  BY <1>6, CallEntryStep
<1>7. CASE EntryBody
  BY <1>7, EntryBodyStep
<1>8. CASE EntryReturn
  BY <1>8, EntryReturnStep
<1>9. CASE StoreResult
  BY <1>9, StoreResultStep
<1>10. CASE SyscallReturn
  BY <1>10, SyscallReturnStep
<1>11. CASE TimerInterrupt
  BY <1>11, TimerInterruptStep
<1>12. CASE Switch
  BY <1>12, SwitchStep
<1>13. CASE NoSwitch
  BY <1>13, NoSwitchStep
<1>. QED
  BY <1>1, <1>2, <1>3, <1>4, <1>5, <1>6, <1>7, <1>8, <1>9, <1>10, <1>11, <1>12, <1>13 DEF Next

\* The stack pointer that timer_interrupt_entry calls timer_tick with is a
\* multiple of 16 bytes, and one word below that at syscall_entry's first
\* instruction; the loads before it have put the arguments in place.
LEMMA CallsOfInvariant == RInv => CallsWellFormed
<1>. SUFFICES ASSUME RInv PROVE CallsWellFormed
  OBVIOUS
<1>1. isr => reg["rsp"] % 2 = 0
  <2>1. isr => reg["rsp"] = FrameOf(Running)
    BY DEF RInv, FrameOK
  <2>2. FrameOf(Running) \in {18, 60, 96, 98, 100}
    BY FrameSpot
  <2>3. \A q \in {18, 60, 96, 98, 100} : q % 2 = 0
    OBVIOUS
  <2>. QED  BY <2>1, <2>2, <2>3
<1>2. ASSUME At(EntryRip)
      PROVE  /\ ValuesOf(reg, <<"rdi", "rsi", "rdx", "rcx", "r8", "r9">>)
                  = ValuesOf(asked[current], <<"rax", "rdi", "rsi", "rdx", "r10", "r8">>)
             /\ reg["rsp"] % 2 = 1
  <2>. DEFINE a == asked[current]
              p == <<"rdi", "rsi", "rdx", "rcx", "r8", "r9">>
              q == <<"rax", "rdi", "rsi", "rdx", "r10", "r8">>
  <2>1. ~isr /\ reg["rip"] = 20 /\ reg["rip"] \in 10 .. 21
    BY <1>2 DEF At, EntryRip
  <2>2. AtEntry(reg, mem, expect[current], a)
    BY <2>1, InSyscall
  <2>. HIDE DEF a
  <2>3. reg["rsp"] = 119 /\ Loaded(reg, a, 6)
    BY <2>2 DEF AtEntry
  <2>4. /\ reg["rdi"] = a["rax"] /\ reg["rsi"] = a["rdi"] /\ reg["rdx"] = a["rsi"]
        /\ reg["rcx"] = a["rdx"] /\ reg["r8"] = a["r10"] /\ reg["r9"] = a["r8"]
    BY <2>3 DEF Loaded
  <2>5. /\ DOMAIN p = 1 .. 6 /\ p[1] = "rdi" /\ p[2] = "rsi" /\ p[3] = "rdx" /\ p[4] = "rcx"
        /\ p[5] = "r8" /\ p[6] = "r9"
    OBVIOUS
  <2>6. /\ DOMAIN q = 1 .. 6 /\ q[1] = "rax" /\ q[2] = "rdi" /\ q[3] = "rsi" /\ q[4] = "rdx"
        /\ q[5] = "r10" /\ q[6] = "r8"
    OBVIOUS
  <2>. HIDE DEF p, q
  <2>7. \A i \in 1 .. 6 : i = 1 \/ i = 2 \/ i = 3 \/ i = 4 \/ i = 5 \/ i = 6
    OBVIOUS
  <2>8. \A i \in 1 .. 6 : reg[p[i]] = a[q[i]]
    BY <2>4, <2>5, <2>6, <2>7
  <2>9. ValuesOf(reg, p) = ValuesOf(a, q)
    BY <2>5, <2>6, <2>8 DEF ValuesOf
  <2>. QED  BY <2>3, <2>9 DEF a, p, q
<1>. QED  BY <1>1, <1>2 DEF CallsWellFormed

\* Only the end of a tick leaves the interrupt handler, and it gives back the
\* registers the thread was interrupted with.
LEMMA ResumeOfInvariant ==
  ASSUME OneCaller, RInv, [Next]_vars, isr, ~isr'
  PROVE  reg' = cut[Thread']
<1>1. Switch \/ NoSwitch
  <2>1. ~Start /\ ~switch_to_first_task
    BY DEF Start, switch_to_first_task, At
  <2>2. \A gen \in Gens : ~UserCompute(gen)
    BY DEF UserCompute
  <2>3. ~SyscallEntry /\ ~LoadArgument /\ ~CallEntry /\ ~EntryBody /\ ~EntryReturn
        /\ ~StoreResult /\ ~SyscallReturn
    BY DEF SyscallEntry, LoadArgument, CallEntry, EntryBody, EntryReturn, StoreResult,
           SyscallReturn, At
  <2>4. ~TimerInterrupt
    BY DEF TimerInterrupt
  <2>5. ~UNCHANGED vars
    BY DEF vars
  <2>. QED  BY <2>1, <2>2, <2>3, <2>4, <2>5 DEF Next
<1>. QED  BY <1>1, SwitchStep, NoSwitchStep

\* The registers of every task, of the boot thread and of an interrupted
\* thread are where the entry code of ticks and syscalls has put them.
THEOREM RegistersInvariant ==
  ASSUME OneCaller, Quiet
  PROVE  Spec => []RInv
<1>1. RInv /\ [Next]_vars => RInv'
  BY NextInvariant, StutterInvariant
<1>. QED  BY <1>1, InitInvariant, PTL DEF Spec

\* syscall.rs, switch.rs: whenever a user program runs, every register is as the
\* program left it, for any number of tasks, whatever ticks, switches and
\* syscalls came in between; at most one task makes syscalls, and the timer
\* does not strike between start() and the first task unless there is one only.
THEOREM RegistersAreKept ==
  ASSUME OneCaller, Quiet
  PROVE  Spec => []UserRegistersKept
<1>1. RInv => UserRegistersKept
  BY WhoRuns DEF UserRegistersKept
<1>. QED  BY <1>1, RegistersInvariant, PTL

\* syscall.rs: syscall_entry is called with the caller's number and first five
\* arguments, and Rust code on an aligned stack, under the same hypotheses.
THEOREM CallsAreWellFormed ==
  ASSUME OneCaller, Quiet
  PROVE  Spec => []CallsWellFormed
<1>. QED  BY CallsOfInvariant, RegistersInvariant, PTL

\* switch.rs: an iretq gives back exactly the registers that the thread had when
\* it was last interrupted, under the same hypotheses.
THEOREM TicksResumeExactly ==
  ASSUME OneCaller, Quiet
  PROVE  Spec => ResumesExactly
<1>1. RInv /\ [Next]_vars => [isr /\ ~isr' => reg' = cut[Thread']]_vars
  BY ResumeOfInvariant
<1>. QED  BY <1>1, RegistersInvariant, PTL DEF Spec, ResumesExactly
=============================================================================
