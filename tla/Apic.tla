-------------------------------- MODULE Apic --------------------------------
(***************************************************************************)
(* How a byte of the keyboard or the mouse reaches its handler             *)
(* (drivers/apic.rs, interrupts.rs, drivers/keyboard.rs, drivers/mouse.rs):*)
(* the register writes of apic::init, one at a time, while the devices     *)
(* are already live; the IDT; the handlers, which read the one port both   *)
(* devices share. Hardware: a line is edge triggered, an edge that meets a *)
(* masked entry or a disabled local APIC is lost, and the controller       *)
(* raises a line once for each byte in its one-byte buffer. The 8259s are  *)
(* masked and drive neither LINT0 nor LINT1.                               *)
(***************************************************************************)
EXTENDS Integers, Sequences, FiniteSetsExt

VARIABLES
  step,         \* next step of Program
  select,       \* the I/O APIC's register select
  redirection,  \* its redirection table, two registers per line
  lapic,        \* registers of the local APIC
  lapic_addr,   \* LAPIC_ADDR has been set
  buffer,       \* the device whose byte is in the controller's buffer
  pending,      \* vectors the local APIC has accepted
  handler,      \* the handler that runs, if any
  lost          \* ghost: the byte in the buffer came before its route existed

apic_vars == <<step, select, redirection, lapic, lapic_addr, buffer, pending, handler, lost>>

InputDevices   == {"keyboard", "mouse"}
InterruptIndex == [keyboard |-> 33, timer |-> 32, mouse |-> 44]

\* IDT, as interrupts.rs fills it; any other vector has no handler.
IDT(vector) ==
  IF \E h \in DOMAIN InterruptIndex : InterruptIndex[h] = vector
  THEN CHOOSE h \in DOMAIN InterruptIndex : InterruptIndex[h] = vector
  ELSE "fault"

Masked    == 2^16
Line      == [keyboard |-> 1, mouse |-> 12]
LowOf(l)  == 16 + 2 * l
Bit(v, n) == (v \div 2^n) % 2

Write(to, at, value) == [to |-> to, at |-> at, value |-> value]

init_io_apic_MouseByLine ==
  <<Write("io", 0, 18), Write("io", 4, InterruptIndex.keyboard),
    Write("io", 0, 19), Write("io", 4, 0),
    Write("io", 0, 28), Write("io", 4, InterruptIndex.mouse),
    Write("io", 0, 29), Write("io", 4, 0)>>

\* Register select (offset 0) and data (offset 4): entries 1 and 12.
init_io_apic ==
  <<Write("io", 0, 18), Write("io", 4, InterruptIndex.keyboard),
    Write("io", 0, 19), Write("io", 4, 0),
    Write("io", 0, 40), Write("io", 4, InterruptIndex.mouse),
    Write("io", 0, 41), Write("io", 4, 0)>>

\* init_timer (a read-modify-write of Svr first), init_keyboard, init_mouse.
init_local_apic ==
  <<Write("address", 0, 0),
    Write("enable", "Svr", 256),
    Write("local", "LvtT", 32 + 2^17),
    Write("local", "Tdcr", 3),
    Write("local", "Ticr", 2500000),
    Write("local", "LvtLint1", InterruptIndex.keyboard),
    Write("local", "LvtLint0", InterruptIndex.mouse)>>

\* apic::init, and interrupts::enable() in main.
Program ==
  <<Write("map", 0, 0)>> \o init_io_apic \o <<Write("map", 0, 0)>> \o init_local_apic
    \o <<Write("sti", 0, 0)>>

Enabled == step > Len(Program)
At(to)  == step <= Len(Program) /\ Program[step].to = to
-----------------------------------------------------------------------------
Init ==
  /\ step = 1 /\ select = 0
  /\ redirection = [r \in 16 .. 47 |-> IF r % 2 = 0 THEN Masked ELSE 0]
  /\ \E svr \in {255, 511} :
       lapic = [Svr |-> svr, LvtT |-> Masked, Tdcr |-> 0, Ticr |-> 0,
                LvtLint0 |-> Masked, LvtLint1 |-> Masked]
  /\ lapic_addr = FALSE
  /\ buffer = "none" /\ pending = {} /\ handler = "none" /\ lost = FALSE

\* map_apic has returned.
Mapped ==
  /\ At("map")
  /\ step' = step + 1
  /\ UNCHANGED <<select, redirection, lapic, lapic_addr, buffer, pending, handler, lost>>

WriteIo ==
  /\ At("io")
  /\ LET w == Program[step]
     IN  IF w.at = 0
         THEN select' = w.value /\ UNCHANGED redirection
         ELSE redirection' = [redirection EXCEPT ![select] = w.value] /\ UNCHANGED select
  /\ step' = step + 1
  /\ UNCHANGED <<lapic, lapic_addr, buffer, pending, handler, lost>>

SetAddress ==
  /\ At("address")
  /\ lapic_addr' = TRUE
  /\ step' = step + 1
  /\ UNCHANGED <<select, redirection, lapic, buffer, pending, handler, lost>>

WriteLocal ==
  /\ At("local") \/ At("enable")
  /\ LET w == Program[step]
     IN  lapic' = [lapic EXCEPT ![w.at] =
                     IF w.to = "local" THEN w.value
                     ELSE IF Bit(@, 8) = 1 THEN @ ELSE @ + w.value]
  /\ step' = step + 1
  /\ UNCHANGED <<select, redirection, lapic_addr, buffer, pending, handler, lost>>

EnableInterrupts ==
  /\ At("sti")
  /\ step' = step + 1
  /\ UNCHANGED <<select, redirection, lapic, lapic_addr, buffer, pending, handler, lost>>
-----------------------------------------------------------------------------
\* A device puts a byte into the empty buffer and its line rises.
Byte(device) ==
  /\ buffer = "none"
  /\ buffer' = device
  /\ LET entry == redirection[LowOf(Line[device])]
     IN  IF Bit(entry, 16) = 1 \/ Bit(lapic.Svr, 8) = 0
         THEN lost' = TRUE /\ UNCHANGED pending
         ELSE pending' = pending \union {entry % 256} /\ UNCHANGED lost
  /\ UNCHANGED <<step, select, redirection, lapic, lapic_addr, handler>>

\* The timer counts once it is programmed.
TimerExpires ==
  /\ lapic.Ticr > 0 /\ Bit(lapic.LvtT, 16) = 0 /\ Bit(lapic.Svr, 8) = 1
  /\ pending' = pending \union {lapic.LvtT % 256}
  /\ UNCHANGED <<step, select, redirection, lapic, lapic_addr, buffer, handler, lost>>

\* The three vectors are of one priority class: none interrupts another, the
\* highest comes first.
Deliver ==
  /\ Enabled /\ handler = "none" /\ pending # {}
  /\ handler' = IDT(Max(pending))
  /\ pending' = pending \ {Max(pending)}
  /\ UNCHANGED <<step, select, redirection, lapic, lapic_addr, buffer, lost>>

\* end_interrupt writes through LAPIC_ADDR.
end_interrupt == handler' = IF lapic_addr THEN "none" ELSE "fault"

TimerHandler ==
  /\ handler = "timer"
  /\ end_interrupt
  /\ UNCHANGED <<step, select, redirection, lapic, lapic_addr, buffer, pending, lost>>

\* keyboard_interrupt_handler and mouse_interrupt_handler: both read port 0x60
\* without asking whose byte it holds.
InputHandler ==
  /\ handler \in InputDevices
  /\ buffer' = "none"
  /\ end_interrupt
  /\ UNCHANGED <<step, select, redirection, lapic, lapic_addr, pending, lost>>

ProgramStep == Mapped \/ WriteIo \/ SetAddress \/ WriteLocal \/ EnableInterrupts

DeviceStep ==
  \/ \E device \in InputDevices : Byte(device)
  \/ TimerExpires \/ Deliver \/ TimerHandler \/ InputHandler
-----------------------------------------------------------------------------
\* apic.rs, keyboard.rs, mouse.rs: once interrupts are on no byte is lost; a byte
\* in the buffer has its interrupt pending or its handler running, unless it came
\* too early; a handler only reads a byte of its own device; and no interrupt
\* meets an unset vector or an unset LAPIC_ADDR.
BytesRouted ==
  /\ [](/\ handler # "fault"
        /\ buffer # "none" /\ ~lost =>
             InterruptIndex[buffer] \in pending \/ handler = buffer)
  /\ [][/\ Enabled => lost' = lost
        /\ handler \in InputDevices /\ handler' # handler => buffer = handler]_apic_vars
=============================================================================
