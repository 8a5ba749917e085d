------------------------------- MODULE Syscall ------------------------------
(***************************************************************************)
(* syscall_entry and read_user_bytes (tasks/syscall.rs): the dispatch on   *)
(* the number, the checks of a user buffer, the copy into a Vec byte by    *)
(* byte, its conversion and output, and the answer. A byte of user memory  *)
(* is named by its address; text is a sequence of such bytes and of        *)
(* replacement characters. Preemption of this code is in modules Kernel   *)
(* and Registers; a call works on its own buffer only.                     *)
(***************************************************************************)
EXTENDS Integers, Sequences

CONSTANTS
  U64_MAX,           \* u64::MAX
  USER_SPACE_LIMIT,  \* first address above user space
  PAGE_SIZE,         \* the largest allocation the heap serves (module Heap)
  Mapped,            \* addresses that are mapped, of user space and above
  Class,             \* what UTF-8 makes of the byte at an address: "ascii", the
                     \* "first" or "second" of a two-byte character, or "never"
  Nums, Fds          \* syscall numbers and file descriptors that are passed

U64 == 0 .. U64_MAX

ASSUME SyscallAssumption ==
  /\ U64_MAX \in Nat /\ U64_MAX >= 14
  /\ USER_SPACE_LIMIT \in Nat \ {0} /\ USER_SPACE_LIMIT < U64_MAX
  /\ PAGE_SIZE \in Nat
  /\ Class \in [U64 -> {"ascii", "first", "second", "never"}]
  /\ Nums \subseteq U64 /\ Fds \subseteq U64

VARIABLES
  call,    \* the arguments: num, fd, ptr, len
  pc,      \* "user", or where syscall_entry is; "stopped" after a panic or a
           \* page fault
  bytes,   \* the Vec: addresses of the bytes read so far
  text,    \* what from_utf8_lossy made of them
  live,    \* heap allocations of the call: the Vec, the lossy copy
  line,    \* what the call printed: nothing, a message, or the user's text
  answer   \* the value returned in rax, Pending inside a call

vars == <<call, pc, bytes, text, live, line, answer>>

Pending  == -1
NoLine   == [from |-> "nobody", text |-> <<>>]
Message  == [from |-> "kernel", text |-> <<>>]

Replacement == -1  \* U+FFFD

EBADF  == 1
EFAULT == 14
-----------------------------------------------------------------------------
InUserSpace_WrappingAdd(ptr, len) ==
  /\ ~(ptr >= USER_SPACE_LIMIT \/ ptr = 0)
  /\ (ptr + len) % (U64_MAX + 1) <= USER_SPACE_LIMIT

\* The checks of read_user_bytes; checked_add fails beyond u64::MAX.
InUserSpace(ptr, len) ==
  /\ ~(ptr >= USER_SPACE_LIMIT \/ ptr = 0)
  /\ ptr + len <= U64_MAX
  /\ ptr + len <= USER_SPACE_LIMIT

\* What both writes do for stdout only.
IsWrite == call.num \in {1, 2} /\ call.fd = 1

\* The codes of write (1) and of write_bytes (2).
Success     == IF call.num = 1 THEN 0 ELSE call.len
BadPointer  == IF call.num = 1 THEN EFAULT ELSE U64_MAX
BadFd       == IF call.num = 1 THEN EBADF ELSE U64_MAX

Return(value) == answer' = value /\ pc' = "answered"
Stop == pc' = "stopped" /\ UNCHANGED <<call, bytes, text, live, line, answer>>
-----------------------------------------------------------------------------
NoCall == [num |-> 0, fd |-> 0, ptr |-> 0, len |-> 0]

Init ==
  /\ call = NoCall
  /\ pc = "user"
  /\ bytes = <<>> /\ text = <<>> /\ live = {} /\ line = NoLine
  /\ answer = Pending

Enter(num, fd, ptr, len) ==
  /\ pc = "user"
  /\ call' = [num |-> num, fd |-> fd, ptr |-> ptr, len |-> len]
  /\ pc' = "dispatch"
  /\ UNCHANGED <<bytes, text, live, line, answer>>

\* The return to user mode.
Leave ==
  /\ pc = "answered"
  /\ call' = NoCall
  /\ pc' = "user"
  /\ bytes' = <<>> /\ text' = <<>> /\ line' = NoLine /\ answer' = Pending
  /\ UNCHANGED live

WrongFd ==
  /\ pc = "dispatch" /\ call.num \in {1, 2} /\ call.fd # 1
  /\ Return(BadFd)
  /\ UNCHANGED <<call, bytes, text, live, line>>

UnknownSyscall ==
  /\ pc = "dispatch" /\ call.num \notin {1, 2}
  /\ line' = Message
  /\ Return(U64_MAX)
  /\ UNCHANGED <<call, bytes, text, live>>

\* read_user_bytes answers None.
Refuse ==
  /\ pc = "dispatch" /\ IsWrite
  /\ ~InUserSpace(call.ptr, call.len)
  /\ line' = Message
  /\ Return(BadPointer)
  /\ UNCHANGED <<call, bytes, text, live>>

\* Vec::with_capacity; a Vec of no bytes allocates nothing.
Allocate ==
  /\ pc = "dispatch" /\ IsWrite
  /\ InUserSpace(call.ptr, call.len)
  /\ call.len <= PAGE_SIZE
  /\ live' = IF call.len = 0 THEN live ELSE live \union {"vec"}
  /\ pc' = "read"
  /\ UNCHANGED <<call, bytes, text, line, answer>>

\* The heap refuses more than a page, or has no memory: the kernel panics.
AllocateFails ==
  /\ pc = "dispatch" /\ IsWrite
  /\ InUserSpace(call.ptr, call.len)
  /\ call.len > 0
  /\ Stop

Address == (call.ptr + Len(bytes)) % (U64_MAX + 1)

ReadByte_SameAgain ==
  /\ pc = "read" /\ Len(bytes) < call.len
  /\ Address \in Mapped
  /\ UNCHANGED vars

\* One round of the loop.
ReadByte ==
  /\ pc = "read" /\ Len(bytes) < call.len
  /\ Address \in Mapped
  /\ bytes' = Append(bytes, Address)
  /\ UNCHANGED <<call, pc, text, live, line, answer>>

\* A page fault in the loop: its handler stops the machine.
ReadFaults ==
  /\ pc = "read" /\ Len(bytes) < call.len
  /\ Address \notin Mapped
  /\ Stop

\* Byte k of a buffer belongs to a character the buffer has in full.
InCharacter(b, k) ==
  \/ Class[b[k]] = "ascii"
  \/ Class[b[k]] = "first" /\ k < Len(b) /\ Class[b[k + 1]] = "second"
  \/ Class[b[k]] = "second" /\ k > 1 /\ Class[b[k - 1]] = "first"

Lossy(b) == [k \in 1 .. Len(b) |-> IF InCharacter(b, k) THEN b[k] ELSE Replacement]

\* from_utf8_lossy borrows valid text.
Borrow ==
  /\ pc = "read" /\ Len(bytes) = call.len
  /\ \A k \in 1 .. Len(bytes) : InCharacter(bytes, k)
  /\ text' = bytes
  /\ pc' = "print"
  /\ UNCHANGED <<call, bytes, live, line, answer>>

\* It copies other text, replacing what is not a character, or the heap has no
\* room for the copy.
CopyLossy ==
  /\ pc = "read" /\ Len(bytes) = call.len
  /\ \E k \in 1 .. Len(bytes) : ~InCharacter(bytes, k)
  /\ \/ /\ text' = Lossy(bytes)
        /\ live' = live \union {"copy"}
        /\ pc' = "print"
        /\ UNCHANGED <<call, bytes, line, answer>>
     \/ Stop

Output_Unconverted ==
  /\ pc = "print"
  /\ line' = [from |-> "user", text |-> bytes]
  /\ pc' = "drop"
  /\ UNCHANGED <<call, bytes, text, live, answer>>

Output ==
  /\ pc = "print"
  /\ line' = [from |-> "user", text |-> text]
  /\ pc' = "drop"
  /\ UNCHANGED <<call, bytes, text, live, answer>>

Drop_VecOnly ==
  /\ pc = "drop"
  /\ live' = live \ {"vec"}
  /\ Return(Success)
  /\ UNCHANGED <<call, bytes, text, line>>

\* The copy, if there is one, and the Vec are dropped.
Drop ==
  /\ pc = "drop"
  /\ live' = live \ {"copy", "vec"}
  /\ Return(Success)
  /\ UNCHANGED <<call, bytes, text, line>>

Step ==
  \/ WrongFd \/ UnknownSyscall \/ Refuse \/ Allocate \/ AllocateFails
  \/ ReadByte \/ ReadFaults \/ Borrow \/ CopyLossy \/ Output \/ Drop
  \/ Leave

Next ==
  \/ \E num \in Nums, fd \in Fds, ptr \in U64, len \in U64 : Enter(num, fd, ptr, len)
  \/ Step

Spec == Init /\ [][Next]_vars
FairSpec == Spec /\ WF_vars(Step)
-----------------------------------------------------------------------------
\* The buffer lies in user space, in unbounded arithmetic.
BufferOk ==
  /\ call.ptr > 0
  /\ call.ptr < USER_SPACE_LIMIT
  /\ call.ptr + call.len <= USER_SPACE_LIMIT

\* The addresses of the caller's buffer, in order.
Buffer == [k \in 1 .. call.len |-> call.ptr + k - 1]

\* syscall.rs ("0 on success, error code on failure"; "bytes written on success,
\* -1 on failure"): a success is reported exactly for a buffer in user space on
\* stdout, and then the line printed is the whole buffer, in order, with a
\* replacement character for exactly the bytes that are no part of a character
\* of this buffer (one cut off at its end included); a refused call prints
\* nothing of the user's; and no count of bytes looks like -1.
AnswerTruthful ==
  pc = "answered" =>
    IF IsWrite /\ BufferOk
    THEN /\ answer = Success
         /\ line.from = "user" /\ Len(line.text) = call.len
         /\ \A k \in 1 .. call.len :
              line.text[k] = IF InCharacter(Buffer, k) THEN Buffer[k] ELSE Replacement
         /\ call.num = 2 => answer # U64_MAX
    ELSE /\ line.from # "user"
         /\ answer = IF ~IsWrite THEN (IF call.num = 1 THEN EBADF ELSE U64_MAX)
                     ELSE BadPointer

\* read_user_bytes ("Safely read a fixed-length buffer from user memory"): every
\* byte it reads is a byte of the caller's buffer and lies below the limit of
\* user space; the sums never wrap.
ReadsInUserSpace ==
  \A k \in 1 .. Len(bytes) :
    /\ bytes[k] = call.ptr + k - 1
    /\ bytes[k] \in 1 .. USER_SPACE_LIMIT - 1
    /\ k <= call.len

\* read_user_bytes, from_utf8_lossy: a call leaves no allocation on the heap,
\* whichever way it returns.
NothingLeaked == pc \in {"user", "dispatch", "answered"} => live = {}

\* syscall_entry: every call comes back or stops the machine; the loop over a
\* buffer ends.
CallsEnd == pc # "user" ~> pc \in {"user", "stopped"}
=============================================================================
