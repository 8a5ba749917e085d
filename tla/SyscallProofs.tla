---------------------------- MODULE SyscallProofs ---------------------------
(***************************************************************************)
(* What holds of syscall_entry for every width of an address, every limit  *)
(* of user space, every heap limit and every state of user memory.         *)
(***************************************************************************)
EXTENDS Syscall, TLAPS

CallType ==
  /\ call \in [num : U64, fd : U64, ptr : U64, len : U64]
  /\ bytes \in Seq(Nat)
  /\ live \subseteq {"vec", "copy"}

\* Outside of syscall_entry, and before it looks at the arguments.
FreshInv ==
  pc \in {"user", "dispatch"} =>
    bytes = <<>> /\ live = {} /\ line = NoLine

\* After the checks: a write to stdout, of which a prefix of the buffer is read.
CopyInv ==
  pc \in {"read", "print", "drop"} =>
    /\ IsWrite /\ BufferOk
    /\ Len(bytes) <= call.len
    /\ bytes = [k \in 1 .. Len(bytes) |-> call.ptr + k - 1]

\* The loop has ended, what it read is converted; the line printed is the text.
WholeInv ==
  /\ pc \in {"print", "drop"} =>
       /\ Len(bytes) = call.len /\ Len(text) = call.len
       /\ \A k \in 1 .. call.len :
            text[k] = IF InCharacter(bytes, k) THEN bytes[k] ELSE Replacement
  /\ pc = "drop" => line = [from |-> "user", text |-> text]

ReadInv ==
  \A k \in 1 .. Len(bytes) :
    bytes[k] = call.ptr + k - 1 /\ bytes[k] \in 1 .. USER_SPACE_LIMIT - 1 /\ k <= call.len

SyscallInv ==
  /\ CallType /\ FreshInv /\ CopyInv /\ WholeInv /\ ReadInv
  /\ pc = "answered" => live = {}
  /\ AnswerTruthful

\* The checks made in machine arithmetic are the ones meant.
LEMMA ChecksExact ==
  ASSUME NEW ptr \in U64, NEW len \in U64
  PROVE  InUserSpace(ptr, len) <=>
           ptr > 0 /\ ptr < USER_SPACE_LIMIT /\ ptr + len <= USER_SPACE_LIMIT
BY SyscallAssumption DEF InUserSpace, U64

\* Inside the buffer the address is computed without wrapping.
LEMMA AddressExact ==
  ASSUME CallType, BufferOk, Len(bytes) < call.len
  PROVE  /\ Address = call.ptr + Len(bytes)
         /\ Address \in 1 .. USER_SPACE_LIMIT - 1
<1>1. call.ptr \in Nat /\ call.len \in Nat /\ Len(bytes) \in Nat
  BY SyscallAssumption DEF CallType, U64
<1>2. call.ptr + Len(bytes) \in 0 .. U64_MAX
  BY <1>1, SyscallAssumption DEF BufferOk
<1>3. \A n \in 0 .. U64_MAX : n % (U64_MAX + 1) = n
  BY SyscallAssumption
<1>4. Address = call.ptr + Len(bytes)
  BY <1>2, <1>3 DEF Address
<1>. QED  BY <1>1, <1>4, SyscallAssumption DEF BufferOk

LEMMA InitInv == Init => SyscallInv
<1>. SUFFICES ASSUME Init PROVE SyscallInv  OBVIOUS
<1>1. CallType
  BY SyscallAssumption DEF Init, CallType, NoCall, U64
<1>. QED
  BY <1>1 DEF Init, SyscallInv, FreshInv, CopyInv, WholeInv, ReadInv, AnswerTruthful

LEMMA EnterStep ==
  ASSUME SyscallInv, NEW num \in Nums, NEW fd \in Fds, NEW ptr \in U64, NEW len \in U64,
         Enter(num, fd, ptr, len)
  PROVE  SyscallInv'
<1>1. CallType'
  BY SyscallAssumption DEF Enter, SyscallInv, CallType
<1>2. bytes' = <<>> /\ live' = {} /\ line' = NoLine /\ pc' = "dispatch"
  BY DEF Enter, SyscallInv, FreshInv
<1>. QED
  BY <1>1, <1>2 DEF SyscallInv, FreshInv, CopyInv, WholeInv, ReadInv, AnswerTruthful

\* A refused call: wrong descriptor, unknown number, bad buffer.
LEMMA RefusalStep ==
  ASSUME SyscallInv, WrongFd \/ UnknownSyscall \/ Refuse
  PROVE  SyscallInv'
<1>1. pc = "dispatch" /\ pc' = "answered" /\ call' = call
  BY DEF WrongFd, UnknownSyscall, Refuse, Return
<1>2. bytes' = <<>> /\ live' = {} /\ line' \in {NoLine, Message}
  BY <1>1 DEF WrongFd, UnknownSyscall, Refuse, SyscallInv, FreshInv
<1>3. CallType'
  BY <1>1, <1>2 DEF SyscallInv, CallType
<1>4. line'.from # "user"
  BY <1>2 DEF NoLine, Message
<1>5. call.ptr \in U64 /\ call.len \in U64
  BY DEF SyscallInv, CallType
<1>6. AnswerTruthful'
  <2>1. CASE WrongFd
    <3>1. ~IsWrite /\ answer' = BadFd /\ call.num \in {1, 2}
      BY <2>1 DEF WrongFd, Return, IsWrite
    <3>. QED
      BY <1>1, <1>4, <3>1 DEF AnswerTruthful, IsWrite, BufferOk, BadFd
  <2>2. CASE UnknownSyscall
    <3>1. ~IsWrite /\ answer' = U64_MAX /\ call.num # 1
      BY <2>2 DEF UnknownSyscall, Return, IsWrite
    <3>. QED
      BY <1>1, <1>4, <3>1 DEF AnswerTruthful, IsWrite, BufferOk
  <2>3. CASE Refuse
    <3>1. IsWrite /\ answer' = BadPointer
      BY <2>3 DEF Refuse, Return
    <3>2. ~BufferOk
      BY <2>3, <1>5, ChecksExact DEF Refuse, BufferOk
    <3>. QED
      BY <1>1, <1>4, <3>1, <3>2 DEF AnswerTruthful, IsWrite, BufferOk, BadPointer
  <2>. QED  BY <2>1, <2>2, <2>3
<1>. QED
  BY <1>1, <1>2, <1>3, <1>6 DEF SyscallInv, FreshInv, CopyInv, WholeInv, ReadInv

LEMMA AllocateStep ==
  ASSUME SyscallInv, Allocate
  PROVE  SyscallInv'
<1>1. /\ pc = "dispatch" /\ pc' = "read" /\ call' = call /\ IsWrite
      /\ bytes' = <<>> /\ bytes = <<>> /\ line' = NoLine
  BY DEF Allocate, SyscallInv, FreshInv
<1>2. CallType'
  BY <1>1 DEF Allocate, SyscallInv, CallType
<1>3. call.ptr \in U64 /\ call.len \in U64 /\ call.len \in Nat
  BY SyscallAssumption DEF SyscallInv, CallType, U64
<1>4. BufferOk
  BY <1>3, ChecksExact DEF Allocate, BufferOk
<1>5. CopyInv'
  <2>1. Len(bytes') = 0 /\ bytes' = [k \in 1 .. 0 |-> call'.ptr + k - 1]
    BY <1>1
  <2>. QED  BY <2>1, <1>1, <1>3, <1>4 DEF CopyInv, IsWrite, BufferOk
<1>. QED
  BY <1>1, <1>2, <1>5 DEF SyscallInv, FreshInv, WholeInv, ReadInv, AnswerTruthful

LEMMA StopStep ==
  ASSUME SyscallInv, Stop
  PROVE  SyscallInv'
BY DEF Stop, SyscallInv, CallType, FreshInv, CopyInv, WholeInv, ReadInv, AnswerTruthful

LEMMA ReadStep ==
  ASSUME SyscallInv, ReadByte
  PROVE  SyscallInv'
<1>1. /\ pc = "read" /\ pc' = "read" /\ UNCHANGED <<call, live, line, answer>>
      /\ Len(bytes) < call.len /\ bytes' = Append(bytes, Address)
  BY DEF ReadByte
<1>2. CallType /\ BufferOk /\ IsWrite
  BY <1>1 DEF SyscallInv, CopyInv
<1>3. Address = call.ptr + Len(bytes) /\ Address \in 1 .. USER_SPACE_LIMIT - 1
  BY <1>1, <1>2, AddressExact
<1>4. call.ptr \in Nat /\ call.len \in Nat /\ Len(bytes) \in Nat /\ bytes \in Seq(Nat)
  BY <1>2, SyscallAssumption DEF CallType, U64
<1>5. Address \in Nat
  BY <1>3, <1>4
<1>6. /\ bytes' \in Seq(Nat)
      /\ Len(bytes') = Len(bytes) + 1
      /\ \A k \in 1 .. Len(bytes) : bytes'[k] = bytes[k]
      /\ bytes'[Len(bytes) + 1] = Address
  BY <1>1, <1>4, <1>5
<1>7. \A k \in 1 .. Len(bytes') : bytes'[k] = call.ptr + k - 1
  <2>. TAKE k \in 1 .. Len(bytes')
  <2>1. CASE k = Len(bytes) + 1
    BY <2>1, <1>3, <1>4, <1>6
  <2>2. CASE k # Len(bytes) + 1
    <3>1. k \in 1 .. Len(bytes)
      BY <2>2, <1>4, <1>6
    <3>2. bytes[k] = call.ptr + k - 1
      BY <3>1, <1>1 DEF SyscallInv, ReadInv
    <3>. QED  BY <3>1, <3>2, <1>6
  <2>. QED  BY <2>1, <2>2
<1>8. bytes' = [k \in 1 .. Len(bytes') |-> call.ptr + k - 1]
  <2>1. DOMAIN bytes' = 1 .. Len(bytes')
    BY <1>6
  <2>2. bytes' = [k \in DOMAIN bytes' |-> bytes'[k]]
    BY <1>6
  <2>. QED  BY <2>1, <2>2, <1>7
<1>9. ReadInv'
  <2>. SUFFICES ASSUME NEW k \in 1 .. Len(bytes')
                PROVE  /\ bytes'[k] = call.ptr + k - 1
                       /\ bytes'[k] \in 1 .. USER_SPACE_LIMIT - 1 /\ k <= call.len
    BY <1>1 DEF ReadInv
  <2>1. k <= call.len
    BY <1>1, <1>4, <1>6
  <2>2. bytes'[k] = call.ptr + k - 1 /\ k \in Nat \ {0}
    BY <1>4, <1>6, <1>7
  <2>3. call.ptr > 0 /\ call.ptr + call.len <= USER_SPACE_LIMIT
    BY <1>2 DEF BufferOk
  <2>. QED  BY <2>1, <2>2, <2>3, <1>4, SyscallAssumption
<1>10. CopyInv'
  BY <1>1, <1>2, <1>4, <1>6, <1>8 DEF CopyInv, IsWrite, BufferOk
<1>. QED
  BY <1>1, <1>2, <1>6, <1>9, <1>10
  DEF SyscallInv, CallType, FreshInv, WholeInv, AnswerTruthful

\* Borrowed or copied, byte k of the text is byte k read or a replacement.
LEMMA ConvertStep ==
  ASSUME SyscallInv, Borrow \/ CopyLossy
  PROVE  SyscallInv'
<1>1. CASE Stop
  BY <1>1, StopStep
<1>2. CASE ~Stop
  <2>1. /\ pc = "read" /\ pc' = "print" /\ Len(bytes) = call.len
        /\ UNCHANGED <<call, bytes, line, answer>>
        /\ live' \subseteq live \union {"copy"}
    BY <1>2 DEF Borrow, CopyLossy
  <2>2. CallType'
    BY <2>1 DEF SyscallInv, CallType
  <2>3. bytes \in Seq(Nat) /\ Len(bytes) \in Nat
    BY DEF SyscallInv, CallType
  <2>4. /\ Len(text') = Len(bytes)
        /\ \A k \in 1 .. Len(bytes) :
             text'[k] = IF InCharacter(bytes, k) THEN bytes[k] ELSE Replacement
    <3>1. CASE Borrow
      BY <3>1 DEF Borrow
    <3>2. CASE CopyLossy
      <4>1. text' = Lossy(bytes)
        BY <1>2, <3>2 DEF CopyLossy
      <4>. QED  BY <2>3, <4>1 DEF Lossy
    <3>. QED  BY <3>1, <3>2
  <2>5. WholeInv'
    <3>1. \A k : InCharacter(bytes, k)' <=> InCharacter(bytes, k)
      BY <2>1 DEF InCharacter
    <3>. QED  BY <2>1, <2>4, <3>1 DEF WholeInv
  <2>6. CopyInv' /\ ReadInv'
    BY <2>1 DEF SyscallInv, CopyInv, ReadInv, IsWrite, BufferOk
  <2>. QED
    BY <2>1, <2>2, <2>5, <2>6 DEF SyscallInv, FreshInv, AnswerTruthful
<1>. QED  BY <1>1, <1>2

LEMMA OutputStep ==
  ASSUME SyscallInv, Output
  PROVE  SyscallInv'
<1>1. /\ pc = "print" /\ pc' = "drop" /\ line' = [from |-> "user", text |-> text]
      /\ UNCHANGED <<call, bytes, text, live, answer>>
  BY DEF Output
<1>2. WholeInv'
  <2>1. \A k : InCharacter(bytes, k)' <=> InCharacter(bytes, k)
    BY <1>1 DEF InCharacter
  <2>. QED  BY <1>1, <2>1 DEF SyscallInv, WholeInv
<1>3. CopyInv' /\ ReadInv'
  BY <1>1 DEF SyscallInv, CopyInv, ReadInv, IsWrite, BufferOk
<1>. QED
  BY <1>1, <1>2, <1>3 DEF SyscallInv, CallType, FreshInv, AnswerTruthful

LEMMA DropStep ==
  ASSUME SyscallInv, Drop
  PROVE  SyscallInv'
<1>1. /\ pc = "drop" /\ pc' = "answered" /\ answer' = Success
      /\ live' = live \ {"copy", "vec"}
      /\ UNCHANGED <<call, bytes, text, line>>
  BY DEF Drop, Return
<1>2. live' = {}
  BY <1>1 DEF SyscallInv, CallType
<1>3. IsWrite /\ BufferOk /\ bytes = Buffer /\ line = [from |-> "user", text |-> text]
  BY <1>1 DEF SyscallInv, CopyInv, WholeInv, Buffer
<1>4. call.num = 2 => Success # U64_MAX
  BY <1>3, SyscallAssumption DEF Success, BufferOk, SyscallInv, CallType, U64
<1>5. /\ line.from = "user" /\ Len(line.text) = call.len
      /\ \A k \in 1 .. call.len :
           line.text[k] = IF InCharacter(Buffer, k) THEN Buffer[k] ELSE Replacement
  BY <1>1, <1>3 DEF SyscallInv, WholeInv
<1>6. AnswerTruthful'
  <2>1. (IsWrite /\ BufferOk)' /\ Success' = Success
    BY <1>1, <1>3 DEF IsWrite, BufferOk, Success
  <2>2. Buffer' = Buffer /\ \A k : InCharacter(Buffer, k)' <=> InCharacter(Buffer, k)
    BY <1>1 DEF Buffer, InCharacter
  <2>. QED  BY <1>1, <1>4, <1>5, <2>1, <2>2 DEF AnswerTruthful
<1>. QED
  BY <1>1, <1>2, <1>6 DEF SyscallInv, CallType, FreshInv, CopyInv, WholeInv, ReadInv

LEMMA LeaveStep ==
  ASSUME SyscallInv, Leave
  PROVE  SyscallInv'
<1>1. CallType'
  BY SyscallAssumption DEF Leave, NoCall, SyscallInv, CallType, U64
<1>. QED
  BY <1>1
  DEF Leave, SyscallInv, FreshInv, CopyInv, WholeInv, ReadInv, AnswerTruthful

LEMMA SyscallInductive == SyscallInv /\ [Next]_vars => SyscallInv'
<1>. SUFFICES ASSUME SyscallInv, [Next]_vars PROVE SyscallInv'  OBVIOUS
<1>1. CASE \E num \in Nums, fd \in Fds, ptr \in U64, len \in U64 : Enter(num, fd, ptr, len)
  BY <1>1, EnterStep
<1>2. CASE WrongFd \/ UnknownSyscall \/ Refuse
  BY <1>2, RefusalStep
<1>3. CASE Allocate
  BY <1>3, AllocateStep
<1>4. CASE AllocateFails \/ ReadFaults
  BY <1>4, StopStep DEF AllocateFails, ReadFaults
<1>5. CASE ReadByte
  BY <1>5, ReadStep
<1>6. CASE Borrow \/ CopyLossy
  BY <1>6, ConvertStep
<1>7. CASE Output
  BY <1>7, OutputStep
<1>8. CASE Drop
  BY <1>8, DropStep
<1>9. CASE Leave
  BY <1>9, LeaveStep
<1>10. CASE UNCHANGED vars
  <2>. USE <1>10 DEF vars, SyscallInv
  <2>1. CallType' /\ FreshInv' /\ CopyInv' /\ ReadInv' /\ (pc = "answered" => live = {})'
    BY DEF CallType, FreshInv, CopyInv, ReadInv, IsWrite, BufferOk
  <2>2. WholeInv'
    BY DEF WholeInv, InCharacter
  <2>3. AnswerTruthful'
    <3>1. /\ Buffer' = Buffer /\ Success' = Success /\ BadPointer' = BadPointer
          /\ IsWrite' = IsWrite /\ BufferOk' = BufferOk
          /\ \A k : InCharacter(Buffer, k)' <=> InCharacter(Buffer, k)
      BY DEF Buffer, Success, BadPointer, IsWrite, BufferOk, InCharacter
    <3>. QED  BY <3>1 DEF AnswerTruthful
  <2>. QED  BY <2>1, <2>2, <2>3
<1>. QED
  BY <1>1, <1>2, <1>3, <1>4, <1>5, <1>6, <1>7, <1>8, <1>9, <1>10 DEF Next, Step

LEMMA SyscallInvariant == Spec => []SyscallInv
BY InitInv, SyscallInductive, PTL DEF Spec

\* syscall_entry answers success exactly for a write to stdout of a buffer in
\* user space, and has then printed all of it, as the text it is and with a
\* replacement character for every byte that is no part of a character.
THEOREM AnswersTruthful == Spec => []AnswerTruthful
<1>1. SyscallInv => AnswerTruthful
  BY DEF SyscallInv
<1>. QED  BY <1>1, SyscallInvariant, PTL

\* read_user_bytes reads bytes of the caller's buffer in user space only.
THEOREM ReadsConfined == Spec => []ReadsInUserSpace
<1>1. SyscallInv => ReadsInUserSpace
  BY DEF SyscallInv, ReadInv, ReadsInUserSpace
<1>. QED  BY <1>1, SyscallInvariant, PTL

\* No call leaves an allocation behind.
THEOREM HeapBalanced == Spec => []NothingLeaked
<1>1. SyscallInv => NothingLeaked
  BY DEF SyscallInv, FreshInv, NothingLeaked
<1>. QED  BY <1>1, SyscallInvariant, PTL
=============================================================================
