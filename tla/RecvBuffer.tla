----------------------------- MODULE RecvBuffer -----------------------------
(***************************************************************************)
(* ServerLibrary/RecvBuffer.{h,cpp}: the bytes a session has received and  *)
(* not yet parsed lie between readPos_ and writePos_ of a fixed buffer.    *)
(*                                                                         *)
(* A byte is a number below MAX_BUFFER_SIZE, as a packet's 16-bit size is  *)
(* below 0x10000. PacketHeader is one byte here, the size.                 *)
(***************************************************************************)
EXTENDS Integers, Sequences

CONSTANTS MIN_BUFFER_SIZE, MAX_BUFFER_SIZE,
          Beyond \* the bytes that may lie in memory after the buffer

ASSUME BufferSizes == /\ MIN_BUFFER_SIZE \in Nat /\ MAX_BUFFER_SIZE \in Nat
                      /\ 0 < MIN_BUFFER_SIZE /\ MIN_BUFFER_SIZE < MAX_BUFFER_SIZE

Bytes   == 0 .. MAX_BUFFER_SIZE - 1
Indices == 0 .. MAX_BUFFER_SIZE - 1

ASSUME BeyondBytes == Beyond \subseteq Bytes /\ Beyond # {}

VARIABLES buffer_, writePos_, readPos_

bufferVars == <<buffer_, writePos_, readPos_>>

BufferTypeOK ==
    /\ buffer_ \in [Indices -> Bytes]
    /\ readPos_ \in 0 .. writePos_ /\ writePos_ \in 0 .. MAX_BUFFER_SIZE

\* vector::resize stores zeros.
BufferInit ==
    /\ buffer_ = [i \in Indices |-> 0]
    /\ writePos_ = 0 /\ readPos_ = 0

GetDataSize == writePos_ - readPos_
GetFreeSize == MAX_BUFFER_SIZE - writePos_

\* The kernel stores bytes at the write position; WriteData moves it.
WriteData(bytes) ==
    /\ buffer_' = [i \in Indices |-> IF i \in writePos_ .. writePos_ + Len(bytes) - 1
                                     THEN bytes[i - writePos_ + 1] ELSE buffer_[i]]
    /\ writePos_' = writePos_ + Len(bytes)
    /\ UNCHANGED readPos_

\* Mutant: what is unread stays where it is.
CleanupBufferInPlace(read) ==
    IF writePos_ = read
    THEN writePos_' = 0 /\ readPos_' = 0 /\ UNCHANGED buffer_
    ELSE readPos_' = read /\ UNCHANGED <<writePos_, buffer_>>

\* ReadData moves the read position to read, and CleanupBuffer then makes room:
\* it copies as many bytes as are unread, from the write position on.
CleanupBuffer(read) ==
    LET unread == writePos_ - read
    IN IF unread = 0
       THEN writePos_' = 0 /\ readPos_' = 0 /\ UNCHANGED buffer_
       ELSE IF GetFreeSize <= MIN_BUFFER_SIZE
       THEN /\ \E after \in [MAX_BUFFER_SIZE .. writePos_ + unread - 1 -> Beyond] :
                   buffer_' = [i \in Indices |->
                                 IF i >= unread THEN buffer_[i]
                                 ELSE IF writePos_ + i \in Indices THEN buffer_[writePos_ + i]
                                 ELSE after[writePos_ + i]]
            /\ readPos_' = 0 /\ writePos_' = unread
       ELSE readPos_' = read /\ UNCHANGED <<writePos_, buffer_>>

=============================================================================
