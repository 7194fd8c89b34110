--------------------------- MODULE SessionProofs ---------------------------
(***************************************************************************)
(* Theorems about Session, for any number of threads and buffers, any      *)
(* sizes of the receive buffer and any stream of bytes from the client.    *)
(***************************************************************************)
EXTENDS Session, SequenceTheorems, TLAPS

\* Whoever is there has raised the flag and not yet seen its send complete.
Registrars == {"register", "wsaSend", "unflag", "sent"}

SendTypes ==
    /\ sendQueue_ \in Seq(Buffers) /\ sendBuffers_ \in Seq(Buffers) /\ wire \in Seq(Buffers)
    /\ pc \in [Threads -> Places] /\ buf \in [Threads -> Buffers \cup {Nobody}]
    /\ bIsRegisteredSend_ \in BOOLEAN /\ sending \in BOOLEAN
    /\ \A t \in Threads : pc[t] = "push" => buf[t] \in Buffers

\* The flag stands for the one registrar or the one send under way.
Flag ==
    /\ \A t \in Threads : pc[t] \in Registrars => bIsRegisteredSend_ /\ ~sending
    /\ \A t, u \in Threads : pc[t] \in Registrars /\ pc[u] \in Registrars => t = u
    /\ sending => bIsRegisteredSend_

\* The event is empty unless a send is submitted or under way.
EventEmpty ==
    /\ ~bIsRegisteredSend_ => sendBuffers_ = <<>>
    /\ \A t \in Threads : pc[t] \in Registrars \ {"wsaSend"} => sendBuffers_ = <<>>

SendInv == SendTypes /\ Flag /\ EventEmpty

RecvInv ==
    /\ BufferTypeOK
    /\ arrived \in 0 .. Len(Stream)
    /\ processLen \in 0 .. GetDataSize
    /\ recv \in {"new", "register", "pending"} => GetFreeSize > 0

-----------------------------------------------------------------------------
(* Receiving                                                               *)

LEMMA InitRecv == Init => RecvInv
<1> SUFFICES ASSUME Init PROVE RecvInv
    OBVIOUS
<1>1. BufferTypeOK
    BY BufferSizes DEF Init, BufferInit, BufferTypeOK, Bytes, Indices
<1>2. Len(Stream) \in Nat
    BY StreamBytes, LenProperties
<1>3. writePos_ = 0 /\ readPos_ = 0 /\ processLen = 0 /\ arrived = 0
    BY DEF Init, BufferInit
<1>4. arrived \in 0 .. Len(Stream) /\ processLen \in 0 .. GetDataSize /\ GetFreeSize > 0
    BY <1>2, <1>3, BufferSizes DEF GetDataSize, GetFreeSize
<1> QED BY <1>1, <1>4 DEF RecvInv

LEMMA ReceivedBytes ==
    ASSUME RecvInv, NEW n \in 1 .. Len(Stream) - arrived, n <= GetFreeSize,
           WriteData(SubSeq(Stream, arrived + 1, arrived + n))
    PROVE  BufferTypeOK' /\ writePos_' = writePos_ + n /\ readPos_' = readPos_
<1>1. PICK a \in 0 .. Len(Stream) : a = arrived
    BY DEF RecvInv
<1>2. Len(Stream) \in Nat
    BY StreamBytes, LenProperties
<1>3. \A i \in a + 1 .. a + n : Stream[i] \in Bytes
    BY <1>1, <1>2, StreamBytes, ElementOfSeq
<1>4. PICK bytes \in Seq(Bytes) : bytes = SubSeq(Stream, a + 1, a + n) /\ Len(bytes) = n
  <2>1. a + 1 \in Int /\ a + n \in Int /\ a + 1 <= a + n /\ (a + n) - (a + 1) + 1 = n
      OBVIOUS
  <2>2. /\ SubSeq(Stream, a + 1, a + n) \in Seq(Bytes)
        /\ Len(SubSeq(Stream, a + 1, a + n)) = IF a + 1 <= a + n THEN (a + n) - (a + 1) + 1 ELSE 0
      BY <2>1, <1>3, SubSeqProperties
  <2> QED BY <2>1, <2>2
<1>5. \A i \in 1 .. n : bytes[i] \in Bytes
    BY <1>4, ElementOfSeq
<1>6. writePos_ \in Nat /\ readPos_ \in 0 .. writePos_ /\ buffer_ \in [Indices -> Bytes]
    BY BufferSizes DEF RecvInv, BufferTypeOK
<1>7. /\ writePos_' = writePos_ + n /\ readPos_' = readPos_
      /\ buffer_' = [i \in Indices |-> IF i \in writePos_ .. writePos_ + n - 1
                                       THEN bytes[i - writePos_ + 1] ELSE buffer_[i]]
    BY <1>1, <1>4 DEF WriteData
<1>8. buffer_' \in [Indices -> Bytes]
  <2>1. ASSUME NEW i \in Indices, i \in writePos_ .. writePos_ + n - 1
        PROVE  bytes[i - writePos_ + 1] \in Bytes
      BY <2>1, <1>5, <1>6
  <2> QED BY <2>1, <1>6, <1>7
<1> QED BY <1>2, <1>6, <1>7, <1>8, BufferSizes DEF BufferTypeOK, GetFreeSize

\* An incomplete packet is smaller than the buffer, so there is room after it.
LEMMA RoomAfterCleanup ==
    ASSUME RecvInv, ~Whole, CleanupBuffer(readPos_ + processLen)
    PROVE  BufferTypeOK' /\ GetFreeSize' > 0
<1>1. /\ writePos_ \in Nat /\ readPos_ \in Nat /\ processLen \in Nat
      /\ readPos_ + processLen <= writePos_ /\ writePos_ <= MAX_BUFFER_SIZE
      /\ buffer_ \in [Indices -> Bytes]
    BY BufferSizes DEF RecvInv, BufferTypeOK, GetDataSize
<1>2. PICK unread \in Nat : unread = writePos_ - (readPos_ + processLen)
    BY <1>1
<1>3. unread < MAX_BUFFER_SIZE
  <2>1. CASE unread = 0
      BY <2>1, BufferSizes
  <2>2. CASE unread # 0
    <3>1. readPos_ + processLen \in Indices /\ processLen < GetDataSize
        BY <1>1, <1>2, <2>2, BufferSizes DEF Indices, GetDataSize
    <3>2. buffer_[readPos_ + processLen] \in Bytes
        BY <1>1, <3>1
    <3>3. ~(buffer_[readPos_ + processLen] <= unread)
        BY <1>1, <1>2, <3>1 DEF Whole, GetDataSize
    <3> QED BY <3>2, <3>3, BufferSizes DEF Bytes
  <2> QED BY <2>1, <2>2
<1>4. CASE unread = 0
  <2>1. writePos_' = 0 /\ readPos_' = 0 /\ buffer_' = buffer_
      BY <1>2, <1>4 DEF CleanupBuffer
  <2> QED BY <2>1, <1>1, BufferSizes DEF BufferTypeOK, GetFreeSize
<1>5. CASE unread # 0 /\ GetFreeSize <= MIN_BUFFER_SIZE
  <2>1. PICK after \in [MAX_BUFFER_SIZE .. writePos_ + unread - 1 -> Beyond] :
            buffer_' = [i \in Indices |->
                          IF i >= unread THEN buffer_[i]
                          ELSE IF writePos_ + i \in Indices THEN buffer_[writePos_ + i]
                          ELSE after[writePos_ + i]]
      BY <1>2, <1>5 DEF CleanupBuffer
  <2>2. readPos_' = 0 /\ writePos_' = unread
      BY <1>2, <1>5 DEF CleanupBuffer
  <2>3. ASSUME NEW i \in Indices, i < unread, writePos_ + i \notin Indices
        PROVE  after[writePos_ + i] \in Bytes
    <3>1. writePos_ + i \in MAX_BUFFER_SIZE .. writePos_ + unread - 1
        BY <2>3, <1>1, <1>2, BufferSizes DEF Indices
    <3> QED BY <3>1, BeyondBytes
  <2>4. buffer_' \in [Indices -> Bytes]
    <3>1. \A i \in Indices : ~(i >= unread) => i < unread
        BY <1>2, BufferSizes DEF Indices
    <3> QED BY <3>1, <2>1, <2>3, <1>1
  <2> QED BY <2>2, <2>4, <1>2, <1>3, BufferSizes DEF BufferTypeOK, GetFreeSize
<1>6. CASE unread # 0 /\ ~(GetFreeSize <= MIN_BUFFER_SIZE)
  <2>1. readPos_' = readPos_ + processLen /\ writePos_' = writePos_ /\ buffer_' = buffer_
      BY <1>2, <1>6 DEF CleanupBuffer
  <2> QED BY <2>1, <1>1, <1>6, BufferSizes DEF BufferTypeOK, GetFreeSize
<1> QED BY <1>4, <1>5, <1>6

LEMMA NextRecv == RecvInv /\ [Next]_vars => RecvInv'
<1> SUFFICES ASSUME RecvInv, [Next]_vars PROVE RecvInv'
    OBVIOUS
<1>1. CASE UNCHANGED recvVars
    BY <1>1 DEF recvVars, bufferVars, RecvInv, BufferTypeOK, GetDataSize, GetFreeSize
<1>2. CASE ProcessConnect
  <2>1. recv = "new" /\ UNCHANGED <<bufferVars, processLen, arrived>>
      BY <1>2 DEF ProcessConnect
  <2> QED BY <2>1 DEF bufferVars, RecvInv, BufferTypeOK, GetDataSize, GetFreeSize
<1>3. CASE RegisterRecv
  <2>1. recv = "register" /\ UNCHANGED <<bufferVars, processLen, arrived>>
      BY <1>3 DEF RegisterRecv
  <2> QED BY <2>1 DEF bufferVars, RecvInv, BufferTypeOK, GetDataSize, GetFreeSize
<1>4. CASE ProcessRecv
  <2>1. CASE \E n \in 1 .. Len(Stream) - arrived :
                 /\ n <= GetFreeSize
                 /\ WriteData(SubSeq(Stream, arrived + 1, arrived + n))
                 /\ arrived' = arrived + n
                 /\ recv' = "handling" /\ processLen' = 0
    <3>1. PICK n \in 1 .. Len(Stream) - arrived :
                 /\ n <= GetFreeSize
                 /\ WriteData(SubSeq(Stream, arrived + 1, arrived + n))
                 /\ arrived' = arrived + n
                 /\ recv' = "handling" /\ processLen' = 0
        BY <2>1
    <3>2. BufferTypeOK'
        BY <3>1, ReceivedBytes
    <3>3. Len(Stream) \in Nat
        BY StreamBytes, LenProperties
    <3>4. arrived' \in 0 .. Len(Stream)
        BY <3>1, <3>3 DEF RecvInv
    <3>5. PICK w \in Nat, r \in Nat : writePos_' = w /\ readPos_' = r /\ r <= w
        BY <3>2, BufferSizes DEF BufferTypeOK
    <3>6. processLen' \in 0 .. GetDataSize'
        BY <3>1, <3>5 DEF GetDataSize
    <3> QED BY <3>1, <3>2, <3>4, <3>6 DEF RecvInv
  <2>2. CASE recv' = "none" /\ UNCHANGED <<bufferVars, processLen, arrived>>
      BY <2>2 DEF bufferVars, RecvInv, BufferTypeOK, GetDataSize, GetFreeSize
  <2> QED BY <1>4, <2>1, <2>2 DEF ProcessRecv
<1>5. CASE HandlePacket
  <2>1. /\ processLen' = processLen + buffer_[readPos_ + processLen] /\ Whole
        /\ UNCHANGED <<bufferVars, recv, arrived>>
      BY <1>5 DEF HandlePacket
  <2>2. readPos_ + processLen \in Indices
      BY <2>1, BufferSizes DEF RecvInv, BufferTypeOK, Whole, GetDataSize, Indices
  <2>3. buffer_[readPos_ + processLen] \in Nat
      BY <2>2, BufferSizes DEF RecvInv, BufferTypeOK, Bytes
  <2>4. processLen' \in 0 .. GetDataSize
      BY <2>1, <2>3, BufferSizes DEF RecvInv, BufferTypeOK, Whole, GetDataSize
  <2> QED BY <2>1, <2>4 DEF bufferVars, RecvInv, BufferTypeOK, GetDataSize, GetFreeSize
<1>6. CASE OnRecvReturns
  <2>1. /\ ~Whole /\ CleanupBuffer(readPos_ + processLen)
        /\ recv' = "register" /\ processLen' = 0 /\ arrived' = arrived
      BY <1>6 DEF OnRecvReturns
  <2>2. BufferTypeOK' /\ GetFreeSize' > 0
      BY <2>1, RoomAfterCleanup
  <2>3. PICK w \in Nat, r \in Nat : writePos_' = w /\ readPos_' = r /\ r <= w
      BY <2>2, BufferSizes DEF BufferTypeOK
  <2>4. processLen' \in 0 .. GetDataSize'
      BY <2>1, <2>3 DEF GetDataSize
  <2> QED BY <2>1, <2>2, <2>4 DEF RecvInv
<1>7. ASSUME NEW t \in Threads, SendStep(t) \/ ProcessSend(t) \/ \E b \in Buffers : Send(t, b)
      PROVE  RecvInv'
  <2>1. UNCHANGED recvVars
      BY <1>7 DEF SendStep, SendPush, RegisterSend, WSASend, WSASendFails, Unflag, NextSend,
                  ProcessSend, Send
  <2> QED BY <1>1, <2>1
<1>8. CASE ProcessDisconnect
    BY <1>8, <1>1 DEF ProcessDisconnect
<1>9. CASE UNCHANGED vars
    BY <1>9, <1>1 DEF vars
<1> QED BY <1>2, <1>3, <1>4, <1>5, <1>6, <1>7, <1>8, <1>9 DEF Next

\* A receive always finds room in the buffer: what CleanupBuffer leaves is less
\* than a whole packet, whatever the bytes are.
THEOREM RoomAlways == Spec => []RoomToReceive
<1>1. RecvInv => RoomToReceive
    BY DEF RecvInv, RoomToReceive
<1> QED BY InitRecv, NextRecv, <1>1, PTL DEF Spec

-----------------------------------------------------------------------------
(* Sending                                                                 *)

LEMMA InitSend == Init => SendInv
<1> SUFFICES ASSUME Init PROVE SendInv
    OBVIOUS
<1>1. SendTypes
    BY EmptySeq DEF Init, SendTypes, Places
<1>2. Flag /\ EventEmpty
    BY DEF Init, Flag, EventEmpty, Registrars
<1> QED BY <1>1, <1>2 DEF SendInv

LEMMA SendTypesNext == SendInv /\ [Next]_vars => SendTypes'
<1> SUFFICES ASSUME SendInv, [Next]_vars PROVE SendTypes'
    OBVIOUS
<1> USE DEF SendInv, SendTypes, Goto, Places
<1>1. CASE UNCHANGED sendVars
    BY <1>1 DEF sendVars
<1>2. ASSUME NEW t \in Threads, NEW b \in Buffers, Send(t, b) PROVE SendTypes'
    BY <1>2 DEF Send
<1>3. ASSUME NEW t \in Threads, SendPush(t) PROVE SendTypes'
  <2>1. buf[t] \in Buffers
      BY <1>3 DEF SendPush
  <2>2. sendQueue_' \in Seq(Buffers)
      BY <1>3, <2>1, AppendProperties DEF SendPush
  <2> QED BY <1>3, <2>2 DEF SendPush
<1>4. ASSUME NEW t \in Threads, RegisterSend(t) PROVE SendTypes'
  <2>1. sendQueue_' \in Seq(Buffers) /\ sendBuffers_' \in Seq(Buffers)
      BY <1>4, EmptySeq, ConcatProperties DEF RegisterSend
  <2> QED BY <1>4, <2>1 DEF RegisterSend
<1>5. ASSUME NEW t \in Threads, WSASend(t) PROVE SendTypes'
  <2>1. wire' \in Seq(Buffers)
      BY <1>5, ConcatProperties DEF WSASend
  <2> QED BY <1>5, <2>1 DEF WSASend
<1>6. ASSUME NEW t \in Threads, WSASendFails(t) PROVE SendTypes'
  <2>1. sendBuffers_' \in Seq(Buffers)
      BY <1>6, EmptySeq DEF WSASendFails
  <2> QED BY <1>6, <2>1 DEF WSASendFails
<1>7. ASSUME NEW t \in Threads, Unflag(t) PROVE SendTypes'
    BY <1>7 DEF Unflag
<1>8. ASSUME NEW t \in Threads, ProcessSend(t) PROVE SendTypes'
  <2>1. sendBuffers_' \in Seq(Buffers)
      BY <1>8, EmptySeq DEF ProcessSend
  <2> QED BY <1>8, <2>1 DEF ProcessSend
<1>9. ASSUME NEW t \in Threads, NextSend(t) PROVE SendTypes'
    BY <1>9 DEF NextSend
<1>10. CASE ProcessConnect \/ ProcessDisconnect \/ RegisterRecv \/ ProcessRecv \/ HandlePacket \/ OnRecvReturns
    BY <1>10, <1>1 DEF ProcessConnect, ProcessDisconnect, RegisterRecv, ProcessRecv, HandlePacket, OnRecvReturns
<1>11. CASE UNCHANGED vars
    BY <1>11, <1>1 DEF vars
<1> QED BY <1>2, <1>3, <1>4, <1>5, <1>6, <1>7, <1>8, <1>9, <1>10, <1>11 DEF Next, SendStep

LEMMA FlagNext == SendInv /\ [Next]_vars => Flag' /\ EventEmpty'
<1> SUFFICES ASSUME SendInv, [Next]_vars PROVE Flag' /\ EventEmpty'
    OBVIOUS
<1> USE DEF SendInv, SendTypes, Flag, EventEmpty, Registrars, Goto
<1>1. CASE UNCHANGED sendVars
    BY <1>1 DEF sendVars
<1>2. ASSUME NEW t \in Threads, NEW b \in Buffers, Send(t, b) PROVE Flag' /\ EventEmpty'
    BY <1>2 DEF Send
<1>3. ASSUME NEW t \in Threads, SendPush(t) PROVE Flag' /\ EventEmpty'
    BY <1>3 DEF SendPush
<1>4. ASSUME NEW t \in Threads, RegisterSend(t) PROVE Flag' /\ EventEmpty'
    BY <1>4 DEF RegisterSend
<1>5. ASSUME NEW t \in Threads, WSASend(t) PROVE Flag' /\ EventEmpty'
    BY <1>5 DEF WSASend
<1>6. ASSUME NEW t \in Threads, WSASendFails(t) PROVE Flag' /\ EventEmpty'
    BY <1>6 DEF WSASendFails
<1>7. ASSUME NEW t \in Threads, Unflag(t) PROVE Flag' /\ EventEmpty'
    BY <1>7 DEF Unflag
<1>8. ASSUME NEW t \in Threads, ProcessSend(t) PROVE Flag' /\ EventEmpty'
    BY <1>8 DEF ProcessSend
<1>9. ASSUME NEW t \in Threads, NextSend(t) PROVE Flag' /\ EventEmpty'
    BY <1>9 DEF NextSend
<1>10. CASE ProcessConnect \/ ProcessDisconnect \/ RegisterRecv \/ ProcessRecv \/ HandlePacket \/ OnRecvReturns
    BY <1>10, <1>1 DEF ProcessConnect, ProcessDisconnect, RegisterRecv, ProcessRecv, HandlePacket, OnRecvReturns
<1>11. CASE UNCHANGED vars
    BY <1>11, <1>1 DEF vars
<1> QED BY <1>2, <1>3, <1>4, <1>5, <1>6, <1>7, <1>8, <1>9, <1>10, <1>11 DEF Next, SendStep

LEMMA Sending == Spec => []SendInv
<1>1. SendInv /\ [Next]_vars => SendInv'
    BY SendTypesNext, FlagNext DEF SendInv
<1> QED BY InitSend, <1>1, PTL DEF Spec

-----------------------------------------------------------------------------
(* Sending implements SendStream.                                          *)

\* Taking a prefix off a queue and what remains.
LEMMA PrefixAndRest ==
    ASSUME NEW S, NEW first \in Seq(S), NEW rest \in Seq(S)
    PROVE  /\ Len(first) \in Nat /\ Len(first) <= Len(first \o rest)
           /\ SubSeq(first \o rest, 1, Len(first)) = first
           /\ SubSeq(first \o rest, Len(first) + 1, Len(first \o rest)) = rest
<1>1. /\ Len(first) \in Nat /\ Len(rest) \in Nat /\ first \o rest \in Seq(S)
      /\ Len(first \o rest) = Len(first) + Len(rest)
    BY ConcatProperties, LenProperties
<1>2. SubSeq(first \o rest, 1, Len(first)) = first
  <2>1. CASE first = <<>>
      BY <2>1, SubSeqEmpty, EmptySeq
  <2>2. CASE first # <<>>
    <3>1. 1 \in 1 .. Len(first) /\ Len(first) \in 1 .. Len(first)
        BY <2>2, EmptySeq
    <3> QED BY <3>1, SubSeqOfConcat1, SubSeqFull
  <2> QED BY <2>1, <2>2
<1>3. SubSeq(first \o rest, Len(first) + 1, Len(first \o rest)) = rest
  <2>1. CASE rest = <<>>
    <3>1. Len(rest) = 0
        BY <2>1, EmptySeq
    <3>2. SubSeq(first \o rest, Len(first) + 1, Len(first) + Len(rest)) = <<>>
        BY <1>1, <3>1, SubSeqEmpty
    <3> QED BY <1>1, <2>1, <3>2
  <2>2. CASE rest # <<>>
    <3>1. Len(rest) >= 1
        BY <2>2, EmptySeq
    <3>2. /\ Len(first) + 1 \in Len(first) + 1 .. Len(first) + Len(rest)
          /\ Len(first) + Len(rest) \in Len(first) + 1 .. Len(first) + Len(rest)
        BY <3>1, <1>1
    <3>3. SubSeq(first \o rest, Len(first) + 1, Len(first) + Len(rest))
            = SubSeq(rest, Len(first) + 1 - Len(first), Len(first) + Len(rest) - Len(first))
        BY <3>2, SubSeqOfConcat2
    <3>4. Len(first) + 1 - Len(first) = 1 /\ Len(first) + Len(rest) - Len(first) = Len(rest)
        BY <1>1
    <3> QED BY <1>1, <3>3, <3>4, SubSeqFull
  <2> QED BY <2>1, <2>2
<1> QED BY <1>1, <1>2, <1>3

\* A step that leaves the submitted and the queued buffers and the wire alone.
LEMMA Silent ==
    ASSUME \A t \in Threads : pc'[t] = "wsaSend" <=> pc[t] = "wsaSend",
           (\E t \in Threads : pc[t] = "wsaSend") => sendBuffers_' = sendBuffers_,
           UNCHANGED <<sendQueue_, wire>>
    PROVE  UNCHANGED Promise!vars
BY DEF Promise!vars, Submitting

LEMMA PushStep ==
    ASSUME SendInv, NEW t \in Threads, SendPush(t)
    PROVE  Promise!Next
<1> DEFINE b == buf[t]
<1>1. b \in Buffers /\ sendQueue_' = Append(sendQueue_, b) /\ UNCHANGED <<wire, sendBuffers_>>
    BY DEF SendInv, SendTypes, SendPush
<1>2. \A u \in Threads : pc'[u] = "wsaSend" <=> pc[u] = "wsaSend"
    BY DEF SendInv, SendTypes, SendPush, Goto
<1>3. Submitting' = Submitting
    BY <1>1, <1>2 DEF Submitting
<1>4. Submitting \in Seq(Buffers) /\ sendQueue_ \in Seq(Buffers)
    BY EmptySeq DEF Submitting, SendInv, SendTypes
<1>5. <<b>> \in Seq(Buffers)
    BY <1>1
<1>6. Submitting \o Append(sendQueue_, b) = Append(Submitting \o sendQueue_, b)
  <2>1. Submitting \o (sendQueue_ \o <<b>>) = (Submitting \o sendQueue_) \o <<b>>
      BY <1>4, <1>5, ConcatAssociative
  <2>2. Submitting \o sendQueue_ \in Seq(Buffers)
      BY <1>4, ConcatProperties
  <2> QED BY <2>1, <2>2, <1>1, <1>4, AppendIsConcat
<1>7. (Submitting \o sendQueue_)' = Append(Submitting \o sendQueue_, b)
    BY <1>1, <1>3, <1>6
<1>8. Promise!Accept(b)
    BY <1>1, <1>7 DEF Promise!Accept
<1> QED BY <1>1, <1>8 DEF Promise!Next

LEMMA RegisterStep ==
    ASSUME SendInv, NEW t \in Threads, RegisterSend(t)
    PROVE  UNCHANGED Promise!vars
<1>1. \A u \in Threads : pc[u] # "wsaSend"
    BY DEF SendInv, Flag, RegisterSend, Registrars
<1>2. sendBuffers_ = <<>> /\ sendQueue_ \in Seq(Buffers)
    BY DEF SendInv, SendTypes, EventEmpty, RegisterSend, Registrars
<1>3. pc'[t] = "wsaSend"
    BY DEF SendInv, SendTypes, RegisterSend, Goto
<1>4. sendBuffers_' = sendQueue_ /\ sendQueue_' = <<>> /\ wire' = wire
    BY <1>2, ConcatEmptySeq DEF RegisterSend
<1>5. Submitting = <<>> /\ Submitting' = sendQueue_
    BY <1>1, <1>3, <1>4 DEF Submitting
<1>6. (Submitting \o sendQueue_)' = Submitting \o sendQueue_
    BY <1>2, <1>4, <1>5, ConcatEmptySeq
<1> QED BY <1>4, <1>6 DEF Promise!vars

\* The registrar hands its buffers to the socket, or loses them.
LEMMA SubmitStep ==
    ASSUME SendInv, NEW t \in Threads, WSASend(t) \/ WSASendFails(t)
    PROVE  [Promise!Next]_Promise!vars
<1>1. pc[t] = "wsaSend" /\ sendQueue_' = sendQueue_
    BY DEF WSASend, WSASendFails
<1>2. \A u \in Threads : pc'[u] # "wsaSend"
    BY <1>1 DEF SendInv, SendTypes, Flag, Registrars, WSASend, WSASendFails, Goto
<1>3. PICK first \in Seq(Buffers) : first = sendBuffers_
    BY DEF SendInv, SendTypes
<1>4. PICK rest \in Seq(Buffers) : rest = sendQueue_
    BY DEF SendInv, SendTypes
<1>5. Submitting = first /\ Submitting' = <<>>
    BY <1>1, <1>2, <1>3 DEF Submitting
<1>6. Submitting \o sendQueue_ = first \o rest /\ (Submitting \o sendQueue_)' = rest
    BY <1>1, <1>4, <1>5, ConcatEmptySeq
<1>7. wire' = wire \o first \/ wire' = wire
    BY <1>3 DEF WSASend, WSASendFails
<1>8. CASE first = <<>>
  <2>1. wire \o <<>> = wire /\ first \o rest = rest
      BY <1>8, ConcatEmptySeq DEF SendInv, SendTypes
  <2> QED BY <1>6, <1>7, <1>8, <2>1 DEF Promise!vars
<1>9. CASE first # <<>>
  <2>1. PICK n \in Nat : n = Len(first)
      BY PrefixAndRest
  <2>2. n \in 1 .. Len(first \o rest)
    <3>1. n # 0
        BY <1>9, <2>1, EmptySeq
    <3>2. Len(first \o rest) \in Nat /\ n <= Len(first \o rest)
        BY <2>1, PrefixAndRest, ConcatProperties, LenProperties
    <3> QED BY <3>1, <3>2
  <2>3. /\ SubSeq(first \o rest, 1, n) = first
        /\ SubSeq(first \o rest, n + 1, Len(first \o rest)) = rest
      BY <2>1, PrefixAndRest
  <2>4. Promise!HandOver(n) \/ Promise!Lose(n)
      BY <1>6, <1>7, <2>3 DEF Promise!HandOver, Promise!Lose
  <2> QED BY <1>6, <2>2, <2>4 DEF Promise!Next
<1> QED BY <1>8, <1>9

LEMMA NextRefines == SendInv /\ [Next]_vars => [Promise!Next]_Promise!vars
<1> SUFFICES ASSUME SendInv, [Next]_vars PROVE [Promise!Next]_Promise!vars
    OBVIOUS
<1>1. CASE UNCHANGED sendVars
    BY <1>1, Silent DEF sendVars
<1>2. ASSUME NEW t \in Threads, NEW b \in Buffers, Send(t, b) PROVE UNCHANGED Promise!vars
    BY <1>2, Silent DEF Send, Goto, SendInv, SendTypes
<1>3. ASSUME NEW t \in Threads, Unflag(t) PROVE UNCHANGED Promise!vars
    BY <1>3, Silent DEF Unflag, Goto, SendInv, SendTypes
<1>4. ASSUME NEW t \in Threads, ProcessSend(t) PROVE UNCHANGED Promise!vars
  <2>1. \A u \in Threads : pc[u] # "wsaSend"
      BY <1>4 DEF ProcessSend, SendInv, Flag, Registrars
  <2> QED BY <1>4, <2>1, Silent DEF ProcessSend, Goto, SendInv, SendTypes
<1>5. ASSUME NEW t \in Threads, NextSend(t) PROVE UNCHANGED Promise!vars
    BY <1>5, Silent DEF NextSend, Goto, SendInv, SendTypes
<1>6. CASE ProcessConnect \/ ProcessDisconnect \/ RegisterRecv \/ ProcessRecv \/ HandlePacket \/ OnRecvReturns
    BY <1>6, <1>1 DEF ProcessConnect, ProcessDisconnect, RegisterRecv, ProcessRecv, HandlePacket, OnRecvReturns
<1>7. CASE UNCHANGED vars
    BY <1>7, <1>1 DEF vars
<1> QED BY <1>2, <1>3, <1>4, <1>5, <1>6, <1>7, PushStep, RegisterStep, SubmitStep DEF Next, SendStep

\* Whoever sends and completes in whatever order, Send keeps what SendStream says:
\* first in, first out, nothing twice, and a failure loses only the oldest.
THEOREM SendsInOrder == Spec => IsSendStream
<1>1. Init => Promise!Init
  <2> SUFFICES ASSUME Init PROVE Promise!Init
      OBVIOUS
  <2>1. Submitting = <<>> /\ sendQueue_ = <<>> /\ wire = <<>>
      BY DEF Init, Submitting
  <2> QED BY <2>1, EmptySeq, ConcatEmptySeq DEF Promise!Init
<1> QED BY <1>1, NextRefines, Sending, PTL DEF Spec, IsSendStream, Promise!Spec

=============================================================================
