------------------------------ MODULE Session ------------------------------
(***************************************************************************)
(* ServerLibrary/SessionBase.cpp on the server's side of a connection:     *)
(* sending from any thread, the completions of sends and receives, errors  *)
(* and disconnecting; and GameSession::OnRecv, which finds the packets.    *)
(*                                                                         *)
(* Any thread calls Send. A completion is handled when a worker thread     *)
(* takes it from the port. Only one receive is pending at a time, so the   *)
(* thread that handles it needs no name. The session's lock is held across *)
(* actions only in ProcessSend; the other critical sections are an action  *)
(* each, which the module Lock justifies.                                  *)
(***************************************************************************)
EXTENDS RecvBuffer

CONSTANTS Threads, Nobody,
          Buffers, \* the send buffers, each sent to the session once
          Stream   \* what the client sends: packets, each beginning with its size

ASSUME NobodyIsNone == Nobody \notin Threads
ASSUME StreamBytes  == Stream \in Seq(Bytes)

VARIABLES
    bIsConnected_,
    sendQueue_, bIsRegisteredSend_,
    sendBuffers_,  (* of sendEvent_                                           *)
    sending,       (* WSASend has been accepted and its completion not handled *)
    lock,          (* the thread that holds the session's lock in RegisterSend *)
    pc, buf,       (* where each thread is in Send or ProcessSend, and its buffer *)
    recv,          (* where the receive is                                   *)
    processLen,    (* of OnRecv                                              *)
    arrived,       (* how many bytes of Stream have been received            *)
    disconnect,    (* the state of disconnectEvent_                          *)
    unsent,        (* history: buffers the game has not sent yet             *)
    wire,          (* history: buffers handed to the socket                  *)
    sendFailed     (* history: a WSASend failed and HandleError only logged it *)

sendVars == <<sendQueue_, bIsRegisteredSend_, sendBuffers_, sending, lock, pc, buf, unsent, wire,
              sendFailed>>
recvVars == <<bufferVars, recv, processLen, arrived>>
linkVars == <<bIsConnected_, disconnect>>
vars == <<sendVars, recvVars, linkVars>>

Places == {"idle", "push", "register", "wsaSend", "unflag", "sent"}

TypeOK ==
    /\ bIsConnected_ \in BOOLEAN /\ bIsRegisteredSend_ \in BOOLEAN
    /\ sending \in BOOLEAN /\ sendFailed \in BOOLEAN
    /\ sendQueue_ \in Seq(Buffers) /\ sendBuffers_ \in Seq(Buffers) /\ wire \in Seq(Buffers)
    /\ lock \in Threads \cup {Nobody}
    /\ pc \in [Threads -> Places] /\ buf \in [Threads -> Buffers \cup {Nobody}]
    /\ unsent \subseteq Buffers
    /\ recv \in {"new", "register", "pending", "handling", "none"}
    /\ processLen \in 0 .. MAX_BUFFER_SIZE /\ arrived \in 0 .. Len(Stream)
    /\ disconnect \in {"none", "pending", "failed", "done"}
    /\ BufferTypeOK

\* bIsRegisteredSend_ has no initialiser; the build's library zeroes an atomic.
Init ==
    /\ bIsConnected_ = FALSE /\ disconnect = "none"
    /\ sendQueue_ = <<>> /\ bIsRegisteredSend_ = FALSE
    /\ sendBuffers_ = <<>> /\ sending = FALSE /\ lock = Nobody
    /\ pc = [t \in Threads |-> "idle"] /\ buf = [t \in Threads |-> Nobody]
    /\ unsent = Buffers /\ wire = <<>> /\ sendFailed = FALSE
    /\ recv = "new" /\ processLen = 0 /\ arrived = 0
    /\ BufferInit

Goto(t, there) == pc' = [pc EXCEPT ![t] = there]

-----------------------------------------------------------------------------
(* Connecting, errors and disconnecting.                                   *)

\* The listener has accepted the client: RegisterSession, OnConnected.
ProcessConnect ==
    /\ recv = "new"
    /\ bIsConnected_' = TRUE
    /\ recv' = "register"
    /\ UNCHANGED <<sendVars, bufferVars, processLen, arrived, disconnect>>

\* Disconnect: the first call registers DisconnectEx, which may fail at once.
Disconnect ==
    IF bIsConnected_
    THEN bIsConnected_' = FALSE /\ disconnect' \in {"pending", "failed"}
    ELSE UNCHANGED linkVars

\* HandleError disconnects on a reset or an abort, and only logs the others.
HandleError(reset) == IF reset THEN Disconnect ELSE UNCHANGED linkVars

\* DeleteSession and OnDisconnect.
ProcessDisconnect ==
    /\ disconnect = "pending"
    /\ disconnect' = "done"
    /\ UNCHANGED <<sendVars, recvVars, bIsConnected_>>

-----------------------------------------------------------------------------
(* Sending                                                                 *)

\* Send drops the buffer if the session is not connected.
Send(t, b) ==
    /\ pc[t] = "idle" /\ recv # "new" /\ b \in unsent
    /\ unsent' = unsent \ {b}
    /\ IF bIsConnected_
       THEN Goto(t, "push") /\ buf' = [buf EXCEPT ![t] = b]
       ELSE UNCHANGED <<pc, buf>>
    /\ UNCHANGED <<sendQueue_, bIsRegisteredSend_, sendBuffers_, sending, lock, wire, sendFailed,
                   recvVars, linkVars>>

\* Under the lock: push, and whoever raises the flag goes on to RegisterSend.
SendPush(t) ==
    /\ pc[t] = "push" /\ lock = Nobody
    /\ sendQueue_' = Append(sendQueue_, buf[t])
    /\ buf' = [buf EXCEPT ![t] = Nobody]
    /\ Goto(t, IF bIsRegisteredSend_ THEN "idle" ELSE "register")
    /\ bIsRegisteredSend_' = TRUE
    /\ UNCHANGED <<sendBuffers_, sending, lock, unsent, wire, sendFailed, recvVars, linkVars>>

\* RegisterSend, under the lock: the queue moves into the event.
RegisterSend(t) ==
    /\ pc[t] = "register" /\ lock \in {Nobody, t}
    /\ sendBuffers_' = sendBuffers_ \o sendQueue_
    /\ sendQueue_' = <<>>
    /\ Goto(t, "wsaSend")
    /\ UNCHANGED <<bIsRegisteredSend_, sending, lock, buf, unsent, wire, sendFailed,
                   recvVars, linkVars>>

Release(t) == lock' = IF lock = t THEN Nobody ELSE lock

WSASend(t) ==
    /\ pc[t] = "wsaSend"
    /\ sending' = TRUE
    /\ wire' = wire \o sendBuffers_
    /\ Goto(t, "idle") /\ Release(t)
    /\ UNCHANGED <<sendQueue_, bIsRegisteredSend_, sendBuffers_, buf, unsent, sendFailed,
                   recvVars, linkVars>>

\* The event's buffers are gone; the flag goes down in a step of its own.
WSASendFails(t) ==
    /\ pc[t] = "wsaSend"
    /\ \E reset \in BOOLEAN : HandleError(reset) /\ sendFailed' = (sendFailed \/ ~reset)
    /\ sendBuffers_' = <<>>
    /\ Goto(t, "unflag")
    /\ UNCHANGED <<sendQueue_, bIsRegisteredSend_, sending, lock, buf, unsent, wire, recvVars>>

Unflag(t) ==
    /\ pc[t] = "unflag"
    /\ bIsRegisteredSend_' = FALSE
    /\ Goto(t, "idle") /\ Release(t)
    /\ UNCHANGED <<sendQueue_, sendBuffers_, sending, buf, unsent, wire, sendFailed,
                   recvVars, linkVars>>

\* Mutant: the event keeps the buffers of the completed send.
ProcessSendKeeps(t) ==
    /\ sending /\ pc[t] = "idle"
    /\ sending' = FALSE
    /\ \/ Disconnect /\ UNCHANGED pc
       \/ Goto(t, "sent") /\ UNCHANGED linkVars
    /\ UNCHANGED <<sendQueue_, bIsRegisteredSend_, sendBuffers_, lock, buf, unsent, wire,
                   sendFailed, recvVars>>

\* The completion: no bytes is a disconnection, and leaves the flag up.
ProcessSend(t) ==
    /\ sending /\ pc[t] = "idle"
    /\ sending' = FALSE
    /\ sendBuffers_' = <<>>
    /\ \/ Disconnect /\ UNCHANGED pc
       \/ Goto(t, "sent") /\ UNCHANGED linkVars
    /\ UNCHANGED <<sendQueue_, bIsRegisteredSend_, lock, buf, unsent, wire, sendFailed, recvVars>>

\* Mutant: what was queued during the send is left to the next Send.
NextSendNever(t) ==
    /\ pc[t] = "sent" /\ lock = Nobody
    /\ bIsRegisteredSend_' = FALSE
    /\ Goto(t, "idle")
    /\ UNCHANGED <<sendQueue_, sendBuffers_, sending, lock, buf, unsent, wire, sendFailed,
                   recvVars, linkVars>>

\* Under the lock: the flag goes down on an empty queue; otherwise RegisterSend,
\* with the lock held until it returns.
NextSend(t) ==
    /\ pc[t] = "sent" /\ lock = Nobody
    /\ IF sendQueue_ = <<>>
       THEN bIsRegisteredSend_' = FALSE /\ Goto(t, "idle") /\ UNCHANGED lock
       ELSE Goto(t, "register") /\ lock' = t /\ UNCHANGED bIsRegisteredSend_
    /\ UNCHANGED <<sendQueue_, sendBuffers_, sending, buf, unsent, wire, sendFailed,
                   recvVars, linkVars>>

-----------------------------------------------------------------------------
(* Receiving                                                               *)

\* WSARecv of as many bytes as there is room for. After an error that
\* HandleError only logs, the session receives nothing any more.
RegisterRecv ==
    /\ recv = "register"
    /\ \/ bIsConnected_ /\ recv' = "pending" /\ UNCHANGED linkVars
       \/ bIsConnected_ /\ recv' = "none" /\ \E reset \in BOOLEAN : HandleError(reset)
       \/ ~bIsConnected_ /\ recv' = "none" /\ UNCHANGED linkVars
    /\ UNCHANGED <<sendVars, bufferVars, processLen, arrived>>

\* The completion with some bytes, or with none: closed, reset or aborted.
ProcessRecv ==
    /\ recv = "pending"
    /\ \/ \E n \in 1 .. Len(Stream) - arrived :
              /\ n <= GetFreeSize
              /\ WriteData(SubSeq(Stream, arrived + 1, arrived + n))
              /\ arrived' = arrived + n
              /\ recv' = "handling" /\ processLen' = 0
              /\ UNCHANGED linkVars
       \/ Disconnect /\ recv' = "none" /\ UNCHANGED <<bufferVars, processLen, arrived>>
    /\ UNCHANGED sendVars

\* The size in the header at processLen, if both are there.
Whole == /\ processLen < GetDataSize
         /\ buffer_[readPos_ + processLen] <= GetDataSize - processLen

\* OnRecv: HandlePacket for each whole packet.
HandlePacket ==
    /\ recv = "handling" /\ Whole
    /\ processLen' = processLen + buffer_[readPos_ + processLen]
    /\ UNCHANGED <<sendVars, linkVars, bufferVars, recv, arrived>>

\* Back in ProcessRecv: ReadData, CleanupBuffer, and the next receive.
OnRecvReturns ==
    /\ recv = "handling" /\ ~Whole
    /\ CleanupBuffer(readPos_ + processLen)
    /\ recv' = "register" /\ processLen' = 0
    /\ UNCHANGED <<sendVars, linkVars, arrived>>

-----------------------------------------------------------------------------
SendStep(t) == \/ SendPush(t) \/ RegisterSend(t) \/ WSASend(t) \/ WSASendFails(t) \/ Unflag(t)
               \/ NextSend(t)

Next ==
    \/ \E t \in Threads : \/ SendStep(t) \/ ProcessSend(t)
                          \/ \E b \in Buffers : Send(t, b)
    \/ ProcessConnect \/ ProcessDisconnect
    \/ RegisterRecv \/ ProcessRecv \/ HandlePacket \/ OnRecvReturns

Spec == Init /\ [][Next]_vars

\* A thread in Send or ProcessSend goes on; a worker takes the completion of a
\* send from the port. Neither the client nor the game need send anything.
Fairness == /\ \A t \in Threads : WF_vars(SendStep(t))
            /\ WF_vars(\E t \in Threads : ProcessSend(t))

FairSpec == Spec /\ Fairness

-----------------------------------------------------------------------------
\* The buffers a thread in RegisterSend is about to hand to the socket.
Submitting == IF \E t \in Threads : pc[t] = "wsaSend" THEN sendBuffers_ ELSE <<>>

\* However threads and completions interleave, buffers reach the socket in the
\* order of their pushes, none twice; a failed WSASend loses the oldest.
Promise == INSTANCE SendStream WITH outbox <- Submitting \o sendQueue_, stream <- wire
IsSendStream == Promise!Spec

\* A queued buffer leaves the queue without another Send, unless the session is
\* disconnected or a failed WSASend was only logged.
EveryBufferLeaves == \A b \in Buffers :
    LET Queued == \E i \in DOMAIN sendQueue_ : sendQueue_[i] = b
    IN Queued ~> ~Queued \/ ~bIsConnected_ \/ sendFailed

\* A receive is never registered without room: it would complete with no bytes,
\* which ProcessRecv takes for the end of the connection.
RoomToReceive == recv \in {"register", "pending"} => GetFreeSize > 0

\* The unread part of the buffer is what the client sent last.
UnreadIntact == \A i \in 0 .. GetDataSize - 1 :
    buffer_[readPos_ + i] = Stream[arrived - GetDataSize + i + 1]

=============================================================================
