----------------------------- MODULE SendStream -----------------------------
(***************************************************************************)
(* What SessionBase::Send promises to the game: buffers leave for the      *)
(* socket in the order they were sent, each at most once. A failure loses  *)
(* the oldest ones, and never one from the middle.                         *)
(***************************************************************************)
EXTENDS Integers, Sequences

CONSTANT Buffers

VARIABLES outbox, \* sent by the game, not yet handed to the socket
          stream  \* handed to the socket

vars == <<outbox, stream>>

Init == outbox = <<>> /\ stream = <<>>

Accept(b) ==
    /\ outbox' = Append(outbox, b)
    /\ UNCHANGED stream

\* The n oldest go together, or are lost together.
HandOver(n) ==
    /\ outbox' = SubSeq(outbox, n + 1, Len(outbox))
    /\ stream' = stream \o SubSeq(outbox, 1, n)

Lose(n) ==
    /\ outbox' = SubSeq(outbox, n + 1, Len(outbox))
    /\ UNCHANGED stream

Next == \/ \E b \in Buffers : Accept(b)
        \/ \E n \in 1 .. Len(outbox) : HandOver(n) \/ Lose(n)

Spec == Init /\ [][Next]_vars

=============================================================================
