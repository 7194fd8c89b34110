------------------------------- MODULE MCRoom -------------------------------
EXTENDS Room, TLC

CONSTANTS host, guest

\* The host creates the room, gets ready and may do one thing more; the guest
\* enters, gets ready, and may change its mind twice, leave, or enter again.
Packets == host :> 3 @@ guest :> 4
=============================================================================
