------------------------------ MODULE MCMatch ------------------------------
(* Instances of Match for TLC: a chaser and one fugitive.                  *)
EXTENDS Match

\* Any number of packets: the state does not grow with them.
MCPackets == [p \in Players |-> 0]

\* Few for the run in which both connections may go: both players get ready,
\* and the fugitive may then leave, escape or be disconnected.
MCFewPackets == [p \in Players |-> IF p = CHASER_INDEX THEN 1 ELSE 2]

=============================================================================
