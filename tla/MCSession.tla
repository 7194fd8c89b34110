----------------------------- MODULE MCSession -----------------------------
(***************************************************************************)
(* A buffer of six bytes, compacted when at most two are free, and three   *)
(* packets of two and three bytes.                                         *)
(***************************************************************************)
EXTENDS Session, TLC

MCStream == <<2, 5, 3, 5, 5, 3, 5, 5>>
MCBeyond == {0, 4}

=============================================================================
