----------------------------- MODULE MCTcpSession -----------------------------
(***************************************************************************)
(* Lines for TLC.  The second command is longer than the first and can be  *)
(* cut before and behind as many bytes as that had; the third is shorter,  *)
(* so that what the second one leaves in the buffer shows behind it.       *)
(***************************************************************************)
EXTENDS TcpSession

SomeSizes == <<2, 4, 3>>
=============================================================================
