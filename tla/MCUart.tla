------------------------------- MODULE MCUart -------------------------------
(***************************************************************************)
(* Uart with two messages to send, four symbols to receive and a ring of  *)
(* two symbols.                                                            *)
(***************************************************************************)
EXTENDS Uart
=============================================================================
