------------------------------- MODULE MCLog -------------------------------
(***************************************************************************)
(* Log with its three buffers, of two messages each: more messages than    *)
(* fit can be tried while a buffer is sent.  Nothing else is bounded.      *)
(***************************************************************************)
EXTENDS Log
=============================================================================
