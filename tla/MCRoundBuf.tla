----------------------------- MODULE MCRoundBuf -----------------------------
(***************************************************************************)
(* RoundBuf with four slots.  The array is smaller than two reads, so the  *)
(* write index wraps in every phase of a read; SizeMod stands for 2^32 and *)
(* only has to be larger than any real size.                               *)
(***************************************************************************)
EXTENDS RoundBuf

MCNeeds == {1, 2, 3}
=============================================================================
