--------------------------- MODULE MCCmdProcessor ---------------------------
(***************************************************************************)
(* CmdProcessor with two requests to the device, so that the header of one *)
(* begins like that of the other: one without data, and one whose data is  *)
(* a byte equal to the marker.  The ring has five slots: its write index   *)
(* wraps in every part of a message, and a second message overflows it.    *)
(* Three values of the clock with a limit of 1 ms give a deadline that is  *)
(* reached, one that is over at once and one that never comes.             *)
(***************************************************************************)
EXTENDS CmdProcessor, TLC

CONSTANTS clear, measure

MCFrames == {clear, measure}
MCSymbols == {Marker, Own, All, Noise} \cup MCFrames
MCId == clear :> Own @@ measure :> Own
MCCmd == clear :> "CLEAR_DATA" @@ measure :> "MEASUREMENT"
MCData == clear :> << >> @@ measure :> <<Marker>>

\* A damaged header spells the largest size, any other symbol none.
MCSizeOf == [s \in MCSymbols |-> IF s \in {measure, Noise} THEN 1 ELSE 0]
=============================================================================
