----------------------------- MODULE MCAppCore -----------------------------
(***************************************************************************)
(* AppCore with two channels.  Two requests are sent: the second may       *)
(* arrive at any time while the first is worked on.  Units of 5 s: 10 s of *)
(* sleep, 15 s of watchdog.                                                *)
(***************************************************************************)
EXTENDS AppCore

Measure(channels) == [cmd : {"MEASUREMENT"}, channel : channels]

\* Safety: both channels, the channel 0 that is refused, another command.
MCRequests == Measure(0..NChannels) \cup [cmd : {"OTHER"}, channel : {0}]

\* Liveness: a measurement, and another request while its answer waits.
MCLivenessRequests == Measure({1})

\* All kinds of requests, the channel after the last among them.
MCAllRequests == Measure(0..(NChannels + 1)) \cup
                 [cmd : {"INFO", "OTHER", "BAD"}, channel : {0}]
=============================================================================
