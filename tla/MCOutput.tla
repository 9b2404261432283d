------------------------------- MODULE MCOutput -------------------------------
(* A small instance of Output for TLC. *)
EXTENDS Output, TLC

CONSTANTS Times, MaxFrameLen

\* A request alone, a response alone or a request with its response.  How a
\* packet is counted does not depend on its time, so one kind per time will do.
MCItem(t) == [ts |-> t, request |-> t % 3 # 1, response |-> IF t % 3 = 2 THEN 1 ELSE 0]
MCPackets == UNION {[1..n -> {MCItem(t) : t \in Times}] : n \in 0..MaxFrameLen}
MCInputFrames ==
    {[type |-> 0, time_start |-> t, packets |-> p] : t \in Times, p \in MCPackets}
    \cup {[type |-> 0, time_start |-> NoTime, packets |-> << >>],
          [type |-> 1, time_start |-> NoTime, packets |-> << >>]}
=============================================================================
