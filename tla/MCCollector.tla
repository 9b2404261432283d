----------------------------- MODULE MCCollector -----------------------------
(* A small instance of Collector for TLC. *)
EXTENDS Collector

\* Each kind of input with what matters for it: a live trace, whose clock goes on, to
\* one plain file; a pcap file with a dumper to plain files that rotate; and one to a
\* pipe.
MCInit == /\ Init
          /\ \/ inputs = 0 /\ dumper = "off" /\ ~pipe_cmd /\ period_sec = 0
             \/ inputs = 1 /\ dumper = "on" /\ ~pipe_cmd /\ period_sec = 1
             \/ inputs = 1 /\ dumper = "off" /\ pipe_cmd /\ period_sec = 0
MCLiveSpec == MCInit /\ [][Next]_vars /\ Fairness
=============================================================================
