------------------------------- MODULE DumpFile -------------------------------
(***************************************************************************)
(* What the input sees of the dumper (dump.c): whether there is one and    *)
(* whether its trace file is open.  Dump implements this specification;    *)
(* Input uses it.                                                          *)
(***************************************************************************)
VARIABLES dumper, \* "on", "off" (none, or destroyed), "aborted" (assertion failed)
          dtrace  \* is the trace file open?

dumpFile == <<dumper, dtrace>>

\* dns_input_process_read_packet with a packet to dump: the packet is skipped
\* or written, or opening fails, or writing fails.  After a failure the dumper
\* is destroyed, and dns_dump_destroy asserts that the trace is closed.
DumpPacketFile ==
    /\ dumper = "on"
    /\ \/ UNCHANGED dumpFile
       \/ dtrace' = TRUE /\ UNCHANGED dumper
       \/ dtrace' = FALSE /\ dumper' = "off"
       \/ dtrace' = TRUE /\ dumper' = "aborted"

\* dns_dump_close in dns_input_finish and dns_dump_destroy in dns_input_destroy.
DumpCloseFile == dumper = "on" /\ dtrace' = FALSE /\ dumper' = "off"

DumpFileInit == dumper \in {"on", "off"} /\ dtrace = FALSE
DumpFileNext == DumpPacketFile \/ DumpCloseFile
DumpFileSpec == DumpFileInit /\ [][DumpFileNext]_dumpFile
=============================================================================
