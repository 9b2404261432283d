-------------------------------- MODULE Dump --------------------------------
(***************************************************************************)
(* The dump of packets that could not be processed (dump.c): a trace file  *)
(* opened by the first packet, rotated with the time of the packets, and   *)
(* limited by a token bucket.  Time is in seconds and tokens are whole     *)
(* bytes; opening and writing may fail (libtrace).                         *)
(***************************************************************************)
EXTENDS Integers

CONSTANTS Rate,       \* dump_rate_limit in bytes per second, 0 for no limit
          PeriodSec,  \* dump_period, 0 for no rotation
          Lengths,    \* sizes of packets
          MaxTime,    \* bounds the timestamps of packets
          MaxEvents,  \* bounds the number of packets
          NoTime

ASSUME DumpAssumption == /\ Rate \in Nat /\ PeriodSec \in Nat
                         /\ Lengths \subseteq Nat \ {0}
                         /\ MaxTime \in Nat /\ MaxEvents \in Nat
                         /\ NoTime \notin Int

VARIABLES dumper, dtrace,                  \* see DumpFile
          tokens, last_event, dump_opened, \* struct dns_dump
          current_dumped, current_bytes, current_skipped

counts == <<current_dumped, current_bytes, current_skipped>>
vars == <<dumper, dtrace, tokens, last_event, dump_opened, counts>>

DumpBurstMult == 10
Burst == DumpBurstMult * Rate

\* dns_dump_create
Init == /\ dumper = "on" /\ dtrace = FALSE
        /\ tokens = Burst
        /\ last_event = NoTime /\ dump_opened = NoTime
        /\ current_dumped = 0 /\ current_bytes = 0 /\ current_skipped = 0

\* dns_next_rotation
NextRotation(period, last, now) == last < now - period

\* Faulty: the clock follows the packets back.
EventTimeBack(ts) == ts

\* The first packet starts the clock, which never runs back.
LastEvent(ts) == IF last_event = NoTime THEN ts ELSE last_event
EventTime(ts) == IF ts > LastEvent(ts) THEN ts ELSE LastEvent(ts)

\* The tokens when the packet is looked at, with what was earned since the last
\* one.  Without a limit they are not used.
Tokens(ts) == LET t == tokens + Rate * (EventTime(ts) - LastEvent(ts))
              IN  IF Rate = 0 THEN tokens ELSE IF t > Burst THEN Burst ELSE t

\* The clock moves with every packet only if there is a limit.
Clock(ts) == IF Rate = 0 THEN LastEvent(ts) ELSE EventTime(ts)

\* Faulty: the limit is never applied.
LimitedNever(ts) == FALSE

Limited(ts) == Rate > 0 /\ Tokens(ts) < 0

\* A new file is due: there is none, or its period is over.
Reopen(ts) == dtrace => PeriodSec > 0 /\ NextRotation(PeriodSec, dump_opened, EventTime(ts))

\* dns_dump_packet with its caller, dns_input_process_read_packet, which
\* destroys the dumper after an error.
Skip(ts) == /\ dumper = "on" /\ Limited(ts)
            /\ tokens' = Tokens(ts) /\ last_event' = Clock(ts)
            /\ current_skipped' = current_skipped + 1
            /\ UNCHANGED <<dumper, dtrace, dump_opened, current_dumped, current_bytes>>

\* Faulty: the dumper is kept.
OpenFailsStays(ts) == /\ dumper = "on" /\ ~Limited(ts) /\ Reopen(ts)
                      /\ tokens' = Tokens(ts) /\ last_event' = Clock(ts)
                      /\ dtrace' = FALSE
                      /\ UNCHANGED <<dumper, dump_opened, counts>>

OpenFails(ts) == /\ dumper = "on" /\ ~Limited(ts) /\ Reopen(ts)
                 /\ tokens' = Tokens(ts) /\ last_event' = Clock(ts)
                 /\ dtrace' = FALSE /\ dumper' = "off"
                 /\ UNCHANGED <<dump_opened, counts>>

\* dns_dump_open, if a file is due, and trace_write_packet.  A failure to write
\* meets the assertion in dns_dump_destroy that the trace is closed.
Write(ts, length) ==
    /\ dumper = "on" /\ ~Limited(ts)
    /\ dtrace' = TRUE
    /\ dump_opened' = IF Reopen(ts) THEN EventTime(ts) ELSE dump_opened
    /\ last_event' = IF Reopen(ts) THEN EventTime(ts) ELSE Clock(ts)
    /\ LET reset(n) == IF Reopen(ts) THEN 0 ELSE n
           full == IF Reopen(ts) THEN Burst ELSE Tokens(ts)
       IN  /\ current_skipped' = reset(current_skipped)
           /\ \/ /\ dumper' = "on"
                 /\ tokens' = full - length
                 /\ current_dumped' = reset(current_dumped) + 1
                 /\ current_bytes' = reset(current_bytes) + length
              \/ /\ dumper' = "aborted"
                 /\ tokens' = full
                 /\ current_dumped' = reset(current_dumped)
                 /\ current_bytes' = reset(current_bytes)

\* dns_dump_close in dns_input_finish and dns_dump_destroy in dns_input_destroy.
Close == /\ dumper = "on"
         /\ dtrace' = FALSE /\ dumper' = "off"
         /\ UNCHANGED <<tokens, last_event, dump_opened, counts>>

Packet == \E ts \in 0..MaxTime, length \in Lengths :
    /\ current_dumped + current_skipped < MaxEvents
    /\ Skip(ts) \/ OpenFails(ts) \/ Write(ts, length)

Finished == dumper # "on" /\ UNCHANGED vars

Next == Packet \/ Close \/ Finished

Spec == Init /\ [][Next]_vars
-----------------------------------------------------------------------------
Longest(n) == \A length \in Lengths : length <= n

\* The variables have the types of the C objects, and an open file has an
\* opening time, not after the last event.
TypeOK == /\ dumper \in {"on", "off", "aborted"} /\ dtrace \in BOOLEAN
          /\ tokens \in Int
          /\ last_event \in Int \cup {NoTime} /\ dump_opened \in Int \cup {NoTime}
          /\ current_dumped \in Nat /\ current_bytes \in Nat /\ current_skipped \in Nat
          /\ dtrace => /\ dump_opened # NoTime /\ last_event # NoTime
                       /\ dump_opened <= last_event

\* The rate limit of a file: up to any packet it holds no more than the burst,
\* the rate times its age, and the packet that used up the tokens.
FileRateLimited ==
    \A n \in Lengths : Longest(n) /\ dtrace /\ Rate > 0 =>
        current_bytes <= Burst + Rate * (last_event - dump_opened) + n

\* Why: every byte written was paid for with a token, the bucket started full
\* and earns Rate tokens a second, and its debt is at most one packet.
TokensPaid ==
    /\ TypeOK
    /\ dtrace /\ Rate > 0 =>
         /\ tokens + current_bytes <= Burst + Rate * (last_event - dump_opened)
         /\ \A n \in Lengths : Longest(n) => tokens >= -n

DF == INSTANCE DumpFile

\* The dumper is what the model of the input takes it for.
ImplementsDumpFile == DF!DumpFileSpec

\* dns_dump_destroy's assertion "dump && !dump->trace" holds when the input gives
\* up dumping after an error.
DestroyAssertion == dumper # "aborted"
=============================================================================
