-------------------------------- MODULE Input --------------------------------
(***************************************************************************)
(* The input (input.c) as main.c drives it: the main thread opens one pcap *)
(* file after the other, or one live trace, groups the packets it reads    *)
(* into frames, and ends with the final frame.  A step is what the thread  *)
(* does between two calls that may block or, with libtrace, fail.          *)
(*                                                                         *)
(* Packets that parse are numbered in the order they are read and ts[i] is *)
(* the timestamp of packet i.  Times and the grace of a live trace are in  *)
(* the same unit.                                                          *)
(***************************************************************************)
EXTENDS Integers, Sequences, DumpFile

CONSTANTS Files,            \* numbers of pcap files to try, 0 for a live trace
          Times, Sizes,     \* timestamps and sizes of packets
          FrameMaxDuration, FrameMaxSize,
          RealTimeGrace, ReportPeriod,
          OutCapacity,      \* capacity of the queue to the matcher
          NoTime, NoFrame,
          MaxPackets,       \* bounds the packets read
          MaxNow            \* bounds the clock

ASSUME InputAssumption ==
    /\ Files \subseteq Nat /\ Times \subseteq Int /\ Sizes \subseteq Nat
    /\ FrameMaxDuration \in Nat \ {0} /\ FrameMaxSize \in Nat
    /\ RealTimeGrace \in Nat /\ ReportPeriod \in Nat
    /\ OutCapacity \in Nat \ {0} /\ MaxPackets \in Nat /\ MaxNow \in Nat
    /\ NoTime \notin Int

\* A frame; packets are told by their numbers.
Frame == [type : {0, 1}, time_start : Int \cup {NoTime}, time_end : Int \cup {NoTime},
          size : Nat, packets : Seq(Nat)]

ASSUME NoFrameAssumption == NoFrame \notin Frame

VARIABLES inputs,                     \* number of pcap files on the command line
          frame,                      \* input->frame
          trace, packet, bpf_filter,  \* is each allocated?
          current_packets_read, total_packets_read, last_report_time,
          pc, file,                   \* where the thread is; the file main is at
          target, return, new,        \* of advance_time_to; the packet just read
          out, taken,                 \* the queue to the matcher
          ts, size, seen,             \* packets that parsed; all packets read
          now, dns_global_stop        \* CLOCK_REALTIME; set by the SIGINT handler

Online == inputs = 0

stats == <<current_packets_read, total_packets_read, last_report_time>>
libtrace == <<trace, packet, bpf_filter>>
queue == <<out, taken>>
packets == <<ts, size, seen>>
outside == <<inputs, now, dns_global_stop>>
vars == <<frame, libtrace, stats, pc, file, target, return, new, queue, packets,
          outside, dumpFile>>

NewFrame(time) == [type |-> 0, time_start |-> time, time_end |-> time,
                   size |-> 0, packets |-> << >>]

\* dns_input_create, in the state main reaches its loop over the inputs.
Init == /\ inputs \in Files
        /\ frame = NewFrame(NoTime)
        /\ trace = FALSE /\ packet = FALSE /\ bpf_filter = FALSE
        /\ current_packets_read = 0 /\ total_packets_read = 0
        /\ last_report_time = NoTime
        /\ pc = (IF Online THEN "open" ELSE "file") /\ file = 1
        /\ target = NoTime /\ return = "loop" /\ new = 0
        /\ out = << >> /\ taken = 0
        /\ ts = << >> /\ size = << >> /\ seen = 0
        /\ now = 0 /\ dns_global_stop = FALSE
        /\ DumpFileInit

Max2(a, b) == IF a > b THEN a ELSE b

-----------------------------------------------------------------------------
\* dns_next_rotation on the clock; DNS_NO_TIME is before every time.
ReportDue == last_report_time = NoTime \/ last_report_time < now - ReportPeriod

\* Faulty: a report that is not due forgets what was read.
ReportLoses(force) ==
    /\ current_packets_read' = 0
    /\ total_packets_read' = IF force \/ ReportDue
                             THEN total_packets_read + current_packets_read
                             ELSE total_packets_read
    /\ last_report_time' = IF force \/ ReportDue THEN now ELSE last_report_time

\* dns_input_report.  The bytes are counted like the packets.
Report(force) ==
    IF force \/ ReportDue
    THEN /\ current_packets_read' = 0
         /\ total_packets_read' = total_packets_read + current_packets_read
         /\ last_report_time' = now
    ELSE UNCHANGED stats

\* dns_frame_queue_enqueue, on a queue that blocks while it is full.
Enqueue(f) == Len(out) - taken < OutCapacity /\ out' = Append(out, f) /\ UNCHANGED taken

\* dns_input_output_frame: f goes out, and a frame that begins where it ended
\* comes after it.
OutputFrame(f) == Report(FALSE) /\ Enqueue(f) /\ frame' = NewFrame(f.time_end)

\* dns_input_advance_time_to: start, loop, end.
AdvanceTimeTo(time, l) ==
    /\ pc' = "advance" /\ target' = time /\ return' = l
    /\ frame' = IF frame.time_start = NoTime
                THEN [frame EXCEPT !.time_start = time, !.time_end = time] ELSE frame

FrameOver == target >= frame.time_start + FrameMaxDuration

AdvanceOutput ==
    /\ pc = "advance" /\ FrameOver
    /\ OutputFrame([frame EXCEPT !.time_end = frame.time_start + FrameMaxDuration])
    /\ UNCHANGED <<libtrace, pc, file, target, return, new, packets, outside, dumpFile>>

AdvanceDone ==
    /\ pc = "advance" /\ ~FrameOver
    /\ frame' = [frame EXCEPT !.time_end = Max2(@, target)]
    /\ pc' = return
    /\ UNCHANGED <<libtrace, stats, file, target, return, new, queue, packets, outside,
                   dumpFile>>

-----------------------------------------------------------------------------
\* After dns_input_process returns: main goes to the next file, if any.
NextInput == IF Online THEN pc' = "finish" /\ UNCHANGED file
                       ELSE pc' = "file" /\ file' = file + 1

\* The loop of main over the pcap files.
FileOpens == /\ pc = "file" /\ file <= inputs
             /\ pc' = "open"
             /\ UNCHANGED <<frame, libtrace, stats, file, target, return, new, queue,
                            packets, outside, dumpFile>>

\* A file that cannot be opened ends the loop; the first one ends the program.
FileMissing == /\ pc = "file" /\ file <= inputs
               /\ pc' = IF file = 1 THEN "dead" ELSE "finish"
               /\ UNCHANGED <<frame, libtrace, stats, file, target, return, new, queue,
                              packets, outside, dumpFile>>

FilesDone == /\ pc = "file" /\ file > inputs
             /\ pc' = "finish"
             /\ UNCHANGED <<frame, libtrace, stats, file, target, return, new, queue,
                            packets, outside, dumpFile>>

\* dns_input_trace_open.  A live trace starts the time of its first frame, once
\* the trace is created.
StartTime == frame' = IF Online THEN NewFrame(now) ELSE frame

CreateFails == /\ pc = "open" /\ NextInput
               /\ UNCHANGED <<frame, libtrace, stats, target, return, new, queue, packets,
                              outside, dumpFile>>

ConfigFails == /\ pc = "open" /\ StartTime /\ NextInput
               /\ UNCHANGED <<libtrace, stats, target, return, new, queue, packets,
                              outside, dumpFile>>

\* The assertion before trace_create_filter.
FilterAsserts == /\ pc = "open" /\ bpf_filter /\ StartTime
                 /\ pc' = "aborted"
                 /\ UNCHANGED <<libtrace, stats, file, target, return, new, queue,
                                packets, outside, dumpFile>>

FilterFails == /\ pc = "open" /\ ~bpf_filter /\ StartTime /\ NextInput
               /\ bpf_filter' = TRUE
               /\ UNCHANGED <<trace, packet, stats, target, return, new, queue, packets,
                              outside, dumpFile>>

StartFails == /\ pc = "open" /\ ~bpf_filter /\ StartTime /\ NextInput
              /\ UNCHANGED <<libtrace, stats, target, return, new, queue, packets,
                             outside, dumpFile>>

OpenSucceeds == /\ pc = "open" /\ ~bpf_filter /\ StartTime
                /\ trace' = TRUE /\ packet' = TRUE /\ bpf_filter' = TRUE
                /\ last_report_time' = IF last_report_time = NoTime THEN now
                                       ELSE last_report_time
                /\ pc' = "loop"
                /\ UNCHANGED <<current_packets_read, total_packets_read, file, target,
                               return, new, queue, packets, outside, dumpFile>>

\* dns_input_trace_close
TraceClose == trace' = FALSE /\ packet' = FALSE /\ bpf_filter' = FALSE

-----------------------------------------------------------------------------
\* Faulty: the loop goes on.
InterruptedGoesOn == /\ pc = "loop" /\ dns_global_stop /\ Report(TRUE)
                     /\ UNCHANGED <<frame, libtrace, pc, file, target, return, new, queue,
                                    packets, outside, dumpFile>>

\* The loop of dns_input_process: stop, or what trace_event returns.
Interrupted == /\ pc = "loop" /\ dns_global_stop
               /\ Report(TRUE) /\ TraceClose /\ NextInput
               /\ UNCHANGED <<frame, target, return, new, queue, packets, outside, dumpFile>>

EventTerminate == /\ pc = "loop" /\ ~dns_global_stop
                  /\ Report(TRUE) /\ TraceClose /\ NextInput
                  /\ UNCHANGED <<frame, target, return, new, queue, packets, outside,
                                 dumpFile>>

\* dns_input_process_read_packet with a packet that does not parse.
EventBadPacket ==
    /\ pc = "loop" /\ ~dns_global_stop /\ seen < MaxPackets
    /\ seen' = seen + 1
    /\ current_packets_read' = current_packets_read + 1
    /\ IF dumper = "on" THEN DumpPacketFile ELSE UNCHANGED dumpFile
    /\ pc' = IF dumper' = "aborted" THEN "aborted" ELSE "loop"
    /\ UNCHANGED <<frame, libtrace, total_packets_read, last_report_time, file, target,
                   return, new, queue, ts, size, outside>>

\* The same with a DNS packet: the time advances to it, then it is appended.
EventPacket(time, sz) ==
    /\ pc = "loop" /\ ~dns_global_stop /\ seen < MaxPackets
    /\ seen' = seen + 1 /\ ts' = Append(ts, time) /\ size' = Append(size, sz)
    /\ current_packets_read' = current_packets_read + 1
    /\ new' = Len(ts')
    /\ AdvanceTimeTo(time, "append")
    /\ UNCHANGED <<libtrace, total_packets_read, last_report_time, file, queue, outside,
                   dumpFile>>

Fits == frame.packets = << >> \/ frame.size + size[new] <= FrameMaxSize

\* dns_packet_frame_append_packet
AppendPacket(f) == [f EXCEPT !.packets = Append(@, new),
                             !.time_end = Max2(@, ts[new]), !.size = @ + size[new]]

AppendFits == /\ pc = "append" /\ Fits
              /\ frame' = AppendPacket(frame)
              /\ pc' = "loop" /\ new' = 0
              /\ UNCHANGED <<libtrace, stats, file, target, return, queue, packets, outside,
                             dumpFile>>

\* Faulty: a full frame is closed as if its time were over.
AppendToNextAtLimit ==
    /\ pc = "append" /\ ~Fits
    /\ Report(FALSE)
    /\ LET end == frame.time_start + FrameMaxDuration
       IN  /\ Enqueue([frame EXCEPT !.time_end = end])
           /\ frame' = AppendPacket(NewFrame(end))
    /\ pc' = "loop" /\ new' = 0
    /\ UNCHANGED <<libtrace, file, target, return, packets, outside, dumpFile>>

\* Faulty: the packet that did not fit is forgotten.
AppendToNextLoses ==
    /\ pc = "append" /\ ~Fits
    /\ OutputFrame(frame)
    /\ pc' = "loop" /\ new' = 0
    /\ UNCHANGED <<libtrace, file, target, return, packets, outside, dumpFile>>

\* Faulty: the next frame begins at its packet.
AppendToNextAtPacket ==
    /\ pc = "append" /\ ~Fits
    /\ Report(FALSE) /\ Enqueue(frame)
    /\ frame' = AppendPacket(NewFrame(ts[new]))
    /\ pc' = "loop" /\ new' = 0
    /\ UNCHANGED <<libtrace, file, target, return, packets, outside, dumpFile>>

AppendToNext == /\ pc = "append" /\ ~Fits
                /\ Report(FALSE) /\ Enqueue(frame)
                /\ frame' = AppendPacket(NewFrame(frame.time_end))
                /\ pc' = "loop" /\ new' = 0
                /\ UNCHANGED <<libtrace, file, target, return, packets, outside, dumpFile>>

\* dns_input_process_catch_real_time, called before the thread sleeps.  (Faulty:
\* the test for a live trace is inverted.)
BehindOffline == ~Online /\ frame.time_end # NoTime /\ now > frame.time_end + RealTimeGrace
Behind == Online /\ now > frame.time_end + RealTimeGrace

EventSleep == /\ pc = "loop" /\ ~dns_global_stop
              /\ IF Behind THEN AdvanceTimeTo(now - RealTimeGrace, "sleep")
                           ELSE pc' = "sleep" /\ UNCHANGED <<frame, target, return>>
              /\ UNCHANGED <<libtrace, stats, file, new, queue, packets, outside, dumpFile>>

\* usleep or select returns, select possibly with an error.
WakeUp == /\ pc = "sleep" /\ pc' = "loop"
          /\ UNCHANGED <<frame, libtrace, stats, file, target, return, new, queue, packets,
                         outside, dumpFile>>

\* Faulty: the trace stays open.
SelectFailsOpen == /\ pc = "sleep" /\ NextInput
                   /\ UNCHANGED <<frame, libtrace, stats, target, return, new, queue,
                                  packets, outside, dumpFile>>

SelectFails == /\ pc = "sleep" /\ TraceClose /\ NextInput
               /\ UNCHANGED <<frame, stats, target, return, new, queue, packets, outside,
                              dumpFile>>

-----------------------------------------------------------------------------
\* dns_input_finish: the last frame, then the final one and the dump.
FinishFrame == /\ pc = "finish"
               /\ OutputFrame(frame)
               /\ pc' = "final"
               /\ UNCHANGED <<libtrace, file, target, return, new, packets, outside, dumpFile>>

FinishFinal == /\ pc = "final"
               /\ Enqueue([frame EXCEPT !.type = 1])
               /\ frame' = NoFrame
               /\ IF dumper = "on" THEN DumpCloseFile ELSE UNCHANGED dumpFile
               /\ pc' = "done"
               /\ UNCHANGED <<libtrace, stats, file, target, return, new, packets, outside>>

Step == \/ FileOpens \/ FileMissing \/ FilesDone
        \/ CreateFails \/ ConfigFails \/ FilterAsserts \/ FilterFails \/ StartFails
        \/ OpenSucceeds \/ Interrupted \/ EventTerminate \/ EventBadPacket
        \/ \E time \in Times, sz \in Sizes : EventPacket(time, sz)
        \/ EventSleep \/ WakeUp \/ SelectFails
        \/ AdvanceOutput \/ AdvanceDone \/ AppendFits \/ AppendToNext
        \/ FinishFrame \/ FinishFinal

Ended == {"done", "dead", "aborted"}

\* The matcher takes a frame; the clock ticks; the user interrupts, for the
\* second time to end the program at once.
Take == /\ taken < Len(out) /\ taken' = taken + 1
        /\ UNCHANGED <<frame, libtrace, stats, pc, file, target, return, new, out, packets,
                       outside, dumpFile>>

Tick == /\ pc \notin Ended /\ now < MaxNow /\ now' = now + 1
        /\ UNCHANGED <<frame, libtrace, stats, pc, file, target, return, new, queue,
                       packets, inputs, dns_global_stop, dumpFile>>

SigintHandler == /\ pc \notin Ended
                 /\ dns_global_stop' = TRUE
                 /\ pc' = IF dns_global_stop THEN "dead" ELSE pc
                 /\ UNCHANGED <<frame, libtrace, stats, file, target, return, new, queue,
                                packets, inputs, now, dumpFile>>

Terminated == pc \in Ended /\ UNCHANGED vars

Next == Step \/ Take \/ Tick \/ SigintHandler \/ Terminated

Spec == Init /\ [][Next]_vars
-----------------------------------------------------------------------------
AllFrames == IF frame = NoFrame THEN out ELSE Append(out, frame)

\* The frames tile time: each begins where the one before ended, none is longer
\* than FrameMaxDuration (the assertion in dns_input_advance_time_to), and a
\* frame with packets has a time, which the matcher asserts of what it gets; and
\* only a packet that alone is larger than FrameMaxSize makes a larger frame.
FramesTile ==
    /\ \A i \in 1..Len(AllFrames) : LET f == AllFrames[i] IN
         IF f.time_start = NoTime THEN f.time_end = NoTime /\ f.packets = << >>
         ELSE f.time_start <= f.time_end /\ f.time_end <= f.time_start + FrameMaxDuration
    /\ \A i \in 1..(Len(AllFrames) - 1) :
         AllFrames[i + 1].time_start = AllFrames[i].time_end
    /\ \A i \in 1..Len(AllFrames) :
         AllFrames[i].size > FrameMaxSize => Len(AllFrames[i].packets) = 1

\* Frames s hold each of the packets 1..n once, in order.
HoldInOrder(s, n) ==
    /\ \A p \in 1..n : \E i \in 1..Len(s) : \E j \in 1..Len(s[i].packets) : s[i].packets[j] = p
    /\ \A i \in 1..Len(s) : \A j \in 1..Len(s[i].packets) : s[i].packets[j] \in 1..n
    /\ \A i, k \in 1..Len(s) : \A j \in 1..Len(s[i].packets), l \in 1..Len(s[k].packets) :
         i < k \/ (i = k /\ j < l) => s[i].packets[j] < s[k].packets[l]

\* Every packet that parses is in exactly one frame, and the frames hold them
\* in the order they were read, whatever file they come from.
EveryPacketFramed == HoldInOrder(AllFrames, IF new = 0 THEN Len(ts) ELSE Len(ts) - 1)

\* A packet of a pcap file not older than all before it lies inside its frame's
\* time; an older one at least not after its end.
InFrameTime ==
    \A i \in 1..Len(AllFrames) : \A j \in 1..Len(AllFrames[i].packets) :
        LET f == AllFrames[i]
            p == f.packets[j]
        IN  /\ ts[p] <= f.time_end
            /\ ~Online /\ (\A q \in 1..p : ts[q] <= ts[p]) => f.time_start <= ts[p]

\* No packet is missing from the statistics, however reports fall between
\* frames, files and interruptions.
ReportsCountAll == total_packets_read + current_packets_read = seen

\* The trace and its packet live exactly while a trace is processed, so the
\* assertions of trace_open and dns_input_destroy on them hold after every way
\* out of dns_input_process.
TraceReleased ==
    pc \notin {"dead", "aborted"} =>
        /\ trace = packet
        /\ trace <=> pc \in {"loop", "advance", "append", "sleep"}
        /\ trace => bpf_filter

\* The assertion "!input->bpf_filter" of dns_input_trace_open holds for every
\* file.
FilterAssertion == pc = "open" => ~bpf_filter

=============================================================================
