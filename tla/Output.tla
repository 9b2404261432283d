------------------------------- MODULE Output -------------------------------
(***************************************************************************)
(* The output thread (output.c) with the counters of its drivers.  It      *)
(* takes frames from its queue and writes their packets to a file, or to a *)
(* subprocess that is started anew for every file, and goes on to the next *)
(* file when the time of a frame or of a packet is past the period.        *)
(*                                                                         *)
(* An item of a frame is [id, ts, request, response]: a request with the   *)
(* number of its response, 0 if it has none, or a response on its own.  A  *)
(* step is what the thread does between two calls that the subprocess, the *)
(* disk or a signal can interfere with.                                    *)
(***************************************************************************)
EXTENDS Integers, Sequences, FiniteSets

CONSTANTS Periods, PipeCmds,  \* values of output_period; is output_pipe_cmd set?
          Faults,             \* system calls that may fail: "open", "write"
          PipeCapacity,       \* how many buffers of stdio a pipe holds
          NoTime,
          InputFrames,        \* frames the matcher may deliver
          MaxFrames, MaxPackets \* bounds on what it delivers

ASSUME OutputAssumption ==
    /\ Periods \subseteq Int /\ PipeCmds \subseteq BOOLEAN
    /\ PipeCapacity \in Nat \ {0}
    /\ NoTime \notin Int /\ MaxFrames \in Nat /\ MaxPackets \in Nat

\* A frame as the matcher sends it: one with a packet has a time, and the final
\* frame has none (see PacketMatcher).
InputFrame ==
    {f \in [type : {0, 1}, time_start : Int \cup {NoTime},
            packets : Seq([ts : Int, request : BOOLEAN, response : Nat])] :
        f.packets # << >> => f.time_start # NoTime /\ f.type = 0}

ASSUME FramesAssumption == InputFrames \subseteq InputFrame

VARIABLES period_sec, pipe_cmd,  \* configuration
          out_file,              \* is a file open?  path is set exactly then
          output_opened, current_time,
          current, total,        \* the counters current_* and total_*
          subprocess,            \* the subprocess; pipe_pid is 0 when "none"
          buffered,              \* does stdio hold what is not in the pipe yet?
          unread,                \* buffers in the pipe that the subprocess has not read
          opc, todo, run,        \* control; what is left of the frame
          files, written,        \* opening times of all files; all records, as
                                 \* [file, item]
          damaged,               \* what went wrong with files, as [file, how]
          received,              \* what was taken from the queue: the start of
                                 \* every frame, and all packets
          dns_global_stop        \* set by the SIGINT handler

config == <<period_sec, pipe_cmd>>
clock == <<output_opened, current_time>>
counters == <<current, total>>
disk == <<files, written>>
vars == <<config, out_file, clock, counters, subprocess, buffered, unread, opc, todo, run,
          disk, damaged, received, dns_global_stop>>

Zero == [items |-> 0, request_only |-> 0, response_only |-> 0]

\* dns_output_init
Init == /\ period_sec \in Periods /\ pipe_cmd \in PipeCmds
        /\ out_file = FALSE /\ output_opened = NoTime /\ current_time = NoTime
        /\ current = Zero /\ total = Zero
        /\ subprocess = "none" /\ buffered = FALSE /\ unread = 0
        /\ opc = "dequeue" /\ todo = << >> /\ run = TRUE
        /\ files = << >> /\ written = << >> /\ damaged = {}
        /\ received = [starts |-> << >>, packets |-> << >>]
        /\ dns_global_stop = FALSE

\* MAX on times, where DNS_NO_TIME is before every time.
Later(a, b) == IF a = NoTime \/ b > a THEN b ELSE a

Add(c, d) == [items         |-> c.items + d.items,
              request_only  |-> c.request_only + d.request_only,
              response_only |-> c.response_only + d.response_only]

-----------------------------------------------------------------------------
\* What is to be checked and written of a frame: its start, then its packets.
FrameStart(time) == [id |-> 0, ts |-> time, request |-> FALSE, response |-> 0]
Todo(f) == <<FrameStart(f.time_start)>> \o f.packets

\* The subprocess ended and was not waited for.
SubprocessEnded == subprocess \in {"ok", "failed"}

\* The loop of dns_output_main takes f from the queue.  A subprocess that ended
\* by itself, with whatever status, ends the program.
ReceiveFrame(f) ==
    /\ f.type = 0 /\ f.time_start # NoTime
    /\ opc' = IF SubprocessEnded THEN "dead" ELSE "check"
    /\ subprocess' = IF SubprocessEnded THEN "none" ELSE subprocess
    /\ todo' = Todo(f)
    /\ UNCHANGED run

ReceiveNoTime(f) == /\ f.type = 0 /\ f.time_start = NoTime
                    /\ UNCHANGED <<opc, subprocess, todo, run>>

ReceiveFinal(f) == /\ f.type = 1
                   /\ opc' = "final" /\ run' = FALSE
                   /\ UNCHANGED <<subprocess, todo>>

Receive(f) == /\ opc = "dequeue"
              /\ ReceiveFrame(f) \/ ReceiveNoTime(f) \/ ReceiveFinal(f)
              /\ received' = [starts  |-> Append(received.starts, f.time_start),
                              packets |-> received.packets \o f.packets]
              /\ UNCHANGED <<config, out_file, clock, counters, buffered, unread, disk, damaged,
                             dns_global_stop>>

-----------------------------------------------------------------------------
\* The reader of the pipe is gone.
PipeBroken == pipe_cmd /\ subprocess # "running"

\* The file being written is damaged: a subprocess "failed", a write was
\* "refused", or the reader went and left something "unread" in the pipe.
WithDamage(how) == damaged \cup {[file |-> Len(files), how |-> how]}

\* A write into a pipe blocks as long as the pipe is full and has a reader.
PutIntoPipe(l) == /\ pipe_cmd /\ ~PipeBroken /\ unread < PipeCapacity
                  /\ opc' = l /\ buffered' = FALSE /\ unread' = unread + 1
                  /\ UNCHANGED damaged

PutIntoFile(l) == /\ ~pipe_cmd
                  /\ opc' = l /\ buffered' = FALSE /\ UNCHANGED <<unread, damaged>>

WriteRefused(l) == /\ opc' = l /\ buffered' = FALSE /\ damaged' = WithDamage("refused")
                   /\ UNCHANGED unread

\* Faulty: SIGPIPE is ignored.
FlushIgnores(l) == \/ PutIntoPipe(l) \/ PutIntoFile(l)
                   \/ /\ IF pipe_cmd THEN PipeBroken ELSE "write" \in Faults
                      /\ WriteRefused(l)

\* stdio writes out its buffer, and the thread goes on at l.  On a broken pipe
\* the SIGPIPE handler ends the program, unless SIGINT came before: then the
\* write fails, and results of writing are not looked at.
Flush(l) ==
    \/ PutIntoPipe(l) \/ PutIntoFile(l)
    \/ /\ PipeBroken /\ ~dns_global_stop
       /\ opc' = "dead" /\ UNCHANGED <<buffered, unread, damaged>>
    \/ /\ IF pipe_cmd THEN PipeBroken /\ dns_global_stop ELSE "write" \in Faults
       /\ WriteRefused(l)

\* fwrite: into the buffer, or through it.  When a file is written makes no
\* difference, so only the buffer of a pipe is told.
Write(l) == \/ pipe_cmd /\ opc' = l /\ buffered' = TRUE /\ UNCHANGED <<unread, damaged>>
            \/ Flush(l)

\* Faulty: the counters of the file are not added to the totals.
CloseForgets(time) ==
    /\ current' = Zero /\ UNCHANGED total
    /\ current_time' = Later(current_time, time)
    /\ out_file' = FALSE
    /\ IF buffered THEN Flush("wait") ELSE opc' = "wait" /\ UNCHANGED <<buffered, unread, damaged>>

\* dns_output_close up to fclose, which flushes.
Close(time) ==
    /\ total' = Add(total, current) /\ current' = Zero
    /\ current_time' = Later(current_time, time)
    /\ out_file' = FALSE
    /\ IF buffered THEN Flush("wait") ELSE opc' = "wait" /\ UNCHANGED <<buffered, unread, damaged>>

\* Faulty: the thread does not wait for the subprocess.
WaitNot == /\ opc = "wait"
           /\ opc' = IF run THEN "check" ELSE "done"
           /\ UNCHANGED <<config, out_file, clock, counters, subprocess, buffered, unread, todo, run,
                          disk, damaged, received, dns_global_stop>>

\* Faulty: goes on as after a rotation, always.
WaitGoesOn ==
    /\ opc = "wait" /\ (subprocess = "none" \/ SubprocessEnded)
    /\ opc' = IF subprocess = "failed" THEN "dead" ELSE "check"
    /\ subprocess' = "none"
    /\ UNCHANGED <<config, out_file, clock, counters, buffered, unread, todo, run, disk, damaged,
                   received, dns_global_stop>>

\* The end of dns_output_close: waitpid blocks until the subprocess ends.
WaitForPipe ==
    /\ opc = "wait" /\ (subprocess = "none" \/ SubprocessEnded)
    /\ opc' = IF subprocess = "failed" THEN "dead" ELSE IF run THEN "check" ELSE "done"
    /\ subprocess' = "none"
    /\ UNCHANGED <<config, out_file, clock, counters, buffered, unread, todo, run, disk, damaged,
                   received, dns_global_stop>>

\* dns_output_open; the header that start_file writes fits into the buffer.
Open(time) ==
    /\ out_file' = TRUE /\ output_opened' = time
    /\ current_time' = Later(current_time, time)
    /\ subprocess' = IF pipe_cmd THEN "running" ELSE "none"
    /\ files' = Append(files, time)
    /\ buffered' \in {FALSE, pipe_cmd} /\ unread' = 0
    /\ UNCHANGED opc

\* There is no file, pipe or process to be had, or no external header file.
OpenFails == /\ "open" \in Faults /\ opc' = "dead"
             /\ UNCHANGED <<out_file, clock, subprocess, files, buffered, unread>>

-----------------------------------------------------------------------------
\* Faulty: the age is that of the last event, not of the file.
RotationDueLate(time) ==
    out_file /\ period_sec > 0 /\ current_time < time - period_sec

\* dns_next_rotation, as dns_output_check_rotation asks it.
RotationDue(time) ==
    out_file /\ period_sec > 0 /\ output_opened < time - period_sec

\* Faulty: the packet that is too late for the file is skipped.
CheckCloseSkips ==
    /\ opc = "check" /\ todo # << >> /\ RotationDue(Head(todo).ts)
    /\ Close(Head(todo).ts)
    /\ todo' = Tail(todo)
    /\ UNCHANGED <<config, output_opened, subprocess, run, disk, received,
                   dns_global_stop>>

\* dns_output_check_rotation closes, opens, or finds the right file open.
CheckClose ==
    /\ opc = "check" /\ todo # << >> /\ RotationDue(Head(todo).ts)
    /\ Close(Head(todo).ts)
    /\ UNCHANGED <<config, output_opened, subprocess, todo, run, disk, received,
                   dns_global_stop>>

CheckOpen ==
    /\ opc = "check" /\ todo # << >> /\ ~out_file
    /\ Open(Head(todo).ts) \/ OpenFails
    /\ UNCHANGED <<config, counters, todo, run, written, damaged, received, dns_global_stop>>

FrameChecked ==
    /\ opc = "check" /\ todo # << >> /\ Head(todo).id = 0
    /\ out_file /\ ~RotationDue(Head(todo).ts)
    /\ current_time' = Later(current_time, Head(todo).ts)
    /\ todo' = Tail(todo)
    /\ UNCHANGED <<config, out_file, output_opened, counters, subprocess, buffered, unread, opc,
                   run, disk, damaged, received, dns_global_stop>>

RequestOnly(item) == item.request /\ item.response = 0

\* What dns_output_csv_write_packet and dns_output_cbor_write_packet count.
Count(item) ==
    [items         |-> 1,
     request_only  |-> IF RequestOnly(item) THEN 1 ELSE 0,
     response_only |-> IF item.request THEN 0 ELSE 1]

WritePacket ==
    /\ opc = "check" /\ todo # << >> /\ Head(todo).id # 0
    /\ out_file /\ ~RotationDue(Head(todo).ts)
    /\ current_time' = Later(current_time, Head(todo).ts)
    /\ current' = Add(current, Count(Head(todo)))
    /\ written' = Append(written, [file |-> Len(files), item |-> Head(todo)])
    /\ todo' = Tail(todo)
    /\ Write("check")
    /\ UNCHANGED <<config, out_file, output_opened, total, subprocess, run, files, received,
                   dns_global_stop>>

FrameDone ==
    /\ opc = "check" /\ todo = << >>
    /\ opc' = "dequeue"
    /\ UNCHANGED <<config, out_file, clock, counters, subprocess, buffered, unread, todo, run,
                   disk, damaged, received, dns_global_stop>>

\* The end of dns_output_main.
FinalClose ==
    /\ opc = "final" /\ out_file
    /\ Close(current_time)
    /\ UNCHANGED <<config, output_opened, subprocess, todo, run, disk, received,
                   dns_global_stop>>

\* Faulty: there is always a file.
FinalMakesFile ==
    /\ opc = "final" /\ ~out_file
    /\ Open(0)
    /\ UNCHANGED <<config, counters, todo, run, written, damaged, received, dns_global_stop>>

FinalNoFile ==
    /\ opc = "final" /\ ~out_file
    /\ opc' = "done"
    /\ UNCHANGED <<config, out_file, clock, counters, subprocess, buffered, unread, todo, run,
                   disk, damaged, received, dns_global_stop>>

Step == \/ CheckClose \/ CheckOpen \/ FrameChecked \/ WritePacket \/ FrameDone
        \/ WaitForPipe \/ FinalClose \/ FinalNoFile

Ended == {"done", "dead"}

-----------------------------------------------------------------------------
\* The matcher delivers a frame not before the time of the last one, with new
\* packets; after the final frame it delivers nothing.
Numbered(f) == [f EXCEPT !.packets = [i \in 1..Len(f.packets) |->
    [id |-> Len(received.packets) + i, ts |-> f.packets[i].ts,
     request |-> f.packets[i].request, response |-> f.packets[i].response]]]
Deliver == \E f \in InputFrames :
    /\ Len(received.starts) < MaxFrames \/ f.type = 1
    /\ Len(received.packets) + Len(f.packets) <= MaxPackets
    /\ \A i \in 1..Len(received.starts) :
         received.starts[i] # NoTime /\ f.type = 0 =>
             f.time_start # NoTime /\ f.time_start >= received.starts[i]
    /\ Receive(Numbered(f))

\* The subprocess reads from the pipe.
SubprocessReads == /\ opc \notin Ended /\ subprocess = "running" /\ unread > 0
                   /\ unread' \in 0..(unread - 1)
                   /\ UNCHANGED <<config, out_file, clock, counters, subprocess, buffered, opc,
                                  todo, run, disk, damaged, received, dns_global_stop>>

\* What is in the pipe when its reader goes is lost.
LeftUnread == IF unread > 0 THEN WithDamage("unread") ELSE damaged

\* The subprocess may stop reading, and may end at any time and with any status.
SubprocessCloses == /\ opc \notin Ended /\ subprocess = "running"
                    /\ subprocess' = "deaf" /\ unread' = 0 /\ damaged' = LeftUnread
                    /\ UNCHANGED <<config, out_file, clock, counters, buffered, opc, todo,
                                   run, disk, received, dns_global_stop>>

SubprocessEnds == /\ opc \notin Ended /\ subprocess \in {"running", "deaf"}
                  /\ \/ subprocess' = "ok" /\ damaged' = LeftUnread
                     \/ subprocess' = "failed" /\ damaged' = LeftUnread \cup WithDamage("failed")
                  /\ unread' = 0
                  /\ UNCHANGED <<config, out_file, clock, counters, buffered, opc, todo,
                                 run, disk, received, dns_global_stop>>

\* The user interrupts; a second time to end the program at once.
SigintHandler == /\ opc \notin Ended
                 /\ dns_global_stop' = TRUE
                 /\ opc' = IF dns_global_stop THEN "dead" ELSE opc
                 /\ UNCHANGED <<config, out_file, clock, counters, subprocess, buffered, unread,
                                todo, run, disk, damaged, received>>

Terminated == opc \in Ended /\ UNCHANGED vars

Next == \/ Deliver \/ Step
        \/ SubprocessReads \/ SubprocessCloses \/ SubprocessEnds \/ SigintHandler \/ Terminated

Spec == Init /\ [][Next]_vars
-----------------------------------------------------------------------------
Items == [i \in 1..Len(written) |-> written[i].item]
Packets == IF todo # << >> /\ Head(todo).id = 0 THEN Tail(todo) ELSE todo

\* As long as the program runs, every packet taken from the queue is written to
\* exactly one file, in the order of the queue, however frames and rotations
\* fall; and when the thread ends by itself nothing is left.
WrittenInOrder ==
    opc # "dead" =>
        /\ Items \o Packets = received.packets
        /\ opc \in {"dequeue", "final", "done"} => todo = << >>

\* The statistics account for every record of every file: the totals for those
\* closed, the current counters for the open one.
RecordsCounted ==
    opc # "dead" =>
        LET sum == Add(total, current)
        IN  /\ sum.items = Len(written)
            /\ sum.request_only = Cardinality({i \in 1..Len(written) : RequestOnly(written[i].item)})
            /\ sum.response_only = Cardinality({i \in 1..Len(written) : ~written[i].item.request})
            /\ current.items = IF out_file
                               THEN Cardinality({i \in 1..Len(written) : written[i].file = Len(files)})
                               ELSE 0

\* No file holds a packet later than a period after it was opened, and files
\* are opened more than a period apart, by the age of the file and not by the
\* seconds since midnight (dns_next_rotation): where output_path_fmt expands the
\* time of opening down to the seconds, no name comes twice and no file is
\* overwritten.  Without a period there is one file.
FilesRotate ==
    IF period_sec <= 0 THEN Len(files) <= 1
    ELSE /\ \A i \in 1..Len(written) :
              written[i].item.ts <= files[written[i].file] + period_sec
         /\ \A i \in 1..(Len(files) - 1) : files[i + 1] > files[i] + period_sec

\* Each file has its own subprocess: it is waited for before the next one is
\* started and before the thread ends, when dns_output_finalize asserts that
\* no file is open.
SubprocessPerFile ==
    opc # "dead" => /\ subprocess # "none" => pipe_cmd /\ (out_file \/ opc = "wait")
                    /\ out_file /\ pipe_cmd => subprocess # "none"
                    /\ opc = "done" => ~out_file /\ ~buffered

\* A subprocess that failed is noticed, also after SIGINT, and a write that was
\* refused is, unless SIGINT came before: whenever it happens in a frame, a
\* rotation or the end, the program ends before the next file and the thread does
\* not end as if all was well.  Only what is in the pipe when its reader goes can
\* be lost unnoticed, since a subprocess that ends well is not an error for
\* dns_output_close (output.c:259-268).
DamageNoticed ==
    opc # "dead" /\ pipe_cmd =>
        \A d \in damaged :
            \/ d.file = Len(files) /\ (out_file \/ opc = "wait")
            \/ d.how = "refused" /\ dns_global_stop
            \/ d.how = "unread"

-----------------------------------------------------------------------------
\* The thread runs, a subprocess reads what is in its pipe as long as it keeps it
\* open, and a subprocess at the end of its input ends.
Fairness == /\ WF_vars(Step) /\ WF_vars(SubprocessReads)
            /\ WF_vars(opc = "wait" /\ SubprocessEnds)
LiveSpec == Spec /\ Fairness

\* A frame is worked off, and after the final frame the thread ends, however slowly
\* the subprocess reads, whenever it stops reading or ends, and although the thread
\* blocks on a full pipe.  A subprocess that keeps its input open without reading
\* it, or never ends, does hold up the thread: Fairness leaves these two out.
OutputEnds == /\ opc = "check" ~> opc \in {"dequeue"} \cup Ended
              /\ ~run ~> opc \in Ended
=============================================================================
