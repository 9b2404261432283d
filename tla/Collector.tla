------------------------------ MODULE Collector ------------------------------
(***************************************************************************)
(* The whole program (main.c): the main thread starts the matcher and the  *)
(* output thread, runs the input, waits for both threads and destroys what *)
(* it created.  The input, the matcher and the output are the modules      *)
(* Input, PacketMatcher and Output; each puts its frames into the queue    *)
(* the next one takes them from, and the three share dns_global_stop.  A   *)
(* queue is here the bounded first-in first-out queue FrameQueue is shown  *)
(* to implement.                                                           *)
(***************************************************************************)
EXTENDS Integers, Sequences

CONSTANTS Files, Times, Sizes, FrameMaxDuration, FrameMaxSize, RealTimeGrace,
          ReportPeriod, QueueLength, MatchingDuration, MaxSearch,
          Keys, Qnames, RootName, MatchQname, Periods, PipeCmds, PipeCapacity,
          Faults, NoTime, NoFrame,
          Dumpers,                    \* is there a dumper, as in DumpFile?
          MaxPackets,                 \* bounds the packets
          MaxLivePackets, LiveTimes,  \* bound those of a live trace, and their times
          MaxNow                      \* bounds the clock

\* What the command line and the limits of dns_collector_conf_commit make of the
\* configuration.
ASSUME CollectorAssumption ==
    /\ Files \subseteq Nat /\ Times \subseteq Int /\ Sizes \subseteq Nat
    /\ FrameMaxDuration \in Nat \ {0} /\ FrameMaxSize \in Nat
    /\ RealTimeGrace \in Nat /\ ReportPeriod \in Nat
    /\ QueueLength \in Nat \ {0} /\ MatchingDuration \in Nat \ {0} /\ MaxSearch \in Nat
    /\ MatchQname \in BOOLEAN /\ RootName \in Qnames
    /\ Periods \subseteq Int /\ PipeCmds \subseteq BOOLEAN /\ PipeCapacity \in Nat \ {0}
    /\ Dumpers \subseteq {"on", "off"}
    /\ MaxPackets \in Nat /\ MaxNow \in Nat
    /\ NoTime \notin Int
    /\ NoFrame \notin [type : {0, 1}, time_start : Int \cup {NoTime},
                       time_end : Int \cup {NoTime}, size : Nat, packets : Seq(Nat)]

VARIABLES \* of Input
          inputs, frame, trace, packet, bpf_filter, current_packets_read,
          total_packets_read, last_report_time, input_pc, file, input_target,
          input_return, new, input_queue, input_taken, ts, size, seen, now,
          dns_global_stop, dumper, dtrace,
          \* of PacketMatcher
          pkt, response, inframe, outframe, packet_queue, hash_table, matcher_time,
          matcher_pc, matcher_target, matcher_return, cur, late, loaded,
          output_queue, output_taken,
          \* of Output
          period_sec, pipe_cmd, out_file, output_opened, output_time, current, total,
          subprocess, buffered, unread, output_pc, todo, run, files, written, damaged,
          received,
          \* of main
          main_pc, thread

In == INSTANCE Input WITH pc <- input_pc, target <- input_target, return <- input_return,
                          out <- input_queue, taken <- input_taken,
                          OutCapacity <- QueueLength

Matcher == INSTANCE PacketMatcher WITH
    current_time <- matcher_time, pc <- matcher_pc, target <- matcher_target,
    return <- matcher_return, out <- output_queue, taken <- output_taken,
    OutCapacity <- QueueLength, InputFrames <- {}, MaxFrames <- 0

Out == INSTANCE Output WITH current_time <- output_time, opc <- output_pc,
                            InputFrames <- {}, MaxFrames <- 0

shared == dns_global_stop
inputVars == <<inputs, frame, trace, packet, bpf_filter, current_packets_read,
               total_packets_read, last_report_time, input_pc, file, input_target,
               input_return, new, input_queue, ts, size, seen, now, dumper, dtrace>>
matcherVars == <<pkt, response, inframe, outframe, packet_queue, hash_table, matcher_time,
                 matcher_pc, matcher_target, matcher_return, cur, late, loaded,
                 output_queue>>
outputVars == <<period_sec, pipe_cmd, out_file, output_opened, output_time, current, total,
                subprocess, buffered, unread, output_pc, todo, run, files, written, damaged,
                received>>
mainVars == <<main_pc, thread>>
vars == <<inputVars, input_taken, matcherVars, output_taken, outputVars, mainVars, shared>>

Threads == {"matcher", "output"}

\* The queues, the input, the matcher and the output are created.
Init == /\ In!Init /\ Matcher!Init /\ Out!Init /\ dumper \in Dumpers
        /\ main_pc = "start_matcher" /\ thread = [t \in Threads |-> "new"]

\* No part of the program called exit, die or abort.
Alive == /\ input_pc \notin {"dead", "aborted"} /\ output_pc # "dead"
         /\ main_pc \notin {"returned", "dead"}

-----------------------------------------------------------------------------
\* dns_worker_packet_matcher_start and dns_output_start: a thread that is new
\* has its mutex `running' unlocked, one that runs has it locked.
StartThread(t, l) == /\ thread[t] = "new"
                     /\ thread' = [thread EXCEPT ![t] = "running"]
                     /\ main_pc' = l
                     /\ UNCHANGED <<inputVars, input_taken, matcherVars, output_taken,
                                    outputVars, shared>>

StartMatcher == Alive /\ main_pc = "start_matcher" /\ StartThread("matcher", "start_output")
StartOutput == Alive /\ main_pc = "start_output" /\ StartThread("output", "input")

\* The main loop over the inputs and dns_input_finish.
InputStep == /\ Alive /\ main_pc = "input"
             /\ In!Step
             /\ inputs = 0 => /\ seen' <= MaxLivePackets
                             /\ \A i \in 1..Len(ts') : ts'[i] \in LiveTimes
             /\ main_pc' = IF input_pc' = "done" THEN "join_matcher" ELSE main_pc
             /\ UNCHANGED <<matcherVars, output_taken, outputVars, thread>>

\* The packet i of the input as the matcher sees it: a request or a response, with
\* the key and the name it was parsed to have.
Kinds == [request : BOOLEAN, key : Keys, qname : Qnames]
Data(i, kind) == [ts |-> ts[i], request |-> kind.request, key |-> kind.key,
                  qname |-> kind.qname, size |-> size[i]]

\* The matcher takes the next frame from its queue.
MatcherDequeue ==
    /\ Alive /\ thread["matcher"] = "running"
    /\ input_taken < Len(input_queue) /\ input_taken' = input_taken + 1
    /\ LET f == input_queue[input_taken + 1]
       IN  \E kind \in [1..Len(f.packets) -> Kinds] :
             Matcher!Dequeue([f EXCEPT !.packets =
                 [i \in 1..Len(f.packets) |-> Data(f.packets[i], kind[i])]])
    /\ UNCHANGED <<inputVars, output_taken, outputVars, mainVars, shared>>

MatcherStep == /\ Alive /\ thread["matcher"] = "running"
               /\ Matcher!Step
               /\ UNCHANGED <<inputVars, input_taken, outputVars, mainVars, shared>>

\* The packet p of the matcher as the output sees it.
Item(p) == [id |-> p, ts |-> pkt[p].ts, request |-> pkt[p].request, response |-> response[p]]

\* The output takes the next frame from its queue.
OutputDequeue ==
    /\ Alive /\ thread["output"] = "running"
    /\ output_taken < Len(output_queue) /\ output_taken' = output_taken + 1
    /\ LET f == output_queue[output_taken + 1]
       IN  Out!Receive([f EXCEPT !.packets = [i \in 1..Len(f.packets) |-> Item(f.packets[i])]])
    /\ UNCHANGED <<inputVars, input_taken, matcherVars, mainVars>>

OutputStep == /\ Alive /\ thread["output"] = "running"
              /\ Out!Step
              /\ UNCHANGED <<inputVars, input_taken, matcherVars, output_taken, mainVars>>

\* A thread unlocks `running' and ends.
ThreadEnds(t) ==
    /\ Alive /\ thread[t] = "running"
    /\ IF t = "matcher" THEN matcher_pc = "done" ELSE output_pc = "done"
    /\ thread' = [thread EXCEPT ![t] = "ended"]
    /\ UNCHANGED <<inputVars, input_taken, matcherVars, output_taken, outputVars, main_pc,
                   shared>>

\* Faulty: main does not wait.
JoinNot(t, l) == /\ main_pc' = l
                 /\ UNCHANGED <<inputVars, input_taken, matcherVars, output_taken,
                                outputVars, thread, shared>>

\* pthread_join in dns_worker_packet_matcher_finish and dns_output_finish
Join(t, l) == /\ thread[t] = "ended"
              /\ main_pc' = l
              /\ UNCHANGED <<inputVars, input_taken, matcherVars, output_taken,
                             outputVars, thread, shared>>

JoinMatcher == Alive /\ main_pc = "join_matcher" /\ Join("matcher", "join_output")
JoinOutput == Alive /\ main_pc = "join_output" /\ Join("output", "destroy")

\* What the functions that destroy the input, the matcher and the output die of.
DestroyFails == \/ trace \/ packet \/ frame # NoFrame \/ dtrace \/ out_file
                \/ \E t \in Threads : thread[t] = "running"

Destroy == /\ Alive /\ main_pc = "destroy"
           /\ main_pc' = IF DestroyFails THEN "dead" ELSE "returned"
           /\ UNCHANGED <<inputVars, input_taken, matcherVars, output_taken, outputVars,
                          thread, shared>>

-----------------------------------------------------------------------------
\* CLOCK_REALTIME (on pcap files it only decides which reports are logged, as
\* checked in Input), SIGINT at any time, and what the subprocess does.
Tick == /\ Alive /\ main_pc = "input" /\ inputs = 0 /\ In!Tick
        /\ UNCHANGED <<matcherVars, output_taken, outputVars, mainVars>>

SigintHandler ==
    /\ Alive /\ dns_global_stop' = TRUE
    /\ main_pc' = IF dns_global_stop THEN "dead" ELSE main_pc
    /\ UNCHANGED <<inputVars, input_taken, matcherVars, output_taken, outputVars, thread>>

Subprocess == /\ Alive
              /\ Out!SubprocessReads \/ Out!SubprocessCloses \/ Out!SubprocessEnds
              /\ UNCHANGED <<inputVars, input_taken, matcherVars, output_taken, mainVars>>

Terminated == ~Alive /\ UNCHANGED vars

MainStep == StartMatcher \/ StartOutput \/ InputStep \/ JoinMatcher \/ JoinOutput \/ Destroy
MatcherThread == MatcherDequeue \/ MatcherStep \/ ThreadEnds("matcher")
OutputThread == OutputDequeue \/ OutputStep \/ ThreadEnds("output")

Next == \/ MainStep \/ MatcherThread \/ OutputThread
        \/ Tick \/ SigintHandler \/ Subprocess \/ Terminated

Spec == Init /\ [][Next]_vars
-----------------------------------------------------------------------------
Promise == INSTANCE Capture WITH
    read <- Len(ts),
    records <- [i \in 1..Len(written) |->
                   [packet |-> written[i].item.id, response |-> written[i].item.response]],
    outcome <- IF main_pc = "returned" THEN "ended" ELSE IF Alive THEN "running" ELSE "dead"

\* The collector keeps the promise of Capture: from the trace through frames,
\* queues and matching to write_packet, no packet is lost or recorded twice, and main
\* returns only when all were recorded.  A record counts when it is handed to stdio:
\* what a disk or a subprocess makes of it is DamageNoticed of Output.
ImplementsCapture == Promise!CaptureSpec

\* When main destroys things, nobody uses them: both threads ended, the queues
\* are empty (dns_frame_queue_destroy), so is the matcher, the output is closed
\* and its subprocess waited for.  So no destructor finds what it dies of.
QuietAtDestroy ==
    main_pc \in {"destroy", "returned"} /\ Alive =>
        /\ \A t \in Threads : thread[t] = "ended"
        /\ input_taken = Len(input_queue) /\ output_taken = Len(output_queue)
        /\ packet_queue = << >> /\ \A k \in Keys : hash_table[k] = << >>
        /\ ~DestroyFails /\ subprocess = "none"

\* README.md: "In offline mode (reading PCAPs), if no packets match the filter,
\* no output file is produced."  A live trace makes files of empty frames.
NoPacketsNoFile == inputs > 0 /\ ts = << >> => files = << >>

-----------------------------------------------------------------------------
\* Each thread runs when it can, the clock goes on, and a subprocess does not leave
\* its input unread and open, and ends when its input ends.
Fairness == /\ WF_vars(MainStep) /\ WF_vars(MatcherThread) /\ WF_vars(OutputThread)
            /\ WF_vars(Tick)
            /\ WF_vars((unread > 0 \/ output_pc = "wait") /\ Subprocess)
LiveSpec == Spec /\ Fairness

\* After SIGINT the whole program ends, whatever each thread was doing, however full
\* the queues and the pipe were, and whatever became of the subprocess.
StopEndsAll == dns_global_stop ~> ~Alive

\* On a live trace a packet does not get stuck in a frame, in the matching window
\* or in a queue: it is recorded although no other packet follows, when the clock
\* has gone on for two frames, the window and the grace (if the program runs).
PacketRecorded ==
    \A p \in 1..MaxLivePackets :
        inputs = 0 /\ new = p
            /\ In!Max2(frame.time_end, ts[p]) + 2 * FrameMaxDuration + MatchingDuration
                  + RealTimeGrace <= MaxNow
          ~> ~Alive \/ \E i \in 1..Len(written) :
                             p \in {written[i].item.id, written[i].item.response}
=============================================================================
