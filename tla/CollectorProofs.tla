--------------------------- MODULE CollectorProofs ---------------------------
(***************************************************************************)
(* The whole program, for every configuration, every input, and however    *)
(* the threads, the subprocess and the user interleave.  The invariants of *)
(* the input, the matcher and the output hold in the program because each  *)
(* thread gets from its queue what its own proof assumes of it.  What ties *)
(* the threads together is Link: how far each queue was read, and that     *)
(* what was taken from it is what was put into it.                         *)
(***************************************************************************)
EXTENDS Collector, SequenceLemmas, Handover

\* Where main is tells which threads ended, and a thread that ended is done.
Order ==
    /\ thread \in [Threads -> {"new", "running", "ended"}]
    /\ main_pc \in {"join_matcher", "join_output", "destroy", "returned"} => input_pc = "done"
    /\ main_pc \in {"join_output", "destroy", "returned"} => thread["matcher"] = "ended"
    /\ main_pc \in {"destroy", "returned"} => thread["output"] = "ended"
    /\ thread["matcher"] = "ended" => matcher_pc = "done"
    /\ thread["output"] = "ended" => output_pc = "done"

\* The matcher has got the final frame.
Closing == \/ matcher_pc \in {"flush", "final", "done"}
           \/ matcher_pc = "advance" /\ matcher_return \in {"flush", "final", "done"}

\* The matcher knows the packets of the frames it took, by the numbers of the input.
InLink ==
    /\ input_taken \in 0..Len(input_queue)
    /\ Holds(input_queue, input_taken, Len(pkt))
    /\ Closing => input_taken # 0 /\ input_queue[input_taken].type = 1

\* The packets the output took are those of the frames taken, each once, and as the
\* matcher has them now.
OutLink ==
    /\ output_taken \in 0..Len(output_queue)
    /\ ~run => output_taken # 0 /\ output_queue[output_taken].type = 1
    /\ Takes(output_queue, output_taken, received.packets, pkt, response)

Link == Order /\ InLink /\ OutLink

\* Frames without a time and without packets.
EmptyFrames == [type : {0, 1}, time_start : {NoTime}, time_end : {NoTime}, size : {0},
                packets : {<< >>}]

\* Time has not started: the matcher skips what it gets, and the output gets the
\* final frame only.
NoneYet ==
    /\ input_pc \notin {"advance", "append"}
    /\ input_pc # "done" => frame = In!NewFrame(NoTime)
    /\ input_queue \in Seq(EmptyFrames) /\ input_taken \in Nat
    /\ matcher_pc \in {"load", "flush", "final", "done"}
    /\ matcher_time = NoTime /\ outframe = NoFrame
    /\ output_queue \in Seq({Matcher!FinalFrame(NoTime)}) /\ output_taken \in Nat
    /\ output_pc \in {"dequeue", "final", "done"} /\ ~out_file /\ files = << >>

\* As long as pcap files have no packet, time does not start.
Barren == ts \in Seq(Int) /\ (inputs > 0 /\ ts = << >> => NoneYet)

USE ZenonT(30), SMTT(30)

-----------------------------------------------------------------------------
\* What a step of the input does to what others see.
LEMMA InputMoves ==
    ASSUME In!Step
    PROVE  /\ inputs' = inputs /\ input_taken' = input_taken
           /\ input_queue' = input_queue \/ \E f : input_queue' = Append(input_queue, f)
           /\ \/ ts' = ts
              \/ /\ input_pc' = "advance"
                 /\ \E t \in Times : ts' = Append(ts, t)
BY DEF In!Step, In!FileOpens, In!FileMissing, In!FilesDone, In!CreateFails, In!ConfigFails,
   In!FilterAsserts, In!FilterFails, In!StartFails, In!OpenSucceeds, In!Interrupted,
   In!EventTerminate, In!EventBadPacket, In!EventPacket, In!EventSleep, In!WakeUp,
   In!SelectFails, In!AdvanceOutput, In!AdvanceDone, In!AppendFits, In!AppendToNext,
   In!FinishFrame, In!FinishFinal, In!queue, In!packets, In!outside, In!Enqueue,
   In!OutputFrame, In!AdvanceTimeTo

\* What a step of the matcher does to what others see.
LEMMA MatcherMoves ==
    ASSUME Matcher!Step
    PROVE  pkt' = pkt /\ output_taken' = output_taken /\ (Closing' => Closing)
BY DEF Matcher!Step, Matcher!AdvanceDone, Matcher!AdvanceQuiet, Matcher!AdvanceFrame,
   Matcher!AdvancePacket, Matcher!ReadPacket, Matcher!ReadEnd, Matcher!Unload,
   Matcher!HandleRequest, Matcher!HandleMatched, Matcher!HandleUnmatched, Matcher!Flush,
   Matcher!Finish, Matcher!AdvanceTimeTo, Matcher!heap, Matcher!control, Closing

\* What a step of the output does to what others see.
LEMMA OutputMoves ==
    ASSUME Out!Step
    PROVE  received' = received /\ run' = run /\ (written' = written \/ Out!WritePacket)
BY DEF Out!Step, Out!CheckClose, Out!CheckOpen, Out!FrameChecked, Out!WritePacket,
   Out!FrameDone, Out!WaitForPipe, Out!FinalClose, Out!FinalNoFile, Out!disk

\* A step of the input on pcap files before there is a packet.
LEMMA BarrenInput ==
    ASSUME InputStep, NoneYet, inputs > 0, ts' = << >>, ts = << >>
    PROVE  NoneYet'
<1> DEFINE g == [frame EXCEPT !.type = 1]
<1>1. In!Step /\ ~In!Online /\ \A t : Append(ts, t) # << >>
  BY SMTT(30) DEF InputStep, In!Online
<1>2. input_pc # "done" => frame \in EmptyFrames /\ frame.time_end = NoTime /\ g \in EmptyFrames
  BY SMTT(30) DEF NoneYet, EmptyFrames, In!NewFrame
<1>3. /\ input_pc' \notin {"advance", "append"}
      /\ input_pc' # "done" => frame' = In!NewFrame(NoTime)
      /\ \/ input_queue' = input_queue
         \/ \E f \in EmptyFrames : input_queue' = Append(input_queue, f)
  BY <1>1, <1>2 DEF NoneYet, In!Step, In!FileOpens, In!FileMissing, In!FilesDone, In!CreateFails,
     In!ConfigFails, In!FilterAsserts, In!FilterFails, In!StartFails, In!OpenSucceeds,
     In!Interrupted, In!EventTerminate, In!EventBadPacket, In!EventPacket, In!EventSleep,
     In!WakeUp, In!SelectFails, In!AdvanceOutput, In!AdvanceDone, In!AppendFits,
     In!AppendToNext, In!FinishFrame, In!FinishFinal, In!Enqueue, In!OutputFrame, In!queue,
     In!NextInput, In!StartTime, In!Behind
<1>4. input_queue' \in Seq(EmptyFrames)
  BY SMTT(30), <1>3, AppendFacts DEF NoneYet
<1> QED BY <1>3, <1>4, InputMoves DEF NoneYet, InputStep, matcherVars, outputVars, In!NewFrame,
   Matcher!FinalFrame, Matcher!NewFrame

\* The matcher before there is a time.
LEMMA BarrenMatcher ==
    ASSUME MatcherStep, NoneYet
    PROVE  NoneYet'
<1>1. /\ matcher_pc' \in {"load", "flush", "final", "done"}
      /\ matcher_time' = NoTime /\ outframe' = NoFrame /\ output_taken' = output_taken
      /\ output_queue' \in {output_queue, Append(output_queue, Matcher!FinalFrame(NoTime))}
  BY DEF MatcherStep, NoneYet, Matcher!Flush, Matcher!Finish, Matcher!Enqueue, Matcher!Step,
     Matcher!AdvanceDone, Matcher!AdvanceQuiet,
   Matcher!AdvanceFrame, Matcher!AdvancePacket, Matcher!ReadPacket, Matcher!ReadEnd,
   Matcher!Unload, Matcher!HandleRequest, Matcher!HandleMatched, Matcher!HandleUnmatched
<1> QED BY SMTT(30), <1>1, AppendFacts DEF MatcherStep, NoneYet, inputVars, outputVars,
   In!NewFrame

\* The matcher gets a frame without a time.
LEMMA BarrenDequeue ==
    ASSUME MatcherDequeue, NoneYet
    PROVE  NoneYet'
<1> DEFINE f == input_queue[input_taken + 1]
           u(s) == [i \in 1..Len(s) |-> Len(pkt) + i]
<1>1. f \in EmptyFrames /\ input_taken + 1 \in Nat
  BY SMTT(30), LenFacts DEF NoneYet, MatcherDequeue
<1>2. /\ \A kind : [i \in 1..Len(f.packets) |-> Data(f.packets[i], kind[i])] = << >>
      /\ u(<< >>) = << >>
  BY SMTT(30), <1>1 DEF EmptyFrames
<1> HIDE DEF u
<1>3. f = [type |-> f.type, time_start |-> NoTime, time_end |-> NoTime, size |-> 0, packets |-> << >>]
  BY <1>1 DEF EmptyFrames
<1> HIDE DEF f
<1>4. [f EXCEPT !.packets = << >>] = f /\ [f EXCEPT !.packets = u(f.packets)] = f
  BY SMTT(30), <1>2, <1>3
<1>5. Matcher!Dequeue(f)
  BY <1>2, <1>4 DEF MatcherDequeue, f
<1>6. Matcher!LoadFinal(f) \/ Matcher!SkipFrame(f) \/ Matcher!LoadFrame(f)
  BY <1>4, <1>5 DEF Matcher!Dequeue, u
<1> QED BY SMTT(30), <1>1, <1>3, <1>6 DEF NoneYet, MatcherDequeue, inputVars, outputVars,
   In!NewFrame,
             Matcher!FinalFrame, Matcher!NewFrame, Matcher!LoadFinal, Matcher!SkipFrame,
             Matcher!LoadFrame,
   Matcher!control

\* The output before there is a frame with a time.
LEMMA BarrenOutput ==
    ASSUME output_pc \in {"dequeue", "final", "done"}, ~out_file, Out!Step
    PROVE  output_pc' \in {"dequeue", "final", "done"} /\ ~out_file' /\ files' = files
BY SMTT(30) DEF Out!Step, Out!CheckClose, Out!CheckOpen, Out!FrameChecked, Out!WritePacket,
   Out!FrameDone,
   Out!WaitForPipe, Out!FinalClose, Out!FinalNoFile, Out!disk

\* The output gets the final frame.
LEMMA BarrenReceive ==
    ASSUME OutputDequeue, NoneYet
    PROVE  NoneYet'
<1> DEFINE f == output_queue[output_taken + 1]
<1>1. f = Matcher!FinalFrame(NoTime) /\ output_taken + 1 \in Nat
  BY SMTT(30), LenFacts DEF NoneYet, OutputDequeue
<1>2. \A ps : [f EXCEPT !.packets = ps].type = 1
  BY <1>1 DEF Matcher!FinalFrame, Matcher!NewFrame
<1> HIDE DEF f
<1> QED BY <1>1, <1>2 DEF NoneYet, OutputDequeue, Out!Receive, Out!ReceiveFrame,
   Out!ReceiveNoTime, Out!ReceiveFinal, Out!disk,
   inputVars, matcherVars, In!NewFrame, Matcher!FinalFrame, Matcher!NewFrame, f

\* The steps of main, of threads that end and of the user leave the input, the matcher
\* and the output alone, but for dns_global_stop.
Aside == /\ dns_global_stop' \in {dns_global_stop, TRUE}
         /\ UNCHANGED <<inputVars, input_taken, matcherVars, output_taken, outputVars>>

LEMMA StepKinds ==
    ASSUME [Next]_vars
    PROVE  \/ InputStep \/ MatcherDequeue \/ MatcherStep \/ OutputDequeue \/ OutputStep
           \/ Tick \/ Subprocess \/ Aside
BY DEF Next, MainStep, MatcherThread, OutputThread, StartMatcher, StartOutput, StartThread,
   JoinMatcher, JoinOutput, Join, Destroy, ThreadEnds, SigintHandler, Terminated, vars, shared,
   Aside

LEMMA InitBarren == Init => Barren
BY SMTT(30) DEF Init, Barren, NoneYet, In!Init, Matcher!Init, Out!Init

\* The other steps before there is a packet.
LEMMA BarrenOther ==
    ASSUME OutputStep \/ Subprocess \/ Tick \/ Aside, NoneYet
    PROVE  NoneYet'
<1>1. CASE OutputStep \/ Subprocess
  <2>1. CASE OutputStep
    BY SMTT(30), <2>1, BarrenOutput DEF NoneYet, OutputStep, inputVars, matcherVars
  <2>2. CASE Subprocess
    <3>1. output_pc' = output_pc /\ out_file' = out_file /\ files' = files
      BY <2>2 DEF Subprocess, Out!SubprocessReads, Out!SubprocessCloses, Out!SubprocessEnds, Out!disk
    <3> QED BY SMTT(30), <2>2, <3>1 DEF NoneYet, Subprocess, inputVars, matcherVars
  <2> QED BY <1>1, <2>1, <2>2
<1>2. CASE Tick
  BY <1>2 DEF NoneYet, Tick, In!Tick, In!packets, In!queue, matcherVars, outputVars, In!NewFrame
<1>3. CASE Aside
  BY <1>3 DEF NoneYet, Aside, inputVars, matcherVars, outputVars, In!NewFrame
<1> QED BY SMTT(30), <1>1, <1>2, <1>3

LEMMA StepBarren == ASSUME Barren, [Next]_vars PROVE Barren'
<1>1. \A t \in Int : Append(ts, t) \in Seq(Int) /\ Append(ts, t) # << >>
  BY SMTT(30) DEF Barren
<1>2. inputs' = inputs /\ ts' \in Seq(Int) /\ (ts' = << >> => ts = << >>)
  BY <1>1, StepKinds, InputMoves, CollectorAssumption DEF CollectorAssumption, Barren,
     InputStep, MatcherDequeue, MatcherStep,
     OutputDequeue, OutputStep, Tick, In!Tick, In!packets, Subprocess, Aside, inputVars
<1> QED BY <1>2, StepKinds, BarrenInput, BarrenMatcher, BarrenDequeue, BarrenReceive,
   BarrenOther DEF Barren

\* README.md: "In offline mode (reading PCAPs), if no packets match the filter, no
\* output file is produced."
THEOREM NoFileWithoutPackets == Spec => []NoPacketsNoFile
<1>1. Barren => NoPacketsNoFile
  BY DEF Barren, NoneYet, NoPacketsNoFile
<1> QED BY <1>1, InitBarren, StepBarren, PTL DEF Spec

-----------------------------------------------------------------------------
\* What the components guarantee of what they hand over, put together.
InputFacts ==
    /\ InputHands(input_queue, ts, size, NoTime, input_pc = "done")
    /\ input_pc = "done" => ~trace /\ ~packet /\ frame = NoFrame /\ ~dtrace

MatcherFacts ==
    /\ MatcherHands(output_queue, Len(pkt), pkt, response, NoTime, matcher_pc = "done")
    /\ matcher_pc = "done" => packet_queue = << >> /\ \A k \in Keys : hash_table[k] = << >>

OutputFacts ==
    output_pc # "dead" =>
        /\ OutputHands(written, received.packets, todo, output_pc = "done")
        /\ output_pc = "done" => ~out_file /\ subprocess = "none" /\ ~run
        /\ output_pc = "dequeue" => run

\* What was handed over stays as it is.
MatcherKeeps ==
    Kept(output_queue, output_queue', Len(pkt), pkt, pkt', response, response')

LEMMA StepOrder == ASSUME Order, [Next]_vars PROVE Order'
<1> USE DEF Order, Threads
<1>1. CASE MainStep
  BY <1>1 DEF MainStep, StartMatcher, StartOutput, StartThread, InputStep, JoinMatcher,
     JoinOutput,
     Join, Destroy, inputVars, matcherVars, outputVars
<1>2. CASE MatcherDequeue \/ MatcherStep
  BY <1>2 DEF MatcherDequeue, MatcherStep, inputVars, outputVars, mainVars
<1>3. CASE OutputDequeue \/ OutputStep
  BY <1>3 DEF OutputDequeue, OutputStep, inputVars, matcherVars, mainVars
<1>4. CASE ThreadEnds("matcher") \/ ThreadEnds("output")
  BY <1>4 DEF ThreadEnds, inputVars, matcherVars, outputVars
<1>5. CASE Subprocess
  BY <1>5 DEF Subprocess, Out!SubprocessReads, Out!SubprocessCloses, Out!SubprocessEnds, inputVars,
     matcherVars, mainVars
<1>6. CASE Tick \/ SigintHandler \/ Terminated \/ UNCHANGED vars
  BY <1>6 DEF Tick, In!Tick, SigintHandler, Terminated, vars, inputVars, matcherVars, outputVars,
     mainVars
<1> QED BY <1>1, <1>2, <1>3, <1>4, <1>5, <1>6 DEF Next, MatcherThread, OutputThread

\* The matcher gets what it assumes to get.
LEMMA MatcherGets ==
    ASSUME InputFacts, InLink, MatcherDequeue
    PROVE  \E g \in Matcher!InputFrame :
             /\ Matcher!Dequeue(g) /\ g.type = input_queue[input_taken + 1].type
             /\ Len(g.packets) = Len(input_queue[input_taken + 1].packets)
<1> DEFINE k == input_taken + 1
<1>1. k \in 1..Len(input_queue)
  BY SMTT(30) DEF MatcherDequeue, InLink
<1>2. PICK kind \in [1..Len(input_queue[k].packets) -> Kinds] :
        Matcher!Dequeue([input_queue[k] EXCEPT !.packets =
            [i \in 1..Len(input_queue[k].packets) |-> Data(input_queue[k].packets[i], kind[i])]])
  BY DEF MatcherDequeue
<1> DEFINE g == [input_queue[k] EXCEPT !.packets =
               [i \in 1..Len(input_queue[k].packets) |-> Data(input_queue[k].packets[i], kind[i])]]
<1> HIDE DEF k
<1>3. g = DataFrame(input_queue[k], ts, size, kind)
  BY DEF Data, DataFrame
<1> HIDE DEF g
<1>4. InputHands(input_queue, ts, size, NoTime, input_pc = "done")
  BY DEF InputFacts
<1>5. /\ Loadable(g, NoTime, Keys, Qnames)
      /\ g.type = input_queue[k].type /\ Len(g.packets) = Len(input_queue[k].packets)
  <2> DEFINE e == DataFrame(input_queue[k], ts, size, kind)
  <2>1. /\ Loadable(e, NoTime, Keys, Qnames)
        /\ e.type = input_queue[k].type /\ Len(e.packets) = Len(input_queue[k].packets)
    <3>1. kind \in [1..Len(input_queue[k].packets) -> PacketKinds(Keys, Qnames)]
      BY <1>2 DEF Kinds, PacketKinds
    <3> DEFINE q == input_queue
               m == kind
               fin == (input_pc = "done")
    <3>2. InputHands(q, ts, size, NoTime, fin) /\ k \in 1..Len(q)
      BY <1>1, <1>4
    <3>3. m \in [1..Len(q[k].packets) -> PacketKinds(Keys, Qnames)]
      BY <3>1
    <3> HIDE DEF q, m, fin
    <3>4. /\ Loadable(DataFrame(q[k], ts, size, m), NoTime, Keys, Qnames)
          /\ DataFrame(q[k], ts, size, m).type = q[k].type
          /\ Len(DataFrame(q[k], ts, size, m).packets) = Len(q[k].packets)
      BY <3>2, <3>3, FrameForMatcher
    <3> QED BY <3>4 DEF q, m
  <2> QED BY <2>1, <1>3
<1>6. g \in Matcher!InputFrame
  BY <1>5 DEF Loadable, Matcher!InputFrame, Matcher!Packet
<1> QED BY <1>2, <1>5, <1>6 DEF k, g

LEMMA StepInLink ==
    ASSUME InputFacts, MatcherFacts, InLink, [Next]_vars
    PROVE  InLink'
<1> DEFINE q == input_queue
           k == input_taken
<1>1. CASE InputStep
  <2>1. /\ input_taken' = k /\ pkt' = pkt /\ (Closing' <=> Closing)
        /\ q' = q \/ \E f : q' = Append(q, f)
    BY <1>1, InputMoves DEF InputStep, matcherVars, Closing
  <2> QED BY <2>1, HoldsGrown DEF InputFacts, InLink
<1>2. CASE MatcherDequeue
  <2>1. PICK g \in Matcher!InputFrame :
          Matcher!Dequeue(g) /\ g.type = q[k + 1].type /\ Len(g.packets) = Len(q[k + 1].packets)
    BY <1>2, MatcherGets
  <2>2. k < Len(q) /\ input_taken' = k + 1 /\ q' = q /\ k \in Nat /\ k + 1 \in 0..Len(q) /\ k + 1 # 0
    BY SMTT(30), <1>2 DEF MatcherDequeue, inputVars, InLink
  <2>4. Holds(q, k + 1, Len(pkt) + Len(q[k + 1].packets))
    BY <2>2, TakesNext DEF InputFacts, MatcherFacts, MatcherHands, InLink
  <2>6. Len(pkt \o g.packets) = Len(pkt) + Len(g.packets)
    BY SMTT(30), LenLoaded DEF Matcher!InputFrame, MatcherFacts
  <2>7. pkt' = pkt \o g.packets /\ (Closing' => g.type = 1)
    BY <2>1 DEF Matcher!Dequeue, Matcher!InputFrame, Closing, Matcher!LoadFinal,
       Matcher!SkipFrame, Matcher!LoadFrame,
               Matcher!AdvanceTimeTo, Matcher!control
  <2> QED BY <2>1, <2>2, <2>4, <2>6, <2>7 DEF InLink
<1> QED BY <1>1, <1>2, StepKinds, MatcherMoves DEF MatcherStep, OutputDequeue, OutputStep, Tick,
   In!Tick, In!queue, Subprocess, Aside,
       inputVars, matcherVars, InLink, Closing

\* The matcher goes on and leaves alone what it put out.
LEMMA MatcherOutLink ==
    ASSUME MatcherFacts, OutLink, MatcherKeeps, Len(output_queue') \in Nat,
           received' = received, run' = run, output_taken' = output_taken
    PROVE  OutLink'
<1> DEFINE q == output_queue
           n == output_taken
<1>1. n \in 0..Len(q') /\ Takes(q', n, received.packets, pkt', response') /\ (n # 0 => q'[n] = q[n])
  <2>1. Given(q, Len(pkt), pkt, response, NoTime, matcher_pc = "done", n, received.packets)
    BY DEF MatcherFacts, OutLink, Given
  <2> QED BY SMTT(30), <2>1, TakesGrown DEF MatcherKeeps
<1> QED BY <1>1 DEF OutLink

\* The output gets what it assumes to get.
LEMMA OutputGets ==
    ASSUME MatcherFacts, OutLink, OutputDequeue
    PROVE  \E g : /\ Out!Receive(g) /\ Deliverable(g, NoTime)
                  /\ g.type = output_queue[output_taken + 1].type
                  /\ g.packets = ItemFrame(output_queue[output_taken + 1], pkt, response).packets
<1> DEFINE k == output_taken + 1
           g == ItemFrame(output_queue[k], pkt, response)
<1>1. k \in 1..Len(output_queue)
  BY SMTT(30), HandedFrames DEF MatcherFacts, OutputDequeue, OutLink
<1>2. Out!Receive(g)
  BY DEF OutputDequeue, Item, ItemOf, ItemFrame
<1>3. MatcherHands(output_queue, Len(pkt), pkt, response, NoTime, matcher_pc = "done")
  BY DEF MatcherFacts
<1> HIDE DEF k
<1>4. Deliverable(g, NoTime) /\ g.type = output_queue[k].type
  BY SMTT(30), <1>1, <1>3, FrameForOutput
<1> QED BY <1>2, <1>4 DEF k

\* The output takes the next frame.
LEMMA DequeueOutLink ==
    ASSUME MatcherFacts, OutputFacts, OutLink, OutputDequeue
    PROVE  OutLink'
<1> DEFINE q == output_queue
           r == received.packets
           n == output_taken
           ps == ItemFrame(q[n + 1], pkt, response).packets
<1>1. /\ n < Len(q) /\ output_taken' = n + 1 /\ q' = q /\ pkt' = pkt /\ response' = response
      /\ output_pc # "dead"
  BY DEF OutputDequeue, matcherVars, Alive
<1>2. PICK g : Out!Receive(g) /\ g.type = q[n + 1].type /\ g.packets = ps
  BY OutputGets
<1> HIDE DEF ps
<1>3. received'.packets = r \o ps /\ run /\ (~run' => q[n + 1].type = 1)
  <2>1. received'.packets = r \o ps /\ output_pc = "dequeue"
    BY <1>2 DEF Out!Receive
  <2> QED BY <1>1, <1>2, <2>1 DEF OutputFacts, Out!Receive, Out!ReceiveFrame, Out!ReceiveNoTime,
             Out!ReceiveFinal
<1>4. n \in Nat /\ n + 1 \in 0..Len(q) /\ n + 1 # 0
  BY SMTT(30), <1>1, HandedFrames DEF MatcherFacts, OutLink
<1>5. Takes(q, n + 1, r \o ps, pkt, response)
  <2>1. PICK S : r \in Seq(S)
    BY <1>1 DEF OutputFacts, OutputHands
  <2> QED BY <1>1, <1>4, <2>1, TakesMore DEF MatcherFacts, OutLink, ps
<1> QED BY <1>1, <1>3, <1>4, <1>5 DEF OutLink

LEMMA StepOutLink ==
    ASSUME MatcherFacts, OutputFacts, OutLink, MatcherKeeps, MatcherFacts', [Next]_vars
    PROVE  OutLink'
<1>1. Len(output_queue') \in Nat
  BY HandedFrames DEF MatcherFacts
<1>2. CASE received' = received /\ run' = run /\ output_taken' = output_taken
  BY <1>1, <1>2, MatcherOutLink
<1> QED BY <1>2, DequeueOutLink, MatcherMoves, OutputMoves, StepKinds DEF MatcherDequeue,
   MatcherStep, OutputStep,
   InputStep, Tick, Subprocess, Aside, outputVars, Out!SubprocessReads, Out!SubprocessCloses,
   Out!SubprocessEnds, Out!disk

\* What was taken from a queue is all of it when the final frame was taken.
LEMMA QueuesEmpty ==
    ASSUME InputFacts, MatcherFacts, OutputFacts, Link, Alive,
           main_pc \in {"destroy", "returned"}
    PROVE  /\ \A t \in Threads : thread[t] = "ended"
           /\ input_pc = "done" /\ matcher_pc = "done" /\ output_pc = "done"
           /\ input_taken = Len(input_queue) /\ output_taken = Len(output_queue)
<1>1. /\ \A t \in Threads : thread[t] = "ended"
      /\ input_pc = "done" /\ matcher_pc = "done" /\ output_pc = "done"
  BY DEF Link, Order, Threads
<1>2. input_taken = Len(input_queue)
  BY <1>1, LastIn DEF InputFacts, Link, InLink, Closing
<1>3. output_taken = Len(output_queue)
  BY <1>1, LastOut DEF OutputFacts, MatcherFacts, Link, OutLink
<1> QED BY <1>1, <1>2, <1>3

LEMMA Quiet ==
    InputFacts /\ MatcherFacts /\ OutputFacts /\ Link => QuietAtDestroy
BY QueuesEmpty DEF QuietAtDestroy, InputFacts, MatcherFacts, OutputFacts, DestroyFails

-----------------------------------------------------------------------------
LEMMA InitCapture == Init => Promise!CaptureInit
BY SMTT(30) DEF Promise!CaptureInit, Init, In!Init, Out!Init, Alive

\* A step that neither reads nor records nor returns tells nothing, or is the death of
\* the program.
LEMMA TellsNothing ==
    ASSUME Alive, ts' = ts, written' = written, main_pc' # "returned"
    PROVE  Promise!Die \/ UNCHANGED Promise!captureVars
BY DEF Alive, Promise!captureVars, Promise!Die

\* What was recorded are the packets and the responses of the records.
LEMMA RecordedFacts ==
    ASSUME Len(written) \in Nat
    PROVE  \A p : p \in Promise!Recorded <=>
             \E i \in 1..Len(written) : \/ p = written[i].item.id
                                        \/ p = written[i].item.response /\ p # 0
<1>1. Promise!Recorded = Named(Tells(written))
  BY DEF Promise!Recorded, Named, Told, Tells
<1> QED BY <1>1, ToldFacts

\* The matcher knows no packet that was not read.
LEMMA KnownRead ==
    ASSUME InputFacts, MatcherFacts, InLink
    PROVE  /\ Len(pkt) \in Nat /\ Len(ts) \in Nat /\ Len(pkt) <= Len(ts)
           /\ input_pc = "done" /\ input_taken = Len(input_queue) => Len(pkt) = Len(ts)
<1>1. InputHands(input_queue, ts, size, NoTime, input_pc = "done") /\ Len(pkt) \in Nat
  BY DEF InputFacts, MatcherFacts, MatcherHands
<1>2. Len(ts) \in Nat /\ Len(pkt) <= Len(ts)
  BY <1>1, PacketsRead DEF InLink
<1>3. input_pc = "done" => Holds(input_queue, Len(input_queue), Len(ts))
  BY <1>1 DEF InputHands
<1> QED BY <1>1, <1>2, <1>3, HoldsOne DEF InLink

\* dns_output_main writes the next packet.
LEMMA WriteRecords ==
    ASSUME InputFacts, MatcherFacts, OutputFacts, Link, OutputStep, Out!WritePacket
    PROVE  Promise!CaptureNext
<1> DEFINE h == Head(todo)
           x == [file |-> Len(files), item |-> h]
           old == [i \in 1..Len(written) |->
                     [packet |-> written[i].item.id, response |-> written[i].item.response]]
<1>1. /\ Alive /\ main_pc' = main_pc /\ ts' = ts /\ written' = Append(written, x)
      /\ main_pc # "returned" /\ output_pc # "dead" /\ todo # << >> /\ h.id # 0
  BY DEF OutputStep, Out!WritePacket, Alive, inputVars, mainVars
<1>2. /\ Len(written) \in Nat /\ Len(old') = Len(old) + 1
      /\ old' = Append(old, [packet |-> h.id, response |-> h.response])
  <2>1. /\ Len(written) \in Nat /\ Len(Tells(written')) = Len(Tells(written)) + 1
        /\ Tells(written') = Append(Tells(written), Told(x))
    BY <1>1, ToldAppend DEF OutputFacts, OutputHands
  <2> QED BY <2>1 DEF Told, Tells
<1>3. /\ h.id \in 1..Len(ts) /\ (h.response = 0 \/ h.response \in h.id + 1 .. Len(ts))
      /\ h.response \in 0..Len(ts)
      /\ h.id \notin Promise!Recorded /\ (h.response # 0 => h.response \notin Promise!Recorded)
  <2>1. /\ OutputHands(written, received.packets, todo, output_pc = "done")
        /\ Given(output_queue, Len(pkt), pkt, response, NoTime, matcher_pc = "done", output_taken,
                 received.packets)
    BY <1>1 DEF OutputFacts, MatcherFacts, Link, OutLink, Given
  <2>2. NewTo(h, Len(pkt), written)
    BY <1>1, <2>1, RecordsNew
  <2>3. /\ h.id \in 1..Len(ts) /\ (h.response = 0 \/ h.response \in h.id + 1 .. Len(ts))
        /\ h.response \in 0..Len(ts)
    <3> HIDE DEF h
    <3> QED BY SMTT(30), <2>2, KnownRead DEF NewTo, Link
  <2> QED BY <1>2, <2>2, <2>3, RecordedFacts DEF NewTo
<1> HIDE DEF old
<1>4. CASE Alive'
  <2>1. PICK p \in 1..Len(ts), r \in 0..Len(ts) : p = h.id /\ r = h.response
    BY <1>3
  <2>2. Promise!Record(p, r)
    <3> HIDE DEF h
    <3> QED BY <1>1, <1>2, <1>3, <1>4, <2>1 DEF Promise!Record, old
  <2> QED BY <2>2 DEF Promise!CaptureNext
<1>5. CASE ~Alive'
  BY <1>1, <1>2, <1>5 DEF Promise!Die, Promise!CaptureNext, old
<1> QED BY <1>4, <1>5

\* When main gets to destroy things, every packet is in a record.
LEMMA AllRecorded ==
    ASSUME InputFacts, MatcherFacts, OutputFacts, Link, Alive, main_pc = "destroy"
    PROVE  Promise!Recorded = 1..Len(ts)
<1>1. /\ input_pc = "done" /\ matcher_pc = "done" /\ output_pc = "done"
      /\ input_taken = Len(input_queue) /\ output_taken = Len(output_queue)
  BY QueuesEmpty
<1>2. OutputHands(written, received.packets, todo, output_pc = "done")
  BY <1>1 DEF OutputFacts
<1>3. Len(written) \in Nat
  BY <1>2, LenFacts DEF OutputHands
<1>4. \A p : (\E i \in 1..Len(written) : \/ p = written[i].item.id
                                         \/ p = written[i].item.response /\ p # 0)
               <=> p \in 1..Len(pkt)
  BY <1>1, <1>2, AllTold DEF MatcherFacts, Link, OutLink
<1>5. \A p : p \in Promise!Recorded <=> p \in 1..Len(ts)
  BY <1>1, <1>3, <1>4, KnownRead, RecordedFacts DEF Link
<1> QED BY <1>5

\* Every step is one of the promise, or tells nothing.
LEMMA StepCapture ==
    ASSUME InputFacts, MatcherFacts, OutputFacts, Link, [Next]_vars
    PROVE  [Promise!CaptureNext]_(Promise!captureVars)
<1>1. CASE Alive /\ ts' = ts /\ written' = written /\ main_pc' # "returned"
  BY <1>1, TellsNothing DEF Promise!CaptureNext
<1>2. CASE InputStep /\ ts' # ts
  <2>1. ts \in Seq(Int) /\ \E x \in Int : ts' = Append(ts, x)
    BY <1>2, InputMoves, CollectorAssumption DEF InputStep, InputFacts, InputHands,
       CollectorAssumption
  <2>2. Len(ts') = Len(ts) + 1
    BY SMTT(30), <2>1, AppendFacts
  <2> QED BY <1>2, <2>2, InputMoves DEF InputStep, outputVars, Alive, Promise!Read,
             Promise!CaptureNext
<1>3. CASE Destroy
  BY <1>1, <1>3, AllRecorded DEF Destroy, inputVars, outputVars, Promise!End, Promise!CaptureNext
<1>4. CASE Terminated \/ UNCHANGED vars
  BY <1>4 DEF Terminated, vars, inputVars, outputVars, mainVars, Alive, Promise!captureVars
<1>5. CASE InputStep \/ OutputStep
  BY <1>1, <1>2, <1>5, WriteRecords, OutputMoves DEF InputStep, OutputStep, inputVars,
     outputVars, mainVars, Alive
<1>6. CASE MatcherDequeue \/ MatcherStep \/ OutputDequeue \/ Tick \/ Subprocess
  BY <1>1, <1>6 DEF MatcherDequeue, MatcherStep, OutputDequeue, Out!Receive, Out!disk, Tick,
     In!Tick,
       In!packets, Subprocess, Out!SubprocessReads, Out!SubprocessCloses, Out!SubprocessEnds,
       inputVars, outputVars, mainVars, Alive
<1>7. CASE StartMatcher \/ StartOutput \/ JoinMatcher \/ JoinOutput \/ SigintHandler
           \/ ThreadEnds("matcher") \/ ThreadEnds("output")
  BY <1>1, <1>7 DEF StartMatcher, StartOutput, StartThread, JoinMatcher, JoinOutput, Join,
       SigintHandler, ThreadEnds, inputVars, outputVars, Alive
<1> QED BY <1>3, <1>4, <1>5, <1>6, <1>7 DEF Next, MainStep, MatcherThread, OutputThread

-----------------------------------------------------------------------------
\* What the matcher assumes of the configuration.
LEMMA MatcherAssumed ==
    /\ MatchingDuration \in Nat \ {0} /\ FrameMaxDuration \in Nat \ {0}
    /\ FrameMaxSize \in Nat /\ MaxSearch \in Nat /\ QueueLength \in Nat \ {0}
    /\ MatchQname \in BOOLEAN /\ RootName \in Qnames /\ NoTime \notin Int
    /\ NoFrame \notin [type : {0, 1}, time_start : Int, time_end : Int, size : Nat,
                       packets : Seq(Nat)]
BY SMTT(30), CollectorAssumption DEF CollectorAssumption

\* What a step of the program is to each of the three.
LEMMA InputActs ==
    ASSUME [Next]_vars
    PROVE  In!Step \/ In!Take \/ In!Tick \/ UNCHANGED <<inputVars, input_taken>>
BY StepKinds DEF MatcherDequeue, inputVars, shared, In!Take, In!libtrace, In!stats, In!packets,
     In!outside, In!dumpFile, InputStep, Tick, MatcherStep, OutputDequeue, OutputStep,
     Subprocess, Aside

LEMMA MatcherActs ==
    ASSUME InputFacts, InLink, [Next]_vars
    PROVE  \/ Matcher!Step \/ Matcher!Take \/ UNCHANGED <<matcherVars, output_taken>>
           \/ \E g \in Matcher!InputFrame : Matcher!Dequeue(g)
BY StepKinds, MatcherGets DEF OutputDequeue, matcherVars, Matcher!Take, Matcher!heap,
   Matcher!control,
   MatcherStep, InputStep, OutputStep, Tick, Subprocess, Aside

LEMMA OutputActs ==
    ASSUME MatcherFacts, OutLink, [Next]_vars
    PROVE  \/ Out!Step \/ Out!SubprocessReads \/ Out!SubprocessCloses \/ Out!SubprocessEnds
           \/ dns_global_stop' \in {dns_global_stop, TRUE} /\ UNCHANGED outputVars
           \/ \E g : Out!Receive(g) /\ Deliverable(g, NoTime)
<1>1. CASE InputStep \/ Tick
  BY <1>1 DEF InputStep, Tick, In!Tick, In!Step, In!FileOpens, In!FileMissing, In!FilesDone,
       In!CreateFails, In!ConfigFails, In!FilterAsserts, In!FilterFails, In!StartFails,
       In!OpenSucceeds, In!Interrupted, In!EventTerminate, In!EventBadPacket, In!EventPacket,
       In!EventSleep, In!WakeUp, In!SelectFails, In!AdvanceOutput, In!AdvanceDone, In!AppendFits,
       In!AppendToNext, In!FinishFrame, In!FinishFinal, In!outside
<1> QED BY <1>1, StepKinds, OutputGets DEF MatcherDequeue, MatcherStep, Aside, shared,
   OutputStep, Subprocess

\* The configuration is one that the output assumes.
LEMMA OutputAssumed ==
    /\ Periods \subseteq Int /\ PipeCmds \subseteq BOOLEAN /\ PipeCapacity \in Nat \ {0}
    /\ NoTime \notin Int /\ 0 \in Nat /\ MaxPackets \in Nat
BY CollectorAssumption DEF CollectorAssumption

LEMMA NoneIn == \A S : {} \subseteq S
OBVIOUS

\* What the three give each other and what links them.
Agreed == InputFacts /\ MatcherFacts /\ OutputFacts /\ Link

LEMMA InitLink == Init => Link
<1>1. Init => Order /\ InLink
  BY SMTT(30) DEF Init, Order, Threads, InLink, Holds, Closing, In!Init, Matcher!Init
<1>2. Init => OutLink
  BY SMTT(30) DEF Init, OutLink, Takes, Matcher!Init, Out!Init
<1> QED BY <1>1, <1>2 DEF Link

LEMMA StepLink ==
    ASSUME Agreed, MatcherKeeps, MatcherFacts', [Next]_vars
    PROVE  Link'
BY StepOrder, StepInLink, StepOutLink DEF Agreed, Link

\* That is all the promises of the program need.
LEMMA AgreedKeeps == Spec /\ []Agreed => []QuietAtDestroy /\ ImplementsCapture
<1>1. Agreed => QuietAtDestroy
  BY Quiet DEF Agreed
<1>2. Agreed /\ [Next]_vars => [Promise!CaptureNext]_(Promise!captureVars)
  BY SMTT(30), StepCapture DEF Agreed
<1> QED BY <1>1, <1>2, InitCapture, PTL DEF Spec, ImplementsCapture, Promise!CaptureSpec
-----------------------------------------------------------------------------
\* The input in the program.
InP == INSTANCE InputProofs WITH
    pc <- input_pc, target <- input_target, return <- input_return,
    out <- input_queue, taken <- input_taken, OutCapacity <- QueueLength

\* The two instances of Input have the same steps.
LEMMA SameInput ==
    In!Step \/ In!Take \/ In!Tick \/ UNCHANGED <<inputVars, input_taken>> => InP!Move
BY DEF In!Step, In!FileOpens, In!FileMissing, In!FilesDone, In!CreateFails, In!ConfigFails,
   In!FilterAsserts, In!FilterFails, In!StartFails, In!OpenSucceeds, In!Interrupted,
   In!EventTerminate, In!EventBadPacket, In!EventPacket, In!EventSleep, In!WakeUp,
   In!SelectFails, In!AdvanceOutput, In!AdvanceDone, In!AppendFits, In!AppendToNext,
   In!FinishFrame, In!FinishFinal, In!Online, In!stats, In!libtrace, In!queue, In!packets,
   In!outside, In!NewFrame, In!Max2, In!ReportDue, In!Report, In!Enqueue, In!OutputFrame,
   In!AdvanceTimeTo, In!FrameOver, In!NextInput, In!StartTime, In!TraceClose, In!Fits,
   In!AppendPacket, In!Behind, In!DumpPacketFile, In!DumpCloseFile, In!dumpFile, InP!Step,
   InP!FileOpens, InP!FileMissing, InP!FilesDone, InP!CreateFails, InP!ConfigFails,
   InP!FilterAsserts, InP!FilterFails, InP!StartFails, InP!OpenSucceeds, InP!Interrupted,
   InP!EventTerminate, InP!EventBadPacket, InP!EventPacket, InP!EventSleep, InP!WakeUp,
   InP!SelectFails, InP!AdvanceOutput, InP!AdvanceDone, InP!AppendFits, InP!AppendToNext,
   InP!FinishFrame, InP!FinishFinal, InP!Online, InP!stats, InP!libtrace, InP!queue,
   InP!packets, InP!outside, InP!NewFrame, InP!Max2, InP!ReportDue, InP!Report, InP!Enqueue,
   InP!OutputFrame, InP!AdvanceTimeTo, InP!FrameOver, InP!NextInput, InP!StartTime,
   InP!TraceClose, InP!Fits, InP!AppendPacket, InP!Behind, InP!DumpPacketFile,
   InP!DumpCloseFile, InP!dumpFile,
   In!Take, InP!Take, In!Tick, InP!Tick, In!Ended, InP!Ended, inputVars, InP!Still, InP!Move

LEMMA InitInput == Init => InP!IInv
BY InP!InitIInv, CollectorAssumption
   DEF CollectorAssumption, InP!Frame, Init, In!Init, In!Online, In!NewFrame, In!DumpFileInit,
       InP!Init, InP!Online, InP!NewFrame, InP!DumpFileInit

\* Whatever the others do, the input is where its own steps, the clock and the matcher
\* brought it.
LEMMA StepInput == ASSUME InP!IInv, [Next]_vars PROVE InP!IInv'
BY InputActs, SameInput, InP!MoveIInv, CollectorAssumption DEF CollectorAssumption, InP!Frame

\* What the matcher gets is what InputProofs shows of the input.
LEMMA InputGives == InP!IInv => InputFacts
BY InP!InputHandsOver, CollectorAssumption
   DEF CollectorAssumption, InP!Frame, InputFacts, InputHands, Holds, InP!InputHands, InP!Holds

-----------------------------------------------------------------------------
\* The output in the program.
OutP == INSTANCE OutputProofs WITH current_time <- output_time, opc <- output_pc,
                                   InputFrames <- {}, MaxFrames <- 0

USE OutputAssumed, NoneIn

\* The two instances of Output have the same steps.
LEMMA SameOutput ==
    \/ Out!Step \/ Out!SubprocessReads \/ Out!SubprocessCloses \/ Out!SubprocessEnds
    \/ dns_global_stop' \in {dns_global_stop, TRUE} /\ UNCHANGED outputVars
    => OutP!Move
BY DEF Out!config, Out!clock, Out!counters, Out!disk, Out!Zero, Out!Later, Out!Add,
   Out!FrameStart, Out!Todo, Out!SubprocessEnded, Out!PipeBroken, Out!WithDamage,
   Out!PutIntoPipe, Out!PutIntoFile, Out!WriteRefused, Out!LeftUnread, Out!Flush, Out!Write,
   Out!Close, Out!WaitForPipe, Out!Open, Out!OpenFails, Out!RotationDue,
   Out!CheckClose, Out!CheckOpen, Out!FrameChecked, Out!RequestOnly, Out!Count,
   Out!WritePacket, Out!FrameDone, Out!FinalClose, Out!FinalNoFile, Out!Step,
   Out!Ended, Out!SubprocessReads, Out!SubprocessEnds, Out!SubprocessCloses, OutP!config, OutP!clock,
   OutP!counters, OutP!disk, OutP!Zero, OutP!Later, OutP!Add, OutP!FrameStart,
   OutP!Todo, OutP!SubprocessEnded, OutP!PipeBroken, OutP!WithDamage,
   OutP!PutIntoPipe, OutP!PutIntoFile, OutP!WriteRefused, OutP!LeftUnread, OutP!Flush, OutP!Write,
   OutP!Close, OutP!WaitForPipe, OutP!Open, OutP!OpenFails, OutP!RotationDue,
   OutP!CheckClose, OutP!CheckOpen, OutP!FrameChecked, OutP!RequestOnly, OutP!Count,
   OutP!WritePacket, OutP!FrameDone, OutP!FinalClose, OutP!FinalNoFile, OutP!Step,
   OutP!Ended, OutP!SubprocessReads, OutP!SubprocessEnds, OutP!SubprocessCloses, outputVars, OutP!Still,
   OutP!Idle, OutP!Move

LEMMA SameReceive == ASSUME NEW f, Out!Receive(f) PROVE OutP!Receive(f)
BY DEF Out!config, Out!clock, Out!counters, Out!disk, Out!FrameStart, Out!Todo,
   Out!SubprocessEnded, Out!ReceiveFrame, Out!ReceiveNoTime, Out!ReceiveFinal, Out!Receive,
   OutP!config, OutP!clock, OutP!counters, OutP!disk, OutP!FrameStart, OutP!Todo,
   OutP!SubprocessEnded, OutP!ReceiveFrame, OutP!ReceiveNoTime, OutP!ReceiveFinal, OutP!Receive

LEMMA InitOutput == Init => OutP!IInv
BY OutP!InitIInv DEF Init, Out!Init, Out!Zero, OutP!Init, OutP!Zero

\* Whatever the others do, the output is where its own steps, the subprocess, the user
\* and what it gets from the matcher brought it.
LEMMA StepOutput == ASSUME OutP!IInv, MatcherFacts, OutLink, [Next]_vars PROVE OutP!IInv'
<1>1. OutP!Move
  BY OutputActs, SameOutput, SameReceive DEF Deliverable, OutP!Move, OutP!Delivered, OutP!Item
<1> QED BY <1>1, OutP!MoveIInv

\* What is recorded is what OutputProofs shows of the output.
LEMMA OutputGives == OutP!IInv => OutputFacts
BY OutP!OutputHandsOver DEF OutputFacts, OutputHands, OutP!OutputHands

-----------------------------------------------------------------------------
\* The matcher in the program.
MatcherP == INSTANCE PacketMatcherProofs WITH
    current_time <- matcher_time, pc <- matcher_pc, target <- matcher_target,
    return <- matcher_return, out <- output_queue, taken <- output_taken,
    OutCapacity <- QueueLength, InputFrames <- {}, MaxFrames <- 0

USE MatcherAssumed

\* The two instances of PacketMatcher have the same steps.
LEMMA SameMatcher ==
    Matcher!Step \/ Matcher!Take \/ UNCHANGED <<matcherVars, output_taken>> => MatcherP!Move
BY DEF Matcher!Step, Matcher!AdvanceDone, Matcher!AdvanceQuiet, Matcher!AdvanceFrame,
   Matcher!AdvancePacket, Matcher!ReadPacket, Matcher!ReadEnd, Matcher!Unload,
   Matcher!HandleRequest, Matcher!HandleMatched, Matcher!HandleUnmatched, Matcher!Flush,
   Matcher!Finish, Matcher!heap, Matcher!control, Matcher!NewFrame, Matcher!FinalFrame,
   Matcher!AppendPacket, Matcher!QnameMatch, Matcher!Match, Matcher!Enqueue,
   Matcher!AdvanceTimeTo, Matcher!Deadline, Matcher!ExitTime, Matcher!EvTime, Matcher!Reached,
   Matcher!Fits, Matcher!Forget, Matcher!RequestFor, Matcher!MapInsert, Matcher!FirstIn,
   Matcher!Without, Matcher!MapRemove, Matcher!Searched, Matcher!MapMatch, MatcherP!Step,
   MatcherP!AdvanceDone, MatcherP!AdvanceQuiet, MatcherP!AdvanceFrame, MatcherP!AdvancePacket,
   MatcherP!ReadPacket, MatcherP!ReadEnd, MatcherP!Unload, MatcherP!HandleRequest,
   MatcherP!HandleMatched, MatcherP!HandleUnmatched, MatcherP!Flush, MatcherP!Finish,
   MatcherP!heap, MatcherP!control, MatcherP!NewFrame, MatcherP!FinalFrame,
   MatcherP!AppendPacket, MatcherP!QnameMatch, MatcherP!Match, MatcherP!Enqueue,
   MatcherP!AdvanceTimeTo, MatcherP!Deadline, MatcherP!ExitTime, MatcherP!EvTime,
   MatcherP!Reached, MatcherP!Fits, MatcherP!Forget, MatcherP!RequestFor, MatcherP!MapInsert,
   MatcherP!FirstIn, MatcherP!Without, MatcherP!MapRemove, MatcherP!Searched, MatcherP!MapMatch,
   matcherVars, Matcher!Take, MatcherP!Take, MatcherP!vars, MatcherP!Move

LEMMA SameDequeue == ASSUME NEW f, Matcher!Dequeue(f) PROVE MatcherP!Dequeue(f)
BY DEF Matcher!Dequeue, Matcher!LoadFinal, Matcher!SkipFrame, Matcher!LoadFrame,
   Matcher!LastTime, Matcher!NewFrame, Matcher!AdvanceTimeTo, Matcher!heap, Matcher!control,
   MatcherP!Dequeue, MatcherP!LoadFinal, MatcherP!SkipFrame, MatcherP!LoadFrame,
   MatcherP!LastTime, MatcherP!NewFrame, MatcherP!AdvanceTimeTo, MatcherP!heap,
   MatcherP!control

LEMMA InitMatcher == Init => MatcherP!Inv3
BY MatcherP!InitInv3 DEF Init, Matcher!Init, MatcherP!Init

\* The matcher gets frames from the input and gives frames to the output, and nobody
\* else touches what it has.
LEMMA StepMatcher ==
    ASSUME MatcherP!Inv3, InputFacts, InLink, [Next]_vars
    PROVE  MatcherP!Inv3' /\ MatcherKeeps
<1>1. MatcherP!Move
  BY MatcherActs, SameMatcher, SameDequeue
     DEF Matcher!InputFrame, Matcher!Packet, MatcherP!InputFrame, MatcherP!Packet, MatcherP!Move
<1> QED BY <1>1, MatcherP!MoveInv3, MatcherP!MatcherKeeps DEF MatcherKeeps, Kept, MatcherP!Ids

\* What the output gets is what PacketMatcherProofs shows of the matcher.
LEMMA MatcherGives == MatcherP!Inv3 => MatcherFacts
BY MatcherP!MatcherHandsOver
   DEF MatcherFacts, MatcherHands, MatcherP!MatcherHands

-----------------------------------------------------------------------------
\* The invariants of the three and what links them.
Whole == InP!IInv /\ OutP!IInv /\ MatcherP!Inv3 /\ Link

\* What is proved of the input, the matcher and the output by themselves holds of them
\* in the program (main.c), and so does what they give each other: each gets from its
\* queue what its own proof assumes, the frames main and the matcher thread put into the
\* queues are taken in order, and main joins a thread only when it is done.
THEOREM PartsHold == Spec => []Whole /\ []Agreed
BY InitInput, InitOutput, InitMatcher, InitLink, InputGives, OutputGives, MatcherGives,
   StepInput, StepOutput, StepMatcher, StepLink, PTL DEF Spec, Whole, Agreed, Link

\* When main destroys the input, the matcher and the output (main.c), both threads have
\* ended, the queues and the matcher are empty, the output is closed and no destructor
\* finds anything it dies of.
THEOREM DestroysQuietly == Spec => []QuietAtDestroy
BY PartsHold, AgreedKeeps, PTL

\* The program is an implementation of Capture: every packet read is recorded once, as
\* itself or as the response of its request, and main returns only after all were.
THEOREM CapturesAll == Spec => ImplementsCapture
BY PartsHold, AgreedKeeps, PTL
====
