---------------------------- MODULE PacketMatcher ----------------------------
(***************************************************************************)
(* The packet matcher thread (worker_packet_matcher.c).  It takes frames   *)
(* of packets from its input queue, keeps every packet in packet_queue for *)
(* the matching window, attaches each response to a waiting request, and   *)
(* puts frames of what leaves the window into its output queue.            *)
(*                                                                         *)
(* A step is one iteration of a loop of the thread: every iteration may    *)
(* block on the output queue.  Packets are numbered in the order they are  *)
(* read; pkt[i] is the data of packet i and response[i] the number its     *)
(* response pointer refers to, 0 for NULL.                                 *)
(***************************************************************************)
EXTENDS Integers, Sequences, FiniteSets, PacketMap

CONSTANTS Keys,             \* primary keys of packets
          Qnames, RootName, \* query names; the one of length one
          MatchingDuration, FrameMaxDuration, FrameMaxSize,
          MatchQname,       \* the option match_qname
          MaxSearch,        \* DNS_PACKET_HASH_MAX_SEARCH
          OutCapacity,      \* capacity of the output queue
          NoTime, NoFrame,
          InputFrames,      \* frames the input may deliver, with packet data
          MaxPackets, MaxFrames \* bounds on what the input delivers

\* The assertion on matching_duration in dns_worker_packet_matcher_create and
\* the limits dns_collector_conf_commit puts on the other options.
ASSUME MatcherAssumption ==
    /\ MatchingDuration \in Nat \ {0} /\ FrameMaxDuration \in Nat \ {0}
    /\ FrameMaxSize \in Nat /\ MaxSearch \in Nat /\ OutCapacity \in Nat \ {0}
    /\ MatchQname \in BOOLEAN /\ RootName \in Qnames
    /\ NoTime \notin Int
    /\ NoFrame \notin [type : {0, 1}, time_start : Int, time_end : Int, size : Nat,
                       packets : Seq(Nat)]

Packet == [ts : Int, request : BOOLEAN, key : Keys, qname : Qnames, size : Nat]

\* A frame of packet data as the input sends it: a frame with a packet has a
\* time, and the final frame comes after the last packet (see Input).
InputFrame ==
    {f \in [type : {0, 1}, time_start : Int \cup {NoTime}, time_end : Int \cup {NoTime},
            size : Nat, packets : Seq(Packet)] :
        /\ f.time_start = NoTime <=> f.time_end = NoTime
        /\ f.packets # << >> => f.time_start # NoTime /\ f.type = 0}

ASSUME InputAssumption == InputFrames \subseteq InputFrame

VARIABLES pkt, response, \* the packets read so far and their response pointers
          inframe, outframe, packet_queue, hash_table, current_time,
          pc, target, return, \* control: advance_time_to(target), then return
          cur,           \* the packet next_packet returned
          late,          \* packets that were behind current_time when read
          loaded,        \* number of frames read
          out,           \* all frames put into the output queue
          taken          \* how many of them the output thread has taken

heap == <<pkt, response>>
control == <<pc, target, return, cur>>
vars == <<heap, inframe, outframe, packet_queue, hash_table, current_time,
          control, late, loaded, out, taken>>

\* dns_packet_frame_create and dns_packet_frame_create_final
NewFrame(start, end) == [type |-> 0, time_start |-> start, time_end |-> end,
                         size |-> 0, packets |-> << >>]
FinalFrame(time) == [NewFrame(time, time) EXCEPT !.type = 1]

\* Faulty: the end of the frame does not follow its packets.
AppendPacketKeepsEnd(frame, p) ==
    [frame EXCEPT !.packets = Append(@, p), !.size = @ + pkt[p].size]

\* dns_packet_frame_append_packet
AppendPacket(frame, p) ==
    [frame EXCEPT !.packets = Append(@, p),
                  !.time_end = IF @ = NoTime \/ @ < pkt[p].ts THEN pkt[p].ts ELSE @,
                  !.size = @ + pkt[p].size]

\* dns_packet_qname_match.  A name is its text and its size; no name at all, of
\* size zero, is an element of Qnames of its own that matches only itself.
QnameMatch(req, resp) ==
    pkt[resp].qname = RootName \/ pkt[req].qname = pkt[resp].qname

Match(req, resp) == ~MatchQname \/ QnameMatch(req, resp)

\* Faulty: a queue that drops what does not fit.
EnqueueOrDrop(frame) ==
    out' = IF Len(out) - taken < OutCapacity THEN Append(out, frame) ELSE out

\* dns_frame_queue_enqueue on the output queue, which blocks while it is full.
Enqueue(frame) == /\ Len(out) - taken < OutCapacity
                  /\ out' = Append(out, frame)

Init == /\ pkt = << >> /\ response = << >>
        /\ inframe = NoFrame /\ outframe = NoFrame
        /\ packet_queue = << >>
        /\ hash_table = [k \in Keys |-> << >>]
        /\ current_time = NoTime
        /\ pc = "load" /\ target = NoTime /\ return = "load" /\ cur = 0
        /\ late = {} /\ loaded = 0
        /\ out = << >> /\ taken = 0

-----------------------------------------------------------------------------
\* Call dns_worker_packet_matcher_advance_time_to(time), then go on at label l.
AdvanceTimeTo(time, l) == pc' = "advance" /\ target' = time /\ return' = l

\* Faulty: off by one.
DeadlineLate == outframe.time_start + FrameMaxDuration + MatchingDuration + 1

\* When the current output frame is complete, and what happens first: that, or
\* the head of the queue leaving the matching window.
Deadline == outframe.time_start + FrameMaxDuration + MatchingDuration
ExitTime(p) == pkt[p].ts + MatchingDuration

\* Faulty: the later of the two.
EvTimeMax == IF packet_queue # << >> /\ ExitTime(Head(packet_queue)) > Deadline
             THEN ExitTime(Head(packet_queue)) ELSE Deadline

EvTime == IF packet_queue # << >> /\ ExitTime(Head(packet_queue)) < Deadline
          THEN ExitTime(Head(packet_queue)) ELSE Deadline

\* The loop is over.  This is also the early return for a time in the past.
Reached == current_time >= target

AdvanceDone == /\ pc = "advance" /\ Reached
               /\ pc' = return
               /\ UNCHANGED <<heap, inframe, outframe, packet_queue, hash_table,
                              current_time, target, return, cur, late, loaded, out, taken>>

AdvanceQuiet == /\ pc = "advance" /\ ~Reached
                /\ EvTime > target
                /\ current_time' = target
                /\ UNCHANGED <<heap, inframe, outframe, packet_queue, hash_table,
                               control, late, loaded, out, taken>>

\* The frame reached its maximal duration: dns_worker_packet_matcher_output_frame.
AdvanceFrame ==
    /\ pc = "advance" /\ ~Reached
    /\ EvTime <= target /\ EvTime = Deadline
    /\ LET end == EvTime - MatchingDuration
       IN  /\ Enqueue([outframe EXCEPT !.time_end = end])
           /\ outframe' = NewFrame(end, end)
    /\ current_time' = EvTime
    /\ UNCHANGED <<heap, inframe, packet_queue, hash_table, control, late, loaded, taken>>

Fits(p) == outframe.size + pkt[p].size <= FrameMaxSize

\* Faulty: the packet stays in the hash.
ForgetNothing(p) == hash_table

\* The hash without a packet that leaves, unless it left with its response.
Forget(p) == IF pkt[p].request /\ response[p] = 0
             THEN MapRemove(hash_table, pkt[p].key, p) ELSE hash_table

\* The head of the queue leaves the window into the output frame, which is put
\* out first if the packet does not fit.
AdvancePacket ==
    /\ pc = "advance" /\ ~Reached
    /\ EvTime <= target /\ EvTime # Deadline
    /\ LET p == Head(packet_queue)
       IN  /\ IF Fits(p)
              THEN /\ outframe' = AppendPacket(outframe, p)
                   /\ UNCHANGED out
              ELSE /\ Enqueue(outframe)
                   /\ outframe' = AppendPacket(NewFrame(outframe.time_end, outframe.time_end), p)
           /\ hash_table' = Forget(p)
    /\ packet_queue' = Tail(packet_queue)
    /\ current_time' = EvTime
    /\ UNCHANGED <<heap, inframe, control, late, loaded, taken>>

-----------------------------------------------------------------------------
\* Faulty: a packet is left behind if two have the latest timestamp.
LastTimeShort == current_time + MatchingDuration

LastTime == current_time + MatchingDuration + 1

\* dns_worker_packet_matcher_next_packet with no frame loaded: f comes from the
\* input queue.  The last frame ends the reading, and main advances the time
\* past everything still waiting.
LoadFinal(f) ==
    /\ pc = "load" /\ f.type = 1
    /\ IF current_time = NoTime
       THEN pc' = "flush" /\ UNCHANGED <<target, return>>
       ELSE AdvanceTimeTo(LastTime, "flush")
    /\ loaded' = loaded + 1
    /\ UNCHANGED <<inframe, outframe, packet_queue, hash_table,
                   current_time, cur, late, out, taken>>

\* A frame of an input that never saw a packet says nothing.
SkipFrame(f) ==
    /\ pc = "load" /\ f.type = 0 /\ f.packets = << >> /\ f.time_start = NoTime
    /\ loaded' = loaded + 1
    /\ UNCHANGED <<inframe, outframe, packet_queue, hash_table,
                   current_time, control, late, out, taken>>

\* Faulty: the first frame does not set the time.
LoadFrameNoTime(f) ==
    /\ pc = "load" /\ f.type = 0 /\ ~(f.packets = << >> /\ f.time_start = NoTime)
    /\ inframe' = f
    /\ outframe' = IF outframe = NoFrame THEN NewFrame(f.time_start, f.time_start) ELSE outframe
    /\ AdvanceTimeTo(f.time_start, "read")
    /\ loaded' = loaded + 1
    /\ UNCHANGED <<packet_queue, hash_table, current_time, cur, late, out, taken>>

LoadFrame(f) ==
    /\ pc = "load" /\ f.type = 0 /\ ~(f.packets = << >> /\ f.time_start = NoTime)
    /\ inframe' = f
    /\ IF outframe = NoFrame
       THEN outframe' = NewFrame(f.time_start, f.time_start) /\ current_time' = f.time_start
       ELSE UNCHANGED <<outframe, current_time>>
    /\ AdvanceTimeTo(f.time_start, "read")
    /\ loaded' = loaded + 1
    /\ UNCHANGED <<packet_queue, hash_table, cur, late, out, taken>>

\* The next packet of the loaded frame, or its end.
ReadPacket == /\ pc = "read" /\ inframe.packets # << >>
              /\ cur' = Head(inframe.packets)
              /\ inframe' = [inframe EXCEPT !.packets = Tail(@)]
              /\ AdvanceTimeTo(pkt[cur'].ts, "handle")
              /\ late' = IF pkt[cur'].ts < current_time THEN late \cup {cur'} ELSE late
              /\ UNCHANGED <<heap, outframe, packet_queue, hash_table, current_time,
                             loaded, out, taken>>

ReadEnd == /\ pc = "read" /\ inframe.packets = << >>
           /\ AdvanceTimeTo(inframe.time_end, "unload")
           /\ UNCHANGED <<heap, inframe, outframe, packet_queue, hash_table,
                          current_time, cur, late, loaded, out, taken>>

Unload == /\ pc = "unload"
          /\ inframe' = NoFrame /\ pc' = "load"
          /\ UNCHANGED <<heap, outframe, packet_queue, hash_table, current_time,
                         target, return, cur, late, loaded, out, taken>>
-----------------------------------------------------------------------------
\* The loop of dns_worker_packet_matcher_main.  A request is hashed and queued.
HandleRequest ==
    /\ pc = "handle" /\ pkt[cur].request
    /\ hash_table' = MapInsert(hash_table, pkt[cur].key, cur)
    /\ packet_queue' = Append(packet_queue, cur)
    /\ pc' = "read"
    /\ UNCHANGED <<heap, inframe, outframe, current_time, target, return, cur, late,
                   loaded, out, taken>>

\* Faulty: the name is ignored.
RequestForAnyName(resp) == MapMatch(hash_table, pkt[resp].key, MaxSearch, 1..Len(pkt))

\* The waiting request a response belongs to, 0 if there is none.
RequestFor(resp) == MapMatch(hash_table, pkt[resp].key, MaxSearch,
                             {req \in 1..Len(pkt) : Match(req, resp)})

\* The request leaves the hash and stays in the queue; it owns the response.
HandleMatched ==
    /\ pc = "handle" /\ ~pkt[cur].request
    /\ LET req == RequestFor(cur)
       IN  /\ req # 0
           /\ hash_table' = MapRemove(hash_table, pkt[cur].key, req)
           /\ response' = [response EXCEPT ![req] = cur]
    /\ pc' = "read"
    /\ UNCHANGED <<pkt, inframe, outframe, packet_queue, current_time, target, return,
                   cur, late, loaded, out, taken>>

HandleUnmatched ==
    /\ pc = "handle" /\ ~pkt[cur].request /\ RequestFor(cur) = 0
    /\ packet_queue' = Append(packet_queue, cur)
    /\ pc' = "read"
    /\ UNCHANGED <<heap, inframe, outframe, hash_table, current_time, target, return,
                   cur, late, loaded, out, taken>>

\* The end of main: the last output frame, then the final one.
Flush == /\ pc = "flush"
         /\ IF outframe = NoFrame THEN UNCHANGED out ELSE Enqueue(outframe)
         /\ outframe' = NoFrame
         /\ pc' = "final"
         /\ UNCHANGED <<heap, inframe, packet_queue, hash_table, current_time, target,
                        return, cur, late, loaded, taken>>

Finish == /\ pc = "final"
          /\ Enqueue(FinalFrame(current_time))
          /\ pc' = "done"
          /\ UNCHANGED <<heap, inframe, outframe, packet_queue, hash_table, current_time,
                         target, return, cur, late, loaded, taken>>

Step == \/ AdvanceDone \/ AdvanceQuiet \/ AdvanceFrame \/ AdvancePacket
        \/ ReadPacket \/ ReadEnd \/ Unload
        \/ HandleRequest \/ HandleMatched \/ HandleUnmatched
        \/ Flush \/ Finish

\* dns_frame_queue_dequeue on the input queue gives f, whose packets are new.
Dequeue(f) ==
    /\ pkt' = pkt \o f.packets
    /\ response' = response \o [i \in 1..Len(f.packets) |-> 0]
    /\ LET g == [f EXCEPT !.packets = [i \in 1..Len(f.packets) |-> Len(pkt) + i]]
       IN  LoadFinal(g) \/ SkipFrame(g) \/ LoadFrame(g)

\* The input delivers a frame; after the final one it sends nothing.
Receive == \E f \in InputFrames :
    /\ Len(pkt) + Len(f.packets) <= MaxPackets
    /\ loaded < MaxFrames \/ f.type = 1
    /\ Dequeue(f)

\* The output thread takes a frame.
Take == /\ taken < Len(out)
        /\ taken' = taken + 1
        /\ UNCHANGED <<heap, inframe, outframe, packet_queue, hash_table, current_time,
                       control, late, loaded, out>>

Terminated == pc = "done" /\ taken = Len(out) /\ UNCHANGED vars

Next == Step \/ Receive \/ Take \/ Terminated

Spec == Init /\ [][Next]_vars
-----------------------------------------------------------------------------
Ids == 1..Len(pkt)
Labels == {"load", "advance", "read", "handle", "unload", "flush", "final", "done"}
Frame == [type : {0, 1}, time_start : Int, time_end : Int, size : Nat, packets : Seq(Ids)]
OutFrame == [type : {0, 1}, time_start : Int \cup {NoTime}, time_end : Int \cup {NoTime},
             size : Nat, packets : Seq(Ids)]

\* The variables have the types of the C objects; in particular the output
\* frame and the current time exist together, as advance_time_to asserts.
TypeOK ==
    /\ pkt \in Seq(Packet)
    /\ response \in Seq(0..Len(pkt)) /\ Len(response) = Len(pkt)
    /\ inframe = NoFrame \/ inframe \in Frame
    /\ outframe = NoFrame \/ outframe \in Frame
    /\ packet_queue \in Seq(Ids)
    /\ hash_table \in [Keys -> Seq(Ids)]
    /\ current_time \in Int \cup {NoTime}
    /\ pc \in Labels /\ return \in Labels \ {"advance", "done"}
    /\ cur \in 0..Len(pkt) /\ late \subseteq Ids
    /\ out \in Seq(OutFrame) /\ taken \in 0..Len(out)
    /\ pc \notin {"final", "done"} => (outframe = NoFrame <=> current_time = NoTime)
    /\ pc = "advance" => target \in Int /\ current_time # NoTime

Queued == Range(packet_queue)
Hashed == UNION {Range(hash_table[k]) : k \in Keys}
Output == UNION {Range(out[i].packets) : i \in 1..Len(out)}
Holding == pc = "handle" \/ (pc = "advance" /\ return = "handle")
Pending == (IF inframe = NoFrame THEN {} ELSE Range(inframe.packets))
           \cup (IF Holding THEN {cur} ELSE {})
InOutframe == IF outframe = NoFrame THEN {} ELSE Range(outframe.packets)
Attached == {response[i] : i \in Ids} \ {0}

\* The hash holds exactly the queued requests that have no response, each once
\* and under its own key.  So the assertion in dns_packet_hash_remove_packet
\* never fails, and the hash never refers to a packet that left the queue.
HashIsUnanswered ==
    /\ Hashed = {p \in Queued : pkt[p].request /\ response[p] = 0}
    /\ \A k \in Keys : /\ \A p \in Range(hash_table[k]) : pkt[p].key = k
                       /\ IsInjective(hash_table[k])

\* Every packet read is in exactly one place: not yet handled, in the queue, in
\* the output frame, put out, or attached to one request as its response.
\* None is lost, none is written twice.
EachPacketOnce ==
    /\ Ids = Pending \cup Queued \cup InOutframe \cup Output \cup Attached
    /\ Pending \cap (Queued \cup InOutframe \cup Output \cup Attached) = {}
    /\ Queued \cap (InOutframe \cup Output \cup Attached) = {}
    /\ InOutframe \cap (Output \cup Attached) = {}
    /\ Output \cap Attached = {}
    /\ IsInjective(packet_queue)
    /\ outframe # NoFrame => IsInjective(outframe.packets)
    /\ \A i \in 1..Len(out) : IsInjective(out[i].packets)
    /\ \A i, j \in 1..Len(out) :
         i # j => Range(out[i].packets) \cap Range(out[j].packets) = {}
    /\ \A i, j \in Ids : response[i] = response[j] /\ i # j => response[i] = 0

\* A response is attached only to a request with its key and, if so configured,
\* its name, that was read before it.
MatchesAreRight ==
    \A i \in Ids : response[i] # 0 =>
        /\ pkt[i].request /\ ~pkt[response[i]].request /\ i < response[i]
        /\ pkt[i].key = pkt[response[i]].key /\ Match(i, response[i])

\* The requests a queued response's search met before it came to req: those
\* with the same key that are newer than req and had no response yet.
InFront(req, resp) == {r \in Queued : /\ req < r /\ r < resp
                                      /\ pkt[r].request /\ pkt[r].key = pkt[req].key
                                      /\ response[r] = 0 \/ response[r] > resp}

\* A response goes unmatched past a waiting request it belongs to only if more
\* than MaxSearch newer requests with the same key were in front of it.
NoMissedMatch ==
    \A req, resp \in Queued :
        /\ req < resp /\ pkt[req].request /\ response[req] = 0 /\ ~pkt[resp].request
        /\ pkt[req].key = pkt[resp].key /\ Match(req, resp)
        => Cardinality(InFront(req, resp)) > MaxSearch

AllFrames == IF outframe = NoFrame THEN out ELSE Append(out, outframe)

\* The output frames tile time: each starts where the one before ended and none
\* is longer than FrameMaxDuration, so the assertion on outframe->time_end in
\* advance_time_to never fails; and none is larger than FrameMaxSize unless one
\* packet alone is.
FramesTileTime ==
    \A i \in 1..Len(AllFrames) : AllFrames[i].type = 0 =>
        /\ AllFrames[i].time_start <= AllFrames[i].time_end
        /\ AllFrames[i].time_end <= AllFrames[i].time_start + FrameMaxDuration
        /\ i > 1 => AllFrames[i].time_start = AllFrames[i - 1].time_end
        /\ AllFrames[i].size > FrameMaxSize => Len(AllFrames[i].packets) = 1

\* As long as no packet is read late, a response is matched within
\* MatchingDuration of its request and never to a later one.  (A late packet
\* keeps what is behind it in the queue longer.)
WithinWindowInOrder ==
    late = {} => \A i \in Ids : response[i] # 0 =>
                    pkt[response[i]].ts - pkt[i].ts \in 0..MatchingDuration

\* As long as no packet is read late, the output is ordered by timestamp, within
\* a frame and from frame to frame, and every packet lies inside the time of its
\* frame.
OutputInOrder ==
    late = {} => \A j \in 1..Len(AllFrames) : \A n \in 1..Len(AllFrames[j].packets) :
        LET p == AllFrames[j].packets[n]
        IN  /\ AllFrames[j].time_start <= pkt[p].ts /\ pkt[p].ts <= AllFrames[j].time_end
            /\ \A m \in 1..n : pkt[AllFrames[j].packets[m]].ts <= pkt[p].ts
            /\ \A i \in 1..(j - 1) : \A q \in Range(AllFrames[i].packets) :
                 pkt[q].ts <= pkt[p].ts

\* When the thread ends, nothing waits in it: every packet was put out, alone or
\* attached to its request, and one final frame follows everything else.
DrainedAtEnd ==
    pc = "done" => /\ packet_queue = << >> /\ Hashed = {} /\ outframe = NoFrame
                   /\ Output \cup Attached = Ids
                   /\ \A i \in 1..Len(out) : out[i].type = 1 <=> i = Len(out)
=============================================================================
