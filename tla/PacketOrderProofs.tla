------------------------- MODULE PacketOrderProofs --------------------------
(***************************************************************************)
(* What the packet matcher does in which order.  As long as no packet is   *)
(* late the output is ordered by time and responses are matched inside the *)
(* window; and a response goes unmatched past a waiting request it belongs *)
(* to only by the limit of the search in dns_packet_hash_get_match.        *)
(***************************************************************************)
EXTENDS PacketMatcherProofs

\* While no packet was late, the queue is sorted and lies inside the matching
\* window, after the time the output has reached.
Sorted ==
    late = {} =>
        /\ \A i, j \in 1..Len(packet_queue) :
             i < j => pkt[packet_queue[i]].ts <= pkt[packet_queue[j]].ts
        /\ \A i \in 1..Len(packet_queue) : /\ pkt[packet_queue[i]].ts <= current_time
                                           /\ current_time <= ExitTime(packet_queue[i])
        /\ pc = "handle" => current_time = pkt[cur].ts
        /\ pc = "advance" /\ return = "handle" => current_time <= target
        /\ outframe # NoFrame =>
             /\ outframe.time_end <= current_time
             /\ \A i \in 1..Len(packet_queue) : outframe.time_end <= pkt[packet_queue[i]].ts

\* The packets of a frame are in order and inside its time; those of one frame
\* come before those of another; those of a frame come before a time.
Spanned(f) ==
    \A n \in 1..Len(f.packets) :
        /\ f.time_start <= pkt[f.packets[n]].ts /\ pkt[f.packets[n]].ts <= f.time_end
        /\ \A m \in 1..n : pkt[f.packets[m]].ts <= pkt[f.packets[n]].ts
Before(f, g) == \A m \in 1..Len(f.packets) : \A n \in 1..Len(g.packets) :
                    pkt[f.packets[m]].ts <= pkt[g.packets[n]].ts
Until(f, time) == \A m \in 1..Len(f.packets) : pkt[f.packets[m]].ts <= time

\* OutputInOrder, with the current output frame apart.
Ordered ==
    late = {} =>
        /\ \A j \in 1..Len(out) : Spanned(out[j])
        /\ \A i, j \in 1..Len(out) : i < j => Before(out[i], out[j])
        /\ outframe # NoFrame =>
             /\ Spanned(outframe)
             /\ \A i \in 1..Len(out) : /\ Before(out[i], outframe)
                                       /\ Until(out[i], outframe.time_end)

Inv4 == Inv3 /\ Sorted /\ Ordered /\ WithinWindowInOrder

USE Zenon, SMTT(30)
-----------------------------------------------------------------------------
\* While no packet was late, the head of the queue is the oldest packet in it.
LEMMA HeadOldest ==
    ASSUME Inv1, Sorted, late = {}
    PROVE  \A i \in 1..Len(packet_queue) :
               /\ pkt[Head(packet_queue)].ts <= pkt[packet_queue[i]].ts
               /\ ExitTime(Head(packet_queue)) <= ExitTime(packet_queue[i])
<1> SUFFICES ASSUME NEW i \in 1..Len(packet_queue)
             PROVE  /\ pkt[Head(packet_queue)].ts <= pkt[packet_queue[i]].ts
                    /\ ExitTime(Head(packet_queue)) <= ExitTime(packet_queue[i])
  OBVIOUS
<1>1. /\ 1 \in 1..Len(packet_queue) /\ Head(packet_queue) = packet_queue[1]
      /\ Len(packet_queue) \in Nat
  BY QueueTimes
<1> DEFINE s == pkt[packet_queue[1]].ts
           t == pkt[packet_queue[i]].ts
<1>2. /\ s \in Int /\ t \in Int /\ ExitTime(packet_queue[1]) = s + MatchingDuration
      /\ ExitTime(packet_queue[i]) = t + MatchingDuration
  BY <1>1, QueueTimes
<1>3. 1 < i \/ 1 = i
  BY <1>1
<1>4. 1 < i => s <= t
  BY <1>1 DEF Sorted
<1>5. 1 = i => s = t
  OBVIOUS
<1> HIDE DEF s, t
<1>6. s <= t /\ s + MatchingDuration <= t + MatchingDuration
  BY SMTT(30), <1>2, <1>3, <1>4, <1>5, Durations
<1> QED BY <1>1, <1>2, <1>6 DEF s, t

\* The loop of advance_time_to.
LEMMA SortedAdvance ==
    ASSUME Inv3, Sorted, AdvanceDone \/ AdvanceQuiet \/ AdvanceFrame \/ AdvancePacket
    PROVE  Sorted'
<1> SUFFICES ASSUME late' = {} PROVE Sorted'
  BY DEF Sorted
<1> DEFINE q == packet_queue
           n == Len(q)
<1>1. /\ pc = "advance" /\ pkt' = pkt /\ cur' = cur /\ target' = target /\ return' = return
      /\ return \in {"read", "handle", "unload", "flush"} /\ late = {} /\ Inv1
  BY DEF AdvanceDone, AdvanceQuiet, AdvanceFrame, AdvancePacket, heap, control, Inv3, Inv2,
         Inv1, Reading
<1>2. /\ current_time \in Int /\ target \in Int /\ EvTime \in Int /\ outframe # NoFrame
      /\ Deadline \in Int /\ outframe \in Frame /\ outframe.time_end \in Int
      /\ q # << >> => EvTime <= ExitTime(Head(q))
  BY <1>1, EvTimeProperties, FrameFields
<1>3. /\ q \in Seq(Ids) /\ n \in Nat
      /\ \A i \in 1..n : pkt[q[i]].ts \in Int /\ ExitTime(q[i]) \in Int
      /\ q # << >> => 1 \in 1..n /\ Head(q) = q[1]
      /\ q = << >> => \A i \in 1..n : FALSE
  BY <1>1, QueueTimes
<1>4. \A p : ExitTime(p)' = ExitTime(p)
  BY <1>1 DEF ExitTime
<1>5. /\ \A i, j \in 1..n : i < j => pkt[q[i]].ts <= pkt[q[j]].ts
      /\ \A i \in 1..n : pkt[q[i]].ts <= current_time /\ current_time <= ExitTime(q[i])
      /\ return = "handle" => current_time <= target /\ target = pkt[cur].ts
      /\ outframe.time_end <= current_time
      /\ \A i \in 1..n : outframe.time_end <= pkt[q[i]].ts
  BY <1>1, <1>2 DEF Sorted, Inv3, Draining
<1>6. \A i \in 1..n : pkt[Head(q)].ts <= pkt[q[i]].ts /\ ExitTime(Head(q)) <= ExitTime(q[i])
  BY <1>1, HeadOldest
<1>7. CASE AdvanceDone
  <2>1. /\ current_time >= target /\ pc' = return /\ q' = q /\ current_time' = current_time
        /\ outframe' = outframe
    BY <1>7 DEF AdvanceDone, Reached
  <2>2. return = "handle" => current_time = pkt[cur].ts
    BY SMTT(30), <2>1, <1>2, <1>5
  <2> QED BY <2>1, <2>2, <1>1, <1>4, <1>5 DEF Sorted
<1>8. CASE AdvanceQuiet
  <2>1. /\ current_time < target /\ EvTime > target /\ current_time' = target
        /\ pc' = pc /\ q' = q /\ outframe' = outframe
    BY SMTT(30), <1>2, <1>8 DEF AdvanceQuiet, Reached, control
  <2>2. \A i \in 1..n : pkt[q[i]].ts <= target /\ target <= ExitTime(q[i])
    BY SMTT(30), <2>1, <1>2, <1>3, <1>5, <1>6
  <2>3. outframe.time_end <= target /\ target <= target
    BY SMTT(30), <2>1, <1>2, <1>5
  <2> QED BY <2>1, <2>2, <2>3, <1>1, <1>4, <1>5 DEF Sorted
<1>9. CASE AdvanceFrame
  <2>1. /\ pc' = pc /\ q' = q /\ current_time' = Deadline /\ Deadline <= target
        /\ q # << >> => Deadline <= ExitTime(Head(q))
    BY <1>1, <1>9, FrameClosed DEF AdvanceFrame, control
  <2>2. outframe'.time_end = outframe.time_start + FrameMaxDuration
    BY <1>1, <1>9, FrameClosed, NewFrameFields
  <2> DEFINE e == outframe.time_start + FrameMaxDuration
  <2>3. Deadline = e + MatchingDuration /\ e \in Int
    BY <1>2, FrameFields, Durations DEF Deadline
  <2>4. current_time <= Deadline
    BY <1>2 DEF Inv3, Framing
  <2> HIDE DEF e
  <2>5. \A i \in 1..n : pkt[q[i]].ts <= Deadline /\ Deadline <= ExitTime(q[i])
    BY SMTT(30), <2>1, <2>4, <1>2, <1>3, <1>5, <1>6
  <2>6. \A i \in 1..n : ExitTime(q[i]) = pkt[q[i]].ts + MatchingDuration
    BY <1>1, QueueTimes
  <2>7. e <= Deadline /\ \A i \in 1..n : e <= pkt[q[i]].ts
    <3>1. \A t \in Int : e + MatchingDuration <= t + MatchingDuration => e <= t
      BY SMTT(30), <2>3, Durations
    <3>2. e <= e + MatchingDuration
      BY SMTT(30), <2>3, Durations
    <3> QED BY <3>1, <3>2, <2>3, <2>5, <2>6, <1>3
  <2> QED BY <2>1, <2>2, <2>5, <2>7, <1>1, <1>4, <1>5 DEF Sorted, e
<1>10. CASE AdvancePacket
  <2> DEFINE p == Head(q)
  <2>1. /\ pc' = pc /\ q' = Tail(q) /\ current_time' = ExitTime(p) /\ ExitTime(p) <= target
        /\ q # << >> /\ p \in Ids
    BY <1>1, <1>10, PacketLeaves DEF AdvancePacket, control
  <2>2. PICK g \in Frame :
          /\ g = outframe \/ g = NewFrame(outframe.time_end, outframe.time_end)
          /\ outframe'.time_end = IF g.time_end < pkt[p].ts THEN pkt[p].ts ELSE g.time_end
    BY <1>1, <1>10, PacketLeaves
  <2>3. g.time_end = outframe.time_end
    BY <2>2, NewFrameFields
  <2>4. p = q[1] /\ 1 \in 1..n
    BY <2>1, <1>3
  <2> HIDE DEF p
  <2>5. outframe'.time_end = pkt[p].ts
    <3>1. pkt[p].ts \in Int /\ outframe.time_end <= pkt[p].ts
      BY <2>4, <1>3, <1>5
    <3>2. ~(outframe.time_end < pkt[p].ts) => outframe.time_end = pkt[p].ts
      BY SMTT(30), <3>1, <1>2
    <3> QED BY <3>2, <2>2, <2>3
  <2>6. /\ Len(q') \in Nat /\ \A i \in 1..Len(q') : i + 1 \in 1..n /\ q'[i] = q[i + 1]
        /\ \A i, j \in 1..Len(q') : i < j => i + 1 < j + 1
    BY SMTT(30), <2>1, <1>3, HeadTailFacts, LenFacts
  <2>7. \A i \in 1..n : /\ pkt[q[i]].ts <= ExitTime(p) /\ ExitTime(p) <= ExitTime(q[i])
                        /\ pkt[p].ts <= pkt[q[i]].ts
    BY SMTT(30), <2>4, <1>2, <1>3, <1>5, <1>6
  <2>8. pkt[p].ts <= ExitTime(p)
    BY <2>4, <2>7
  <2>9. \A i, j \in 1..Len(q') : i < j => pkt[q'[i]].ts <= pkt[q'[j]].ts
    BY <2>6, <1>5
  <2>10. \A i \in 1..Len(q') : /\ pkt[q'[i]].ts <= ExitTime(p) /\ ExitTime(p) <= ExitTime(q'[i])
                               /\ pkt[p].ts <= pkt[q'[i]].ts
    BY <2>6, <2>7
  <2> QED BY <2>1, <2>5, <2>8, <2>9, <2>10, <1>1, <1>4 DEF Sorted
<1> QED BY <1>7, <1>8, <1>9, <1>10

\* A packet joins the queue at the time it carries.
LEMMA SortedHandle ==
    ASSUME Inv3, Sorted, HandleRequest \/ HandleUnmatched
    PROVE  Sorted'
<1> SUFFICES ASSUME late' = {} PROVE Sorted'
  BY DEF Sorted
<1> DEFINE q == packet_queue
           n == Len(q)
           k == n + 1
<1>1. /\ pc = "handle" /\ pc' = "read" /\ pkt' = pkt /\ current_time' = current_time
      /\ q' = Append(q, cur) /\ outframe' = outframe /\ late = {} /\ Inv1
  BY DEF HandleRequest, HandleUnmatched, heap, Inv3, Inv2
<1>2. cur \in Ids /\ pkt[cur].ts \in Int
  BY <1>1, HandledProperties, PacketType DEF Holding, Inv1
<1>3. /\ n \in Nat /\ Len(q') = k /\ q'[k] = cur /\ \A i \in 1..n : q'[i] = q[i]
  BY SMTT(30), <1>1, <1>2, QueueTimes, AppendFacts
<1>4. /\ \A i \in 1..k : i \in 1..n \/ i = k
      /\ \A i \in 1..k : ~(k < i)
  BY SMTT(30), <1>3
<1>5. /\ \A i, j \in 1..n : i < j => pkt[q[i]].ts <= pkt[q[j]].ts
      /\ \A i \in 1..n : pkt[q[i]].ts <= current_time /\ current_time <= ExitTime(q[i])
      /\ current_time = pkt[cur].ts
      /\ outframe # NoFrame =>
           /\ outframe.time_end <= current_time
           /\ \A i \in 1..n : outframe.time_end <= pkt[q[i]].ts
  BY <1>1 DEF Sorted
<1>6. pkt[cur].ts <= pkt[cur].ts /\ pkt[cur].ts <= ExitTime(cur)
  <2>1. \A t \in Int : t <= t /\ t <= t + MatchingDuration
    BY SMTT(30), Durations
  <2> QED BY <2>1, <1>2 DEF ExitTime
<1>7. \A p : ExitTime(p)' = ExitTime(p)
  BY <1>1 DEF ExitTime
<1> HIDE DEF n, k
<1>8. \A i, j \in 1..Len(q') : i < j => pkt[q'[i]].ts <= pkt[q'[j]].ts
  BY <1>3, <1>4, <1>5
<1>9. \A i \in 1..Len(q') : /\ pkt[q'[i]].ts <= current_time /\ current_time <= ExitTime(q'[i])
                            /\ outframe # NoFrame => outframe.time_end <= pkt[q'[i]].ts
  BY <1>3, <1>4, <1>5, <1>6
<1> QED BY <1>1, <1>5, <1>7, <1>8, <1>9 DEF Sorted

\* The steps of next_packet and of main that put nothing into the queue.
LEMMA SortedQuiet ==
    ASSUME Inv3, Sorted, \/ ReadPacket \/ ReadEnd \/ Unload \/ HandleMatched
                         \/ Flush \/ Finish \/ Take \/ UNCHANGED vars
    PROVE  Sorted'
<1> SUFFICES ASSUME late' = {} PROVE Sorted'
  BY DEF Sorted
<1>1. /\ pkt' = pkt /\ packet_queue' = packet_queue /\ current_time' = current_time
      /\ outframe' = outframe \/ outframe' = NoFrame
      /\ \/ pc' = pc /\ return' = return /\ target' = target /\ cur' = cur /\ late' = late
         \/ ReadPacket
         \/ /\ (pc' = "advance" /\ return' = "unload") \/ pc' \in {"load", "read", "final", "done"}
            /\ late' = late
  BY DEF ReadPacket, ReadEnd, Unload, HandleMatched, Flush, Finish, Take, vars, heap, control,
         AdvanceTimeTo
<1>2. \A p : ExitTime(p)' = ExitTime(p)
  BY <1>1 DEF ExitTime
<1>3. CASE ReadPacket
  <2>1. /\ late = {} /\ ~(pkt[cur'].ts < current_time) /\ pc' = "advance" /\ pc = "read"
        /\ target' = pkt[cur'].ts /\ inframe.packets # << >> /\ cur' = Head(inframe.packets)
    BY <1>3 DEF ReadPacket, AdvanceTimeTo
  <2>2. inframe.packets \in Seq(Ids) /\ current_time \in Int
    BY <2>1, FrameFields DEF Inv3, Inv2, Inv1, TypeOK, Reading, Loaded
  <2>3. pkt[cur'].ts \in Int
    <3>1. cur' \in Ids
      BY <2>1, <2>2, HeadTailFacts
    <3> QED BY <3>1, PacketType DEF Inv3, Inv2, Inv1
  <2>4. current_time <= target'
    BY SMTT(30), <2>1, <2>2, <2>3
  <2> QED BY <2>1, <2>4, <1>1, <1>2 DEF Sorted
<1>4. CASE pc' = pc /\ return' = return /\ target' = target /\ cur' = cur /\ late' = late
  BY <1>1, <1>2, <1>4 DEF Sorted
<1>5. CASE /\ (pc' = "advance" /\ return' = "unload") \/ pc' \in {"load", "read", "final", "done"}
           /\ late' = late
  BY <1>1, <1>2, <1>5 DEF Sorted
<1> QED BY <1>1, <1>3, <1>4, <1>5

\* The first frame of the input sets the time.
LEMMA SortedDequeue ==
    ASSUME Inv3, Sorted, Inv1', NEW f \in InputFrame, Dequeue(f)
    PROVE  Sorted'
<1> SUFFICES ASSUME late' = {} PROVE Sorted'
  BY DEF Sorted
<1> DEFINE nums == [i \in 1..Len(f.packets) |-> Len(pkt) + i]
           g == [f EXCEPT !.packets = nums]
           q == packet_queue
           n == Len(q)
<1>1. /\ pkt' = pkt \o f.packets
      /\ response' = response \o [i \in 1..Len(f.packets) |-> 0]
      /\ LoadFinal(g) \/ SkipFrame(g) \/ LoadFrame(g)
      /\ Inv1 /\ TypeOK
  BY DEF Dequeue, Inv3, Inv2, Inv1
<1>2. \A p \in Ids : pkt'[p] = pkt[p]
  BY <1>1, FreshPackets
<1> HIDE DEF nums, g
<1>3. /\ pc = "load" /\ q' = q /\ late = {}
      /\ pc' \notin {"handle", "final", "done"} /\ ~(pc' = "advance" /\ return' = "handle")
      /\ \/ outframe' = outframe /\ current_time' = current_time
         \/ /\ outframe = NoFrame /\ outframe' = NewFrame(g.time_start, g.time_start)
            /\ current_time' = g.time_start
  BY <1>1 DEF LoadFinal, SkipFrame, LoadFrame, AdvanceTimeTo, control
<1>4. /\ \A i \in 1..n : q[i] \in Ids
      /\ q = << >> => \A i \in 1..n : FALSE
  BY <1>1, QueueTimes
<1>5. \A i \in 1..n : pkt'[q[i]] = pkt[q[i]] /\ ExitTime(q[i])' = ExitTime(q[i])
  BY <1>2, <1>3, <1>4 DEF ExitTime
<1>6. CASE outframe' = outframe /\ current_time' = current_time
  BY <1>3, <1>5, <1>6 DEF Sorted
<1>7. CASE /\ outframe = NoFrame /\ outframe' = NewFrame(g.time_start, g.time_start)
           /\ current_time' = g.time_start
  <2>1. q = << >>
    BY <1>1, <1>3, <1>7 DEF Inv1, TypeOK, Reading
  <2>2. outframe'.time_end = current_time'
    BY <1>7, NewFrameFields
  <2>3. outframe' # NoFrame => outframe'.time_end <= current_time'
    <3>1. outframe' # NoFrame => current_time' \in Int
      BY <1>3 DEF Inv1, TypeOK
    <3>2. \A t \in Int : t <= t
      BY SMTT(30)
    <3> QED BY <3>1, <3>2, <2>2
  <2> QED BY <2>1, <2>3, <1>3, <1>4 DEF Sorted
<1> QED BY <1>3, <1>6, <1>7

-----------------------------------------------------------------------------
\* The times of the packets of a frame.
LEMMA PacketTimes ==
    ASSUME Inv1
    PROVE  /\ \A f \in Frame \cup OutFrame :
                /\ f.packets \in Seq(Ids) /\ Len(f.packets) \in Nat
                /\ \A n \in 1..Len(f.packets) :
                     f.packets[n] \in Ids /\ pkt[f.packets[n]].ts \in Int
           /\ \A i \in 1..Len(out) : out[i] \in OutFrame
<1>1. \A p \in Ids : pkt[p].ts \in Int
  BY PacketType DEF Inv1
<1>2. \A f \in Frame \cup OutFrame : f.packets \in Seq(Ids)
  BY DEF Frame, OutFrame
<1>3. \A s \in Seq(Ids) : Len(s) \in Nat /\ \A n \in 1..Len(s) : s[n] \in Ids
  BY LenFacts
<1>4. \A i \in 1..Len(out) : out[i] \in OutFrame
  BY LenFacts DEF Inv1, TypeOK
<1> QED BY <1>1, <1>2, <1>3, <1>4

\* A later time is still after the packets of a frame.
LEMMA UntilLater ==
    ASSUME Inv1, NEW f \in Frame \cup OutFrame, NEW s \in Int, NEW t \in Int, s <= t, Until(f, s)
    PROVE  Until(f, t)
<1>1. \A u \in Int : u <= s => u <= t
  BY SMTT(30)
<1> QED BY <1>1, PacketTimes DEF Until

\* A packet later than everything in frame g joins it.
LEMMA PacketJoins ==
    ASSUME Inv1, NEW g \in Frame, NEW h, NEW p \in Ids, Spanned(g),
           g.time_start <= g.time_end, g.time_end <= pkt[p].ts,
           h.packets = Append(g.packets, p), h.time_start = g.time_start,
           h.time_end = pkt[p].ts
    PROVE  /\ Spanned(h)
           /\ \A f \in OutFrame : Before(f, g) /\ Until(f, g.time_end) =>
                  Before(f, h) /\ Until(f, h.time_end)
<1> DEFINE k == Len(g.packets)
           ts(n) == pkt[g.packets[n]].ts
<1>1. /\ g.time_start \in Int /\ g.time_end \in Int /\ pkt[p].ts \in Int
      /\ k \in Nat /\ \A n \in 1..k : ts(n) \in Int
  BY FrameFields, PacketTimes, PacketType DEF Inv1
<1>2. /\ Len(h.packets) = k + 1 /\ h.packets[k + 1] = p
      /\ \A n \in 1..k : h.packets[n] = g.packets[n]
  BY SMTT(30), FrameFields, AppendFacts
<1>3. /\ \A n \in 1..(k + 1) : n \in 1..k \/ n = k + 1
      /\ \A n \in 1..k : \A m \in 1..n : m \in 1..k
      /\ \A m \in 1..(k + 1) : m \in 1..k \/ m = k + 1
  BY SMTT(30), <1>1
<1>4. \A t \in Int : /\ t <= g.time_end => t <= pkt[p].ts
                     /\ t <= t
  BY SMTT(30), <1>1
<1>5. /\ g.time_start <= pkt[p].ts
      /\ \A n \in 1..k : /\ g.time_start <= ts(n) /\ ts(n) <= pkt[p].ts
                         /\ \A m \in 1..n : ts(m) <= ts(n)
  BY <1>1, <1>4 DEF Spanned
<1> HIDE DEF k
<1>6. Spanned(h)
  <2> SUFFICES ASSUME NEW n \in 1..(k + 1)
               PROVE  /\ h.time_start <= pkt[h.packets[n]].ts
                      /\ pkt[h.packets[n]].ts <= h.time_end
                      /\ \A m \in 1..n : pkt[h.packets[m]].ts <= pkt[h.packets[n]].ts
    BY <1>2 DEF Spanned
  <2>1. CASE n \in 1..k
    BY <2>1, <1>2, <1>3, <1>5
  <2>2. CASE n = k + 1
    <3>1. pkt[p].ts <= pkt[p].ts
      BY <1>1, <1>4
    <3> QED BY <3>1, <2>2, <1>2, <1>3, <1>5
  <2> QED BY <2>1, <2>2, <1>3
<1>7. ASSUME NEW f \in OutFrame, Before(f, g), Until(f, g.time_end)
      PROVE  Before(f, h) /\ Until(f, h.time_end)
  <2>1. Until(f, h.time_end)
    BY <1>1, <1>7, UntilLater
  <2>2. \A m \in 1..Len(f.packets) : /\ pkt[f.packets[m]].ts <= pkt[p].ts
                                     /\ \A n \in 1..k : pkt[f.packets[m]].ts <= ts(n)
    BY <2>1, <1>7 DEF Until, Before, k
  <2> HIDE DEF ts
  <2>3. Before(f, h)
    BY <2>2, <1>2, <1>3 DEF Before, ts
  <2> QED BY <2>1, <2>3
<1> QED BY <1>6, <1>7

\* The current output frame is put out as f, with the same packets and perhaps a
\* later end.
LEMMA OutputGrows ==
    ASSUME Inv1, Ordered, late = {}, outframe \in Frame, outframe # NoFrame,
           NEW f \in OutFrame, f.packets = outframe.packets, f.time_start = outframe.time_start,
           f.time_end \in Int, outframe.time_end <= f.time_end, out' = Append(out, f)
    PROVE  /\ \A j \in 1..Len(out') : Spanned(out'[j])
           /\ \A i, j \in 1..Len(out') : i < j => Before(out'[i], out'[j])
           /\ \A i \in 1..Len(out') : out'[i] \in OutFrame /\ Until(out'[i], f.time_end)
<1> DEFINE n == Len(out)
           k == n + 1
<1>1. /\ n \in Nat /\ Len(out') = k /\ out'[k] = f /\ \A i \in 1..n : out'[i] = out[i]
  BY SMTT(30), AppendFacts, LenFacts DEF Inv1, TypeOK
<1>2. /\ \A i \in 1..k : i \in 1..n \/ i = k
      /\ \A i \in 1..k : ~(k < i)
  BY SMTT(30), <1>1
<1>3. outframe.time_end \in Int /\ \A i \in 1..n : out[i] \in OutFrame
  BY FrameFields, PacketTimes
<1>4. /\ \A j \in 1..n : Spanned(out[j])
      /\ \A i, j \in 1..n : i < j => Before(out[i], out[j])
      /\ Spanned(outframe)
      /\ \A i \in 1..n : Before(out[i], outframe) /\ Until(out[i], outframe.time_end)
  BY DEF Ordered
<1>5. Until(outframe, outframe.time_end)
  BY <1>4 DEF Spanned, Until
<1>6. Until(outframe, f.time_end) /\ \A i \in 1..n : Until(out[i], f.time_end)
  BY <1>3, <1>4, <1>5, UntilLater
<1>7. Until(f, f.time_end) /\ \A i \in 1..n : Before(out[i], f)
  BY <1>4, <1>6 DEF Until, Before
<1>8. Spanned(f)
  BY <1>4, <1>6 DEF Spanned, Until
<1> HIDE DEF n, k
<1>9. \A i, j \in 1..Len(out') : i < j => Before(out'[i], out'[j])
  BY SMTT(30), <1>1, <1>2, <1>4, <1>7
<1>10. \A i \in 1..Len(out') : out'[i] \in OutFrame /\ Until(out'[i], f.time_end)
  BY <1>1, <1>2, <1>3, <1>6, <1>7
<1> QED BY <1>1, <1>2, <1>4, <1>8, <1>9, <1>10

\* Ordered of the next state, said with the packets of this one.
LEMMA OrderedAgain ==
    ASSUME pkt' = pkt,
           \A j \in 1..Len(out') : Spanned(out'[j]),
           \A i, j \in 1..Len(out') : i < j => Before(out'[i], out'[j]),
           outframe' # NoFrame =>
             /\ Spanned(outframe')
             /\ \A i \in 1..Len(out') : /\ Before(out'[i], outframe')
                                        /\ Until(out'[i], outframe'.time_end)
    PROVE  Ordered'
BY DEF Ordered, Spanned, Before, Until

\* A complete frame is put out: its end moves on to the full duration.
LEMMA OrderedAdvanceFrame ==
    ASSUME Inv3, Ordered, AdvanceFrame
    PROVE  Ordered'
<1> SUFFICES ASSUME late' = {} PROVE Ordered'
  BY DEF Ordered
<1>1. Inv1 /\ Framing /\ late = {} /\ pkt' = pkt
  BY DEF Inv3, Inv2, AdvanceFrame, heap
<1>2. outframe \in Frame /\ outframe # NoFrame /\ outframe.time_end \in Int
  BY <1>1, FrameClosed, FrameFields
<1>3. PICK f \in OutFrame :
        /\ out' = Append(out, f) /\ f.time_start = outframe.time_start
        /\ f.time_end = outframe.time_start + FrameMaxDuration
        /\ f.packets = outframe.packets /\ outframe' = NewFrame(f.time_end, f.time_end)
  BY <1>1, FrameClosed
<1>4. f.time_end \in Int
  <2>1. outframe.time_start \in Int
    BY <1>2, FrameFields
  <2> QED BY SMTT(30), <2>1, <1>3, Durations
<1>5. outframe.time_end <= f.time_end
  BY <1>1, <1>2, <1>3 DEF Framing, WellSized
<1>6. /\ \A j \in 1..Len(out') : Spanned(out'[j])
      /\ \A i, j \in 1..Len(out') : i < j => Before(out'[i], out'[j])
      /\ \A i \in 1..Len(out') : Until(out'[i], f.time_end)
  BY <1>1, <1>2, <1>3, <1>4, <1>5, OutputGrows
<1>7. outframe'.packets = << >> /\ outframe'.time_end = f.time_end
  BY <1>3, NewFrameFields
<1>8. \A n \in 1..Len(outframe'.packets) : FALSE
  BY SMTT(30), <1>7
<1>9. Spanned(outframe') /\ \A i \in 1..Len(out') : Before(out'[i], outframe')
  BY <1>8 DEF Spanned, Before
<1> QED BY <1>1, <1>6, <1>7, <1>9, OrderedAgain

\* The head of the queue is later than everything put out so far.
LEMMA OrderedAdvancePacket ==
    ASSUME Inv3, Sorted, Ordered, AdvancePacket
    PROVE  Ordered'
<1> SUFFICES ASSUME late' = {} PROVE Ordered'
  BY DEF Ordered
<1> DEFINE p == Head(packet_queue)
           start == outframe.time_start
           end == outframe.time_end
<1>1. Inv1 /\ Framing /\ late = {} /\ pkt' = pkt
  BY DEF Inv3, Inv2, AdvancePacket, heap
<1>2. /\ outframe \in Frame /\ outframe # NoFrame /\ outframe \in OutFrame
      /\ packet_queue # << >> /\ p \in Ids
  BY <1>1, PacketLeaves, FrameTypes
<1>3. PICK g \in Frame :
        /\ \/ g = outframe /\ out' = out
           \/ g = NewFrame(end, end) /\ out' = Append(out, outframe)
        /\ outframe'.time_start = g.time_start
        /\ outframe'.time_end = IF g.time_end < pkt[p].ts THEN pkt[p].ts ELSE g.time_end
        /\ outframe'.packets = Append(g.packets, p)
  BY <1>1, PacketLeaves
<1>4. end \in Int /\ start \in Int /\ pkt[p].ts \in Int
  BY <1>1, <1>2, FrameFields, PacketType DEF Inv1
<1>5. end <= pkt[p].ts /\ start <= end
  <2>1. p = packet_queue[1] /\ 1 \in 1..Len(packet_queue)
    BY <1>1, <1>2, QueueTimes
  <2>2. end <= pkt[packet_queue[1]].ts
    BY <2>1, <1>1, <1>2 DEF Sorted
  <2> QED BY <2>1, <2>2, <1>1, <1>2 DEF Framing, WellSized
<1>6. /\ Spanned(g) /\ g.time_end = end /\ g.time_start <= end
      /\ \A j \in 1..Len(out') : Spanned(out'[j])
      /\ \A i, j \in 1..Len(out') : i < j => Before(out'[i], out'[j])
      /\ \A i \in 1..Len(out') : /\ out'[i] \in OutFrame
                                 /\ Before(out'[i], g) /\ Until(out'[i], end)
  <2>1. CASE g = outframe /\ out' = out
    BY <2>1, <1>1, <1>2, <1>5, PacketTimes DEF Ordered
  <2>2. CASE g = NewFrame(end, end) /\ out' = Append(out, outframe)
    <3>1. g.packets = << >> /\ g.time_end = end /\ g.time_start = end
      BY <2>2, NewFrameFields
    <3>2. (\A n \in 1..Len(g.packets) : FALSE) /\ end <= end
      BY SMTT(30), <3>1, <1>4
    <3>3. Spanned(g) /\ \A i \in 1..Len(out') : Before(out'[i], g)
      BY <3>2 DEF Spanned, Before
    <3>4. /\ \A j \in 1..Len(out') : Spanned(out'[j])
          /\ \A i, j \in 1..Len(out') : i < j => Before(out'[i], out'[j])
          /\ \A i \in 1..Len(out') : out'[i] \in OutFrame /\ Until(out'[i], end)
      BY <3>2, <2>2, <1>1, <1>2, <1>4, OutputGrows
    <3> QED BY <3>1, <3>2, <3>3, <3>4
  <2> QED BY <2>1, <2>2, <1>3
<1> HIDE DEF p, start, end
<1>7. outframe'.time_end = pkt[p].ts
  <2>1. ~(end < pkt[p].ts) => end = pkt[p].ts
    BY SMTT(30), <1>4, <1>5
  <2> QED BY <2>1, <1>3, <1>6
<1>8. /\ Spanned(outframe')
      /\ \A f \in OutFrame : Before(f, g) /\ Until(f, end) =>
             Before(f, outframe') /\ Until(f, outframe'.time_end)
  BY <1>1, <1>2, <1>3, <1>5, <1>6, <1>7, PacketJoins
<1> QED BY <1>1, <1>6, <1>8, OrderedAgain

\* The end of main puts out the last frame and an empty one.
LEMMA OrderedEnd ==
    ASSUME Inv3, Ordered, Flush \/ Finish
    PROVE  Ordered'
<1> SUFFICES ASSUME late' = {} PROVE Ordered'
  BY DEF Ordered
<1>1. Inv1 /\ Framing /\ late = {} /\ pkt' = pkt
  BY DEF Inv3, Inv2, Flush, Finish, heap
<1>2. CASE Flush /\ outframe = NoFrame
  <2>1. out' = out /\ outframe' = NoFrame
    BY <1>2 DEF Flush
  <2> QED BY <2>1, <1>1, OrderedAgain DEF Ordered
<1>3. CASE Flush /\ outframe # NoFrame
  <2>1. out' = Append(out, outframe) /\ outframe' = NoFrame
    BY <1>3 DEF Flush, Enqueue
  <2>2. outframe \in Frame /\ outframe \in OutFrame
    BY <1>1, <1>3, FrameTypes DEF Inv1, TypeOK
  <2>3. outframe.time_end \in Int
    BY <2>2, FrameFields
  <2>4. outframe.time_end <= outframe.time_end
    BY SMTT(30), <2>3
  <2>5. /\ \A j \in 1..Len(out') : Spanned(out'[j])
        /\ \A i, j \in 1..Len(out') : i < j => Before(out'[i], out'[j])
    BY <2>1, <2>2, <2>3, <2>4, <1>1, <1>3, OutputGrows
  <2> QED BY <2>1, <2>5, <1>1, OrderedAgain
<1>4. CASE Finish
  <2> DEFINE f == FinalFrame(current_time)
             n == Len(out)
             k == n + 1
  <2>1. out' = Append(out, f) /\ outframe' = NoFrame
    BY <1>1, <1>4 DEF Finish, Enqueue, Inv1, Reading
  <2>2. f \in OutFrame /\ f.packets = << >>
    BY <1>1, FrameTypes DEF FinalFrame, NewFrame, Inv1, TypeOK
  <2> HIDE DEF f
  <2>3. /\ n \in Nat /\ Len(out') = k /\ out'[k] = f /\ \A i \in 1..n : out'[i] = out[i]
    BY SMTT(30), <2>1, <2>2, <1>1, AppendFacts, LenFacts DEF Inv1, TypeOK
  <2>4. /\ \A i \in 1..k : i \in 1..n \/ i = k
        /\ \A i \in 1..k : ~(k < i)
        /\ \A m \in 1..Len(f.packets) : FALSE
    BY SMTT(30), <2>2, <2>3
  <2>5. Spanned(f) /\ \A i \in 1..n : Before(out[i], f)
    BY <2>4 DEF Spanned, Before
  <2>6. /\ \A j \in 1..n : Spanned(out[j])
        /\ \A i, j \in 1..n : i < j => Before(out[i], out[j])
    BY <1>1 DEF Ordered
  <2> HIDE DEF n, k
  <2>7. /\ \A j \in 1..Len(out') : Spanned(out'[j])
        /\ \A i, j \in 1..Len(out') : i < j => Before(out'[i], out'[j])
    BY <2>3, <2>4, <2>5, <2>6
  <2> QED BY <2>1, <2>7, <1>1, OrderedAgain
<1> QED BY <1>2, <1>3, <1>4

\* The other steps put nothing out.
LEMMA OrderedQuiet ==
    ASSUME Ordered,
           \/ AdvanceDone \/ AdvanceQuiet \/ ReadPacket \/ ReadEnd \/ Unload
           \/ HandleRequest \/ HandleMatched \/ HandleUnmatched \/ Take \/ UNCHANGED vars
    PROVE  Ordered'
<1> SUFFICES ASSUME late' = {} PROVE Ordered'
  BY DEF Ordered
<1>1. pkt' = pkt /\ out' = out /\ outframe' = outframe /\ late = {}
  BY DEF AdvanceDone, AdvanceQuiet, ReadPacket, ReadEnd, Unload, HandleRequest, HandleMatched,
         HandleUnmatched, Take, vars, heap
<1> QED BY <1>1, OrderedAgain DEF Ordered

\* Packets that arrive change nothing of those already put out.
LEMMA OrderedDequeue ==
    ASSUME Inv3, Ordered, NEW f \in InputFrame, Dequeue(f)
    PROVE  Ordered'
<1> SUFFICES ASSUME late' = {} PROVE Ordered'
  BY DEF Ordered
<1> DEFINE nums == [i \in 1..Len(f.packets) |-> Len(pkt) + i]
           g == [f EXCEPT !.packets = nums]
<1>1. /\ pkt' = pkt \o f.packets
      /\ response' = response \o [i \in 1..Len(f.packets) |-> 0]
      /\ LoadFinal(g) \/ SkipFrame(g) \/ LoadFrame(g)
      /\ Inv1 /\ TypeOK /\ Framing
  BY DEF Dequeue, Inv3, Inv2, Inv1
<1>2. \A p \in Ids : pkt'[p] = pkt[p]
  BY <1>1, FreshPackets
<1> HIDE DEF nums, g
<1>3. /\ pc = "load" /\ out' = out /\ late = {}
      /\ \/ outframe' = outframe
         \/ outframe = NoFrame /\ outframe' = NewFrame(g.time_start, g.time_start)
  BY <1>1 DEF LoadFinal, SkipFrame, LoadFrame
<1>4. \A h \in Frame \cup OutFrame : \A n \in 1..Len(h.packets) :
          pkt'[h.packets[n]] = pkt[h.packets[n]]
  BY <1>1, <1>2, PacketTimes
<1>5. \A h \in Frame \cup OutFrame : \A n \in 1..Len(h.packets) : \A m \in 1..n :
          m \in 1..Len(h.packets)
  <2>1. \A k \in Nat : \A n \in 1..k : \A m \in 1..n : m \in 1..k
    BY SMTT(30)
  <2> QED BY <2>1, <1>1, PacketTimes
<1>6. CASE outframe' = outframe
  <2>1. /\ \A i \in 1..Len(out) : out[i] \in Frame \cup OutFrame
        /\ outframe # NoFrame => outframe \in Frame \cup OutFrame
    BY <1>1, PacketTimes DEF TypeOK
  <2>2. /\ \A j \in 1..Len(out) : Spanned(out[j])
        /\ \A i, j \in 1..Len(out) : i < j => Before(out[i], out[j])
        /\ outframe # NoFrame =>
             /\ Spanned(outframe)
             /\ \A i \in 1..Len(out) : /\ Before(out[i], outframe)
                                       /\ Until(out[i], outframe.time_end)
    BY <1>3 DEF Ordered
  <2>3. \A h \in Frame \cup OutFrame : Spanned(h) =>
          \A n \in 1..Len(h.packets) :
            /\ h.time_start <= pkt'[h.packets[n]].ts /\ pkt'[h.packets[n]].ts <= h.time_end
            /\ \A m \in 1..n : pkt'[h.packets[m]].ts <= pkt'[h.packets[n]].ts
    BY <1>4, <1>5 DEF Spanned
  <2>4. \A h, l \in Frame \cup OutFrame : Before(h, l) =>
          \A m \in 1..Len(h.packets) : \A n \in 1..Len(l.packets) :
            pkt'[h.packets[m]].ts <= pkt'[l.packets[n]].ts
    BY <1>4 DEF Before
  <2>5. \A h \in Frame \cup OutFrame : \A t : Until(h, t) =>
          \A m \in 1..Len(h.packets) : pkt'[h.packets[m]].ts <= t
    BY <1>4 DEF Until
  <2>6. \A j \in 1..Len(out') : Spanned(out[j])'
    BY <2>1, <2>2, <2>3, <1>3 DEF Spanned
  <2>7. \A i, j \in 1..Len(out') : i < j => Before(out[i], out[j])'
    <3> SUFFICES ASSUME NEW i \in 1..Len(out), NEW j \in 1..Len(out), i < j
                 PROVE  Before(out[i], out[j])'
      BY <1>3
    <3>1. /\ out[i] \in Frame \cup OutFrame /\ out[j] \in Frame \cup OutFrame
          /\ Before(out[i], out[j])
      BY <2>1, <2>2
    <3> QED BY <3>1, <2>4, <1>3 DEF Before
  <2>8. outframe' # NoFrame => Spanned(outframe)'
    BY <2>1, <2>2, <2>3, <1>6 DEF Spanned
  <2>9. outframe' # NoFrame =>
          \A i \in 1..Len(out') : Before(out[i], outframe)' /\ Until(out[i], outframe.time_end)'
    BY <2>1, <2>2, <2>4, <2>5, <1>3, <1>6 DEF Before, Until
  <2> QED BY <2>6, <2>7, <2>8, <2>9 DEF Ordered
<1>7. CASE outframe = NoFrame /\ outframe' = NewFrame(g.time_start, g.time_start)
  <2>1. out' = << >> /\ outframe'.packets = << >>
    BY <1>1, <1>3, <1>7, NewFrameFields DEF Framing
  <2>2. (\A i \in 1..Len(out') : FALSE) /\ (\A n \in 1..Len(outframe'.packets) : FALSE)
    BY SMTT(30), <2>1
  <2> QED BY <2>2 DEF Ordered, Spanned
<1> QED BY <1>3, <1>6, <1>7

\* A response that is matched: its request is in the queue, so not older than
\* the window, and not later than the response, whose time it is.
LEMMA WindowMatched ==
    ASSUME Inv3, Sorted, WithinWindowInOrder, HandleMatched
    PROVE  WithinWindowInOrder'
<1> SUFFICES ASSUME late' = {} PROVE WithinWindowInOrder'
  BY DEF WithinWindowInOrder
<1> DEFINE req == RequestFor(cur)
           q == packet_queue
<1>1. /\ pc = "handle" /\ Holding /\ req # 0 /\ pkt' = pkt /\ late = {}
      /\ response' = [response EXCEPT ![req] = cur]
      /\ Inv1 /\ TypeOK /\ HashIsUnanswered
  BY DEF HandleMatched, Holding, Inv3, Inv2, Inv1
<1>2. cur \in Ids /\ req \in Ids /\ req \in Queued
  <2>1. /\ cur \in Ids /\ pkt[cur].key \in Keys /\ req \in Ids
        /\ req \in Range(hash_table[pkt[cur].key])
    BY <1>1, RequestForProperties
  <2> QED BY SMTT(30), <2>1, <1>1 DEF HashIsUnanswered, Hashed
<1> HIDE DEF req
<1>3. PICK i \in 1..Len(q) : q[i] = req
  BY SMTT(30), <1>1, <1>2, QueueTimes, RangeByPosition DEF Queued
<1>4. /\ pkt[req].ts <= current_time /\ current_time <= ExitTime(req)
      /\ current_time = pkt[cur].ts
  BY <1>1, <1>3 DEF Sorted
<1>5. /\ pkt[req].ts \in Int /\ pkt[cur].ts \in Int
      /\ ExitTime(req) = pkt[req].ts + MatchingDuration
  BY <1>1, <1>2, PacketType DEF ExitTime
<1>6. pkt[cur].ts - pkt[req].ts \in 0..MatchingDuration
  <2> DEFINE s == pkt[req].ts
             t == pkt[cur].ts
  <2>1. s \in Int /\ t \in Int /\ s <= t /\ t <= s + MatchingDuration
    BY <1>4, <1>5
  <2> HIDE DEF s, t
  <2>2. t - s \in 0..MatchingDuration
    BY SMTT(30), <2>1, Durations
  <2> QED BY <2>2 DEF s, t
<1>7. \A n \in Ids : response'[n] = IF n = req THEN cur ELSE response[n]
  <2>1. /\ response \in Seq(0..Len(pkt)) /\ Len(response) = Len(pkt)
        /\ req \in 1..Len(response) /\ cur \in 0..Len(pkt)
    BY <1>1, <1>2 DEF TypeOK, Ids
  <2> QED BY SMTT(30), <2>1, <1>1, ExceptFacts DEF Ids
<1> QED BY <1>1, <1>6, <1>7 DEF WithinWindowInOrder, Ids

\* The other steps attach nothing.
LEMMA WindowQuiet ==
    ASSUME WithinWindowInOrder, pkt' = pkt, response' = response, late' = {} => late = {}
    PROVE  WithinWindowInOrder'
BY DEF WithinWindowInOrder, Ids

LEMMA WindowDequeue ==
    ASSUME Inv3, WithinWindowInOrder, NEW f \in InputFrame, Dequeue(f)
    PROVE  WithinWindowInOrder'
<1> DEFINE nums == [i \in 1..Len(f.packets) |-> Len(pkt) + i]
           g == [f EXCEPT !.packets = nums]
<1>1. /\ pkt' = pkt \o f.packets
      /\ response' = response \o [i \in 1..Len(f.packets) |-> 0]
      /\ late' = late /\ TypeOK
  BY DEF Dequeue, LoadFinal, SkipFrame, LoadFrame, Inv3, Inv2, Inv1
<1>2. /\ \A p \in Ids : pkt'[p] = pkt[p] /\ response'[p] = response[p]
      /\ \A p \in Ids' \ Ids : response'[p] = 0
  BY <1>1, FreshPackets
<1>3. \A i \in Ids : response[i] # 0 => response[i] \in Ids
  <2>1. \A i \in Ids : response[i] \in 0..Len(pkt)
    BY <1>1, LenFacts DEF TypeOK, Ids
  <2> QED BY SMTT(30), <2>1 DEF Ids
<1> SUFFICES ASSUME late' = {}, NEW i \in Ids', response'[i] # 0
             PROVE  pkt'[response'[i]].ts - pkt'[i].ts \in 0..MatchingDuration
  BY DEF WithinWindowInOrder
<1>4. i \in Ids /\ response'[i] = response[i] /\ response[i] \in Ids
  BY <1>2, <1>3
<1>5. pkt'[response'[i]] = pkt[response[i]] /\ pkt'[i] = pkt[i]
  BY <1>2, <1>4
<1> QED BY <1>1, <1>4, <1>5 DEF WithinWindowInOrder

\* The fourth layer.
LEMMA InitInv4 == Init => Inv4
<1> SUFFICES ASSUME Init PROVE Inv4
  OBVIOUS
<1>1. /\ packet_queue = << >> /\ out = << >> /\ outframe = NoFrame /\ pc = "load" /\ pkt = << >>
  BY DEF Init
<1>2. (\A i \in 1..Len(packet_queue) : FALSE) /\ (\A i \in 1..Len(out) : FALSE)
  BY SMTT(30), <1>1
<1>3. \A i \in Ids : FALSE
  BY SMTT(30), <1>1 DEF Ids
<1> QED BY <1>1, <1>2, <1>3, InitInv3 DEF Inv4, Sorted, Ordered, WithinWindowInOrder

LEMMA StepInv4 == Inv4 /\ [Next]_vars => Inv4'
<1> SUFFICES ASSUME Inv4, [Next]_vars PROVE Inv4'
  OBVIOUS
<1>1. Inv3 /\ Sorted /\ Ordered /\ WithinWindowInOrder /\ Inv3' /\ Inv1'
  BY StepInv3 DEF Inv4, Inv3, Inv2
<1>2. CASE Receive
  BY <1>1, <1>2, InputAssumption, SortedDequeue, OrderedDequeue, WindowDequeue DEF Receive, Inv4
<1>3. CASE AdvanceDone \/ AdvanceQuiet \/ AdvanceFrame \/ AdvancePacket
  <2>1. Sorted'
    BY <1>1, <1>3, SortedAdvance
  <2>2. Ordered'
    BY <1>1, <1>3, OrderedQuiet, OrderedAdvanceFrame, OrderedAdvancePacket
  <2>3. pkt' = pkt /\ response' = response /\ late' = late
    BY <1>3 DEF AdvanceDone, AdvanceQuiet, AdvanceFrame, AdvancePacket, heap
  <2> QED BY <2>1, <2>2, <2>3, <1>1, WindowQuiet DEF Inv4
<1>4. CASE ReadPacket \/ ReadEnd \/ Unload \/ Flush \/ Finish \/ Take \/ UNCHANGED vars
  <2>1. Sorted' /\ Ordered'
    BY <1>1, <1>4, SortedQuiet, OrderedQuiet, OrderedEnd
  <2>2. pkt' = pkt /\ response' = response /\ (late' = {} => late = {})
    BY <1>4 DEF ReadPacket, ReadEnd, Unload, Flush, Finish, Take, heap, vars
  <2> QED BY <2>1, <2>2, <1>1, WindowQuiet DEF Inv4
<1>5. CASE HandleMatched
  BY <1>1, <1>5, SortedQuiet, OrderedQuiet, WindowMatched DEF Inv4
<1>6. CASE HandleRequest \/ HandleUnmatched
  <2>1. Sorted' /\ Ordered'
    BY <1>1, <1>6, SortedHandle, OrderedQuiet
  <2>2. pkt' = pkt /\ response' = response /\ late' = late
    BY <1>6 DEF HandleRequest, HandleUnmatched, heap
  <2> QED BY <2>1, <2>2, <1>1, WindowQuiet DEF Inv4
<1> QED BY <1>2, <1>3, <1>4, <1>5, <1>6 DEF Next, Step, Terminated

\* As long as no packet is read behind the matcher's time, a response is matched
\* only to a request at most MatchingDuration before it and never to a later one.
THEOREM WindowKept == Spec => []WithinWindowInOrder
<1>1. Inv4 => WithinWindowInOrder
  BY DEF Inv4
<1> QED BY <1>1, InitInv4, StepInv4, PTL DEF Spec

\* The current output frame comes after the ones put out.
LEMMA OrderedIsInOrder == Inv1 /\ Ordered => OutputInOrder
<1> SUFFICES ASSUME Inv1, Ordered, late = {} PROVE OutputInOrder
  BY DEF OutputInOrder
<1> DEFINE n == Len(out)
           k == Len(AllFrames)
<1>1. /\ k \in Nat
      /\ \A j \in 1..k : /\ Spanned(AllFrames[j]) /\ AllFrames[j] \in Frame \cup OutFrame
                         /\ \A i \in 1..(j - 1) : i \in 1..k /\ Before(AllFrames[i], AllFrames[j])
  <2>1. n \in Nat /\ \A i \in 1..n : out[i] \in OutFrame
    BY PacketTimes, LenFacts DEF Inv1, TypeOK
  <2>2. /\ \A j \in 1..n : Spanned(out[j])
        /\ \A i, j \in 1..n : i < j => Before(out[i], out[j])
    BY DEF Ordered
  <2>3. CASE outframe = NoFrame
    <3>1. AllFrames = out
      BY <2>3 DEF AllFrames
    <3>2. \A j \in 1..n : \A i \in 1..(j - 1) : i \in 1..n /\ i < j
      BY SMTT(30), <2>1
    <3> QED BY <3>1, <3>2, <2>1, <2>2
  <2>4. CASE outframe # NoFrame
    <3>1. outframe \in Frame /\ outframe \in OutFrame /\ AllFrames = Append(out, outframe)
      BY <2>4, FrameTypes DEF Inv1, TypeOK, AllFrames
    <3>2. /\ k = n + 1 /\ AllFrames[n + 1] = outframe /\ k \in Nat
          /\ \A i \in 1..n : AllFrames[i] = out[i]
      BY SMTT(30), <3>1, <2>1, AppendFacts, LenFacts DEF Inv1, TypeOK
    <3>3. /\ \A j \in 1..k : j \in 1..n \/ j = n + 1
          /\ \A j \in 1..k : \A i \in 1..(j - 1) : i \in 1..k /\ i \in 1..n /\ i < j
      BY SMTT(30), <3>2, <2>1
    <3>4. Spanned(outframe) /\ \A i \in 1..n : Before(out[i], outframe)
      BY <2>4 DEF Ordered
    <3> HIDE DEF n, k
    <3> QED BY <3>1, <3>2, <3>3, <3>4, <2>1, <2>2
  <2> QED BY <2>3, <2>4
<1> SUFFICES ASSUME NEW j \in 1..k, NEW l \in 1..Len(AllFrames[j].packets)
             PROVE  LET p == AllFrames[j].packets[l]
                    IN  /\ AllFrames[j].time_start <= pkt[p].ts
                        /\ pkt[p].ts <= AllFrames[j].time_end
                        /\ \A m \in 1..l : pkt[AllFrames[j].packets[m]].ts <= pkt[p].ts
                        /\ \A i \in 1..(j - 1) : \A q \in Range(AllFrames[i].packets) :
                             pkt[q].ts <= pkt[p].ts
  BY DEF OutputInOrder
<1>2. /\ AllFrames[j].time_start <= pkt[AllFrames[j].packets[l]].ts
      /\ pkt[AllFrames[j].packets[l]].ts <= AllFrames[j].time_end
      /\ \A m \in 1..l : pkt[AllFrames[j].packets[m]].ts <= pkt[AllFrames[j].packets[l]].ts
  BY <1>1 DEF Spanned
<1>3. ASSUME NEW i \in 1..(j - 1), NEW q \in Range(AllFrames[i].packets)
      PROVE  pkt[q].ts <= pkt[AllFrames[j].packets[l]].ts
  <2>1. Before(AllFrames[i], AllFrames[j]) /\ AllFrames[i].packets \in Seq(Ids)
    BY <1>1, PacketTimes
  <2>2. PICK m \in 1..Len(AllFrames[i].packets) : q = AllFrames[i].packets[m]
    BY SMTT(30), <2>1, RangeByPosition
  <2> QED BY <2>1, <2>2 DEF Before
<1> QED BY <1>2, <1>3

\* As long as no packet is read behind the matcher's time, everything that leaves
\* it is ordered by timestamp and lies inside the time of its frame.
THEOREM InOrder == Spec => []OutputInOrder
<1>1. Inv4 => OutputInOrder
  BY OrderedIsInOrder DEF Inv4, Inv3, Inv2
<1> QED BY <1>1, InitInv4, StepInv4, PTL DEF Spec
-----------------------------------------------------------------------------
\* The facts about numbers and finite sets that the search rests on.  They are
\* those of the library, which comes in only at the end of this module, where
\* Counts establishes them: it would slow down every proof before.
Counting ==
    /\ \A T \in SUBSET Nat : T # {} => \E x \in T : \A y \in T : x <= y
    /\ \A a, b \in Int : /\ IsFiniteSet(a..b)
                          /\ Cardinality(a..b) = IF a > b THEN 0 ELSE b - a + 1
    /\ \A S : IsFiniteSet(S) => Cardinality(S) \in Nat
    /\ \A S, T : IsFiniteSet(S) /\ T \subseteq S =>
                   IsFiniteSet(T) /\ Cardinality(T) <= Cardinality(S)
    /\ \A S, T : \A f \in Injection(S, T) :
                   IsFiniteSet(T) => Cardinality(S) <= Cardinality(T)

LEMMA CountInterval ==
    ASSUME Counting, NEW a \in Int, NEW b \in Int
    PROVE  IsFiniteSet(a..b) /\ Cardinality(a..b) = IF a > b THEN 0 ELSE b - a + 1
BY DEF Counting

LEMMA CountSubset ==
    ASSUME Counting, NEW S, IsFiniteSet(S), NEW T, T \subseteq S
    PROVE  /\ IsFiniteSet(T) /\ Cardinality(T) <= Cardinality(S)
           /\ Cardinality(S) \in Nat /\ Cardinality(T) \in Nat
BY DEF Counting

LEMMA CountInjection ==
    ASSUME Counting, NEW S, NEW T, NEW f \in Injection(S, T), IsFiniteSet(T)
    PROVE  Cardinality(S) <= Cardinality(T)
BY DEF Counting

\* A search that finds nothing leaves nothing it looks for.
LEMMA NothingFound ==
    ASSUME Counting, NEW S, NEW s \in Seq(S), NEW A, FirstIn(s, A) = 0
    PROVE  \A i \in 1..Len(s) : s[i] \notin A
<1> SUFFICES ASSUME NEW k \in 1..Len(s), s[k] \in A PROVE FALSE
  OBVIOUS
<1> DEFINE T == {i \in 1..Len(s) : s[i] \in A}
           I == {i \in 1..Len(s) : s[i] \in A /\ \A j \in 1..(i - 1) : s[j] \notin A}
<1>1. Len(s) \in Nat
  BY LenFacts
<1>2. PICK x \in T : \A y \in T : x <= y
  <2>1. T \in SUBSET Nat /\ T # {}
    BY SMTT(30), <1>1
  <2> HIDE DEF T
  <2> QED BY <2>1 DEF Counting
<1>3. x \in I
  BY SMTT(30), <1>1, <1>2
<1>4. (CHOOSE i \in I : TRUE) \in I /\ I # {}
  BY <1>3
<1>5. FirstIn(s, A) = IF I = {} THEN 0 ELSE CHOOSE i \in I : TRUE
  BY DEF FirstIn
<1>6. \A i \in I : i # 0
  BY SMTT(30), <1>1
<1> HIDE DEF I
<1> QED BY <1>4, <1>5, <1>6

\* A search that ends without a match looked at MaxSearch + 1 requests newer than
\* any waiting one that would have matched.
LEMMA SearchEnds ==
    ASSUME Counting, Inv2, Holding, RequestFor(cur) = 0,
           NEW req \in Queued, pkt[req].request, response[req] = 0,
           pkt[req].key = pkt[cur].key, Match(req, cur)
    PROVE  Cardinality(InFront(req, cur)) > MaxSearch
<1> DEFINE list == hash_table[pkt[cur].key]
           S == Searched(list, MaxSearch)
           m == Len(S)
           A == {r \in 1..Len(pkt) : Match(r, cur)}
<1>1. cur = Handled + 1 /\ cur \in Ids /\ pkt[cur].key \in Keys /\ Handled \in Nat
  <2>1. cur = Handled + 1 /\ cur \in Ids /\ Handled \in Nat
    BY HandledProperties DEF Inv2
  <2> QED BY <2>1, PacketType DEF Inv2, Inv1
<1>2. list \in Seq(Ids) /\ Len(list) \in Nat /\ Range(list) \subseteq Hashed
  BY SMTT(30), <1>1, LenFacts DEF Inv2, Inv1, TypeOK, Hashed
<1>3. req \in Ids /\ req \in Range(list)
  <2>1. req \in Hashed
    BY DEF Inv2, HashIsUnanswered
  <2> QED BY <2>1, HashedUnderKey
<1>4. req \in A
  BY <1>3 DEF Ids
<1>5. PICK n \in 1..Len(list) : list[n] = req
  <2> HIDE DEF list
  <2>1. list \in Seq(Ids)
    BY <1>2
  <2>2. Range(list) = {list[i] : i \in 1..Len(list)}
    BY SMTT(30), <2>1, RangeByPosition
  <2> QED BY <2>2, <1>3
<1>6. \A i \in 1..Len(list) : /\ list[i] \in Queued /\ list[i] \in 1..Handled
                              /\ pkt[list[i]].request /\ response[list[i]] = 0
                              /\ pkt[list[i]].key = pkt[cur].key
  <2> SUFFICES ASSUME NEW i \in 1..Len(list)
               PROVE  /\ list[i] \in Queued /\ list[i] \in 1..Handled
                      /\ pkt[list[i]].request /\ response[list[i]] = 0
                      /\ pkt[list[i]].key = pkt[cur].key
    OBVIOUS
  <2>1. list[i] \in Range(list)
    <3> HIDE DEF list
    <3>1. list \in Seq(Ids)
      BY <1>2
    <3>2. Range(list) = {list[j] : j \in 1..Len(list)}
      BY SMTT(30), <3>1, RangeByPosition
    <3> QED BY <3>2
  <2>2. pkt[list[i]].key = pkt[cur].key
    BY <2>1, <1>1 DEF Inv2, HashIsUnanswered
  <2>3. list[i] \in Queued /\ pkt[list[i]].request /\ response[list[i]] = 0
    BY <2>1, <1>2, HashedUnderKey
  <2> QED BY <2>2, <2>3, HandledFacts
<1>7. /\ m \in 0..Len(list) /\ (m = Len(list) \/ m = MaxSearch + 1) /\ MaxSearch \in Nat
      /\ S \in Seq(Ids) /\ \A i \in 1..m : S[i] = list[i]
  <2> HIDE DEF list
  <2> QED BY SMTT(30), <1>2, SearchedFacts, MatcherAssumption
<1>8. FirstIn(S, A) = 0
  <2>1. (IF FirstIn(S, A) = 0 THEN 0 ELSE list[FirstIn(S, A)]) = 0
    BY DEF RequestFor, MapMatch
  <2> HIDE DEF S, A, list
  <2>2. SUFFICES ASSUME FirstIn(S, A) # 0 PROVE FALSE
    OBVIOUS
  <2>3. FirstIn(S, A) \in 1..Len(list)
    BY <2>2, <1>2, <1>7, FirstInFacts DEF m
  <2>4. list[FirstIn(S, A)] \in 1..Handled
    BY <2>3, <1>6
  <2> QED BY <2>1, <2>2, <2>4, <1>1
<1>9. \A i \in 1..m : list[i] \notin A
  <2> HIDE DEF A, S
  <2> QED BY SMTT(30), <1>7, <1>8, NothingFound DEF m
<1>10. n > m /\ m = MaxSearch + 1
  <2>1. ~(n \in 1..m)
    BY <1>4, <1>5, <1>9
  <2> HIDE DEF m, list, S
  <2> QED BY SMTT(30), <2>1, <1>2, <1>5, <1>7
<1> HIDE DEF m, S, A, list
<1>11. \A i, j \in 1..Len(list) : i < j => list[j] < list[i]
  BY <1>1 DEF Inv2, Placing, list
<1>12. \A i \in 1..m : i \in 1..Len(list) /\ list[i] \in InFront(req, cur)
  <2> SUFFICES ASSUME NEW i \in 1..m PROVE i \in 1..Len(list) /\ list[i] \in InFront(req, cur)
    OBVIOUS
  <2>1. i \in 1..Len(list) /\ i < n
    BY SMTT(30), <1>2, <1>7, <1>10
  <2>2. req < list[i] /\ list[i] < cur
    BY SMTT(30), <2>1, <1>1, <1>5, <1>6, <1>11
  <2> QED BY <2>1, <2>2, <1>6 DEF InFront
<1>13. IsFiniteSet(InFront(req, cur))
  <2>1. IsFiniteSet(1..Handled) /\ InFront(req, cur) \subseteq 1..Handled
    BY SMTT(30), <1>1, CountInterval, HandledFacts DEF InFront
  <2> QED BY <2>1, CountSubset
<1>14. [i \in 1..m |-> list[i]] \in Injection(1..m, InFront(req, cur))
  <2>1. [i \in 1..m |-> list[i]] \in [1..m -> InFront(req, cur)]
    BY <1>12
  <2>2. ASSUME NEW i \in 1..m, NEW j \in 1..m, list[i] = list[j] PROVE i = j
    <3>1. i \in 1..Len(list) /\ j \in 1..Len(list) /\ list[i] \in 1..Handled
      BY <1>6, <1>12
    <3>2. i < j => list[j] < list[i]
      BY <3>1, <1>11
    <3>3. j < i => list[i] < list[j]
      BY <3>1, <1>11
    <3> QED BY SMTT(30), <2>2, <3>1, <3>2, <3>3, <1>2, <1>7
  <2> QED BY <2>1, <2>2 DEF Injection, IsInjective
<1>15. Cardinality(1..m) = MaxSearch + 1 /\ Cardinality(1..m) <= Cardinality(InFront(req, cur))
  <2>1. m \in Int /\ 1 \in Int /\ ~(1 > m) /\ m - 1 + 1 = MaxSearch + 1
    BY SMTT(30), <1>7, <1>10
  <2>2. Cardinality(1..m) = IF 1 > m THEN 0 ELSE m - 1 + 1
    BY <2>1, CountInterval
  <2> QED BY <2>1, <2>2, <1>13, <1>14, CountInjection
<1>16. Cardinality(InFront(req, cur)) \in Nat
  BY <1>13 DEF Counting
<1> QED BY SMTT(30), <1>7, <1>15, <1>16

\* What keeps the property for a pair of packets that stay queued: nothing in
\* front of the request leaves.
LEMMA StillInFront ==
    ASSUME Counting, Inv2, NoMissedMatch, Inv2', NEW req \in Queued, NEW resp \in Queued,
           \A p \in Ids : pkt'[p] = pkt[p],
           \A r \in Queued : req < r => r \in Queued',
           \A r \in Queued : r \in Queued' /\ response[r] # response'[r] =>
                                 response[r] = 0 /\ response'[r] > resp,
           req < resp, pkt'[req].request, response'[req] = 0, ~pkt'[resp].request,
           pkt'[req].key = pkt'[resp].key, Match(req, resp)'
    PROVE  req \in Queued' => Cardinality(InFront(req, resp)') > MaxSearch
<1> SUFFICES ASSUME req \in Queued' PROVE Cardinality(InFront(req, resp)') > MaxSearch
  OBVIOUS
<1>1. Queued \subseteq Ids
  BY HandledFacts
<1>2. response[req] = 0
  <2>1. resp \in Nat
    BY SMTT(30), <1>1 DEF Ids
  <2> QED BY <2>1
<1>3. Cardinality(InFront(req, resp)) > MaxSearch
  <2>1. pkt'[req] = pkt[req] /\ pkt'[resp] = pkt[resp]
    BY <1>1
  <2>2. Match(req, resp)
    BY <2>1 DEF Match, QnameMatch
  <2> QED BY <2>1, <2>2, <1>2 DEF NoMissedMatch
<1>4. InFront(req, resp) \subseteq InFront(req, resp)'
  <2> SUFFICES ASSUME NEW r \in InFront(req, resp) PROVE r \in InFront(req, resp)'
    OBVIOUS
  <2>1. /\ r \in Queued /\ req < r /\ r < resp /\ pkt[r].request
        /\ pkt[r].key = pkt[req].key /\ (response[r] = 0 \/ response[r] > resp)
    BY DEF InFront
  <2>2. /\ r \in Queued' /\ pkt'[r] = pkt[r] /\ pkt'[req] = pkt[req]
        /\ response'[r] = 0 \/ response'[r] > resp
    BY <2>1, <1>1
  <2> QED BY <2>1, <2>2 DEF InFront
<1>5. IsFiniteSet(InFront(req, resp)')
  <2>1. pkt' \in Seq(Packet) /\ packet_queue' \in Seq(Ids')
    BY DEF Inv2, Inv1, TypeOK
  <2>2. Len(pkt') \in Int /\ Queued' \subseteq 1..Len(pkt')
    BY SMTT(30), <2>1, LenFacts, RangeByPosition DEF Queued, Ids
  <2>3. IsFiniteSet(1..Len(pkt'))
    BY SMTT(30), <2>2, CountInterval
  <2>4. InFront(req, resp)' \subseteq 1..Len(pkt')
    BY <2>2 DEF InFront
  <2> QED BY <2>3, <2>4, CountSubset
<1>6. /\ IsFiniteSet(InFront(req, resp))
      /\ Cardinality(InFront(req, resp)) <= Cardinality(InFront(req, resp)')
      /\ Cardinality(InFront(req, resp)) \in Nat /\ Cardinality(InFront(req, resp)') \in Nat
  BY <1>4, <1>5, CountSubset
<1> QED BY SMTT(30), <1>3, <1>5, <1>6, MatcherAssumption

\* Every step keeps the matches that must not be missed.
LEMMA StepMissed ==
    ASSUME Counting, Inv2, NoMissedMatch, Inv2', [Next]_vars
    PROVE  NoMissedMatch'
<1> SUFFICES ASSUME NEW req \in Queued', NEW resp \in Queued',
                    req < resp, pkt'[req].request, response'[req] = 0, ~pkt'[resp].request,
                    pkt'[req].key = pkt'[resp].key, Match(req, resp)'
             PROVE  Cardinality(InFront(req, resp)') > MaxSearch
  BY DEF NoMissedMatch
<1>1. Queued \subseteq 1..Handled /\ Queued \subseteq Ids /\ Handled \in Nat /\ Ids \subseteq Nat
  BY SMTT(30), HandledFacts, HandledProperties DEF Inv2, Ids
<1>2. CASE /\ packet_queue' = packet_queue
           /\ \A p \in Ids : pkt'[p] = pkt[p] /\ response'[p] = response[p]
  <2>1. Queued' = Queued
    BY <1>2 DEF Queued
  <2> QED BY <1>1, <1>2, <2>1, StillInFront
<1>3. CASE AdvancePacket
  <2>1. /\ pkt' = pkt /\ response' = response /\ packet_queue' = Tail(packet_queue)
        /\ pc = "advance" /\ EvTime # Deadline
    BY <1>3 DEF AdvancePacket, heap
  <2>2. packet_queue # << >>
    BY <2>1 DEF EvTime
  <2>3. packet_queue \in Seq(Ids)
    BY DEF Inv2, Inv1, TypeOK
  <2>4. Head(packet_queue) = packet_queue[1] /\ Len(packet_queue) \in Nat \ {0}
    BY SMTT(30), <2>2, <2>3, HeadTailFacts, LenFacts
  <2>5. Queued' = Queued \ {Head(packet_queue)}
    BY <2>1, <2>2, <2>3, PlacedOnce, RangeTail DEF Queued, EachPacketOnce
  <2>6. Queued' \subseteq Queued
    BY <2>5
  <2>7. ASSUME NEW r \in Queued, req < r PROVE r \in Queued'
    <3>1. PICK j \in 1..Len(packet_queue) : req = packet_queue[j]
      BY SMTT(30), <2>3, <2>6, RangeByPosition DEF Queued
    <3>2. j # 1
      BY <3>1, <2>4, <2>5
    <3>3. packet_queue[1] < req
      <4>1. 1 < j /\ 1 \in 1..Len(packet_queue)
        BY SMTT(30), <3>2, <2>4
      <4> QED BY <4>1, <3>1 DEF Inv2, Placing
    <3>4. r \in Nat /\ req \in Nat
      BY <2>6, <1>1
    <3>5. r # packet_queue[1]
      BY SMTT(30), <3>3, <3>4, <2>7
    <3> QED BY <3>5, <2>4, <2>5
  <2> QED BY <2>1, <2>6, <2>7, StillInFront
<1>4. CASE HandleRequest \/ HandleUnmatched
  <2>1. /\ pc = "handle" /\ Holding /\ ~Holding' /\ pkt' = pkt /\ response' = response
        /\ packet_queue' = Append(packet_queue, cur) /\ inframe' = inframe
    BY <1>4 DEF HandleRequest, HandleUnmatched, heap, Holding
  <2>2. cur = Handled + 1 /\ cur \in Ids
    BY <2>1, HandledNext
  <2>3. Queued' = Queued \cup {cur}
    BY <2>1, <2>2, <1>1, QueueAppend
  <2>4. req # cur
    <3>1. resp \in 1..(Handled + 1)
      BY SMTT(30), <2>2, <2>3, <1>1
    <3> QED BY SMTT(30), <3>1, <2>2, <1>1
  <2>5. CASE resp # cur
    BY <2>1, <2>3, <2>4, <2>5, StillInFront
  <2>6. CASE resp = cur
    <3>1. RequestFor(cur) = 0
      BY <1>4, <2>1, <2>6 DEF HandleRequest, HandleUnmatched
    <3>2. Match(req, cur)
      BY <2>1, <2>6 DEF Match, QnameMatch
    <3>3. Cardinality(InFront(req, cur)) > MaxSearch
      BY <2>1, <2>3, <2>4, <2>6, <3>1, <3>2, SearchEnds
    <3>4. Cardinality(InFront(req, resp)) > MaxSearch
      BY <3>3, <2>6
    <3>5. \A r \in Queued' : r < resp => r \in Queued
      BY SMTT(30), <2>2, <2>3, <2>6, <1>1
    <3>6. InFront(req, resp)' = InFront(req, resp)
      <4>1. ASSUME NEW r \in InFront(req, resp)' PROVE r \in InFront(req, resp)
        BY <4>1, <3>5, <2>1 DEF InFront
      <4>2. ASSUME NEW r \in InFront(req, resp) PROVE r \in InFront(req, resp)'
        BY <4>2, <2>1, <2>3 DEF InFront
      <4> QED BY <4>1, <4>2
    <3> QED BY <3>4, <3>6
  <2> QED BY <2>5, <2>6
<1>5. CASE HandleMatched
  <2> DEFINE q == RequestFor(cur)
  <2>1. /\ pc = "handle" /\ Holding /\ ~Holding' /\ pkt' = pkt /\ inframe' = inframe
        /\ packet_queue' = packet_queue /\ q # 0 /\ response' = [response EXCEPT ![q] = cur]
    BY <1>5 DEF HandleMatched, Holding
  <2>2. cur = Handled + 1
    BY <2>1, HandledNext
  <2>3. q \in Range(hash_table[pkt[cur].key]) /\ pkt[cur].key \in Keys /\ q \in Ids
    BY <2>1, RequestForProperties DEF Inv2
  <2>4. response[q] = 0
    BY <2>3, HashedUnderKey DEF Hashed
  <2> HIDE DEF q
  <2>5. \A i \in Ids : response'[i] = IF i = q THEN cur ELSE response[i]
    <3>1. response \in Seq(0..Len(pkt)) /\ Len(response) = Len(pkt)
      BY DEF Inv2, Inv1, TypeOK
    <3> QED BY SMTT(30), <3>1, <2>1, <2>3 DEF Ids
  <2>6. Queued' = Queued /\ resp < cur
    <3>1. Queued' = Queued
      BY <2>1 DEF Queued
    <3> QED BY SMTT(30), <3>1, <2>2, <1>1
  <2>7. cur > resp
    BY <2>2, <2>6, <1>1
  <2> QED BY <2>1, <2>4, <2>5, <2>6, <2>7, <1>1, StillInFront
<1>6. CASE Receive
  <2>1. PICK f \in InputFrame : Dequeue(f)
    BY <1>6, InputAssumption DEF Receive
  <2>2. packet_queue' = packet_queue
    BY <2>1 DEF Dequeue, LoadFinal, SkipFrame, LoadFrame
  <2> DEFINE nums == [i \in 1..Len(f.packets) |-> Len(pkt) + i]
  <2>3. /\ pkt' = pkt \o f.packets
        /\ response' = response \o [i \in 1..Len(f.packets) |-> 0]
        /\ nums = [i \in 1..Len(f.packets) |-> Len(pkt) + i]
    BY <2>1 DEF Dequeue
  <2> HIDE DEF nums
  <2>4. \A p \in Ids : pkt'[p] = pkt[p] /\ response'[p] = response[p]
    BY <2>3, FreshPackets DEF Inv2, Inv1
  <2> QED BY <2>2, <2>4, <1>2
<1>7. CASE \/ AdvanceDone \/ AdvanceQuiet \/ AdvanceFrame \/ ReadPacket \/ ReadEnd \/ Unload
           \/ Flush \/ Finish \/ Take \/ UNCHANGED vars
  <2>1. packet_queue' = packet_queue /\ pkt' = pkt /\ response' = response
    BY <1>7 DEF AdvanceDone, AdvanceQuiet, AdvanceFrame, ReadPacket, ReadEnd, Unload, Flush,
                Finish, Take, vars, heap
  <2> QED BY <2>1, <1>2
<1> QED BY <1>3, <1>4, <1>5, <1>6, <1>7 DEF Next, Step, Terminated

INSTANCE FiniteSetTheorems

\* Every set of natural numbers that is not empty has a smallest element.
LEMMA SmallestElement ==
    ASSUME NEW T \in SUBSET Nat, T # {}
    PROVE  \E x \in T : \A y \in T : x <= y
<1> DEFINE R == OpToRel(<, Nat)
<1>1. IsWellFoundedOn(R, Nat)
  BY NatLessThanWellFounded
<1>2. \A x, y \in Nat : <<y, x>> \in R <=> y < x
  BY DEF OpToRel
<1> HIDE DEF R
<1>3. PICK x \in T : \A y \in T : ~(<<y, x>> \in R)
  BY <1>1, WFMin
<1>4. \A y \in T : ~(y < x)
  BY <1>2, <1>3, Zenon
<1> QED BY SMTT(30), <1>4

LEMMA Counts == Counting
<1>1. \A T \in SUBSET Nat : T # {} => \E x \in T : \A y \in T : x <= y
  BY SmallestElement
<1>2. \A a, b \in Int : /\ IsFiniteSet(a..b)
                       /\ Cardinality(a..b) = IF a > b THEN 0 ELSE b - a + 1
  BY FS_Interval
<1>3. \A S : IsFiniteSet(S) => Cardinality(S) \in Nat
  BY FS_CardinalityType
<1>4. \A S, T : IsFiniteSet(S) /\ T \subseteq S =>
                  IsFiniteSet(T) /\ Cardinality(T) <= Cardinality(S)
  BY FS_Subset
<1>5. \A S, T : \A f \in Injection(S, T) : IsFiniteSet(T) => Cardinality(S) <= Cardinality(T)
  BY FS_Injection
<1> QED BY <1>1, <1>2, <1>3, <1>4, <1>5 DEF Counting

\* No response passes a waiting request it belongs to, except behind more than
\* MaxSearch newer ones: the limit of the search in dns_packet_hash_get_match.
THEOREM NoneMissed == Spec => []NoMissedMatch
<1>1. Init => NoMissedMatch
  <2>1. Init => Queued = {}
    BY RangeEmpty DEF Init, Queued
  <2> QED BY <2>1 DEF NoMissedMatch
<1>2. Inv2 /\ NoMissedMatch /\ [Next]_vars => (Inv2 /\ NoMissedMatch)'
  BY Counts, StepInv2, StepMissed
<1> QED BY <1>1, <1>2, InitInv2, PTL DEF Spec
=============================================================================
