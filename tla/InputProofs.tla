---------------------------- MODULE InputProofs -----------------------------
(***************************************************************************)
(* The safety of the input, for every number of files, all packets, and    *)
(* however reading fails, the clock runs and the user interrupts.          *)
(***************************************************************************)
EXTENDS Input, SequenceLemmas, Handover

Types == /\ inputs \in Nat /\ now \in Int /\ new \in Nat
         /\ out \in Seq(Frame) /\ (pc # "done" => frame \in Frame) /\ (pc = "done" => frame = NoFrame)
         /\ ts \in Seq(Int) /\ size \in Seq(Nat) /\ Len(size) = Len(ts)

\* A packet is being placed: it is the newest one, and the time advances to it.
Placing == pc = "append" \/ (pc = "advance" /\ return = "append")

Control ==
    /\ pc \in {"file", "open", "loop", "advance", "append", "sleep", "finish", "final", "done",
               "dead", "aborted"}
    /\ pc = "advance" => /\ return \in {"append", "sleep"} /\ target \in Int
                         /\ frame.time_start # NoTime
                         /\ ~Online => return = "append"
    /\ new # 0 => new = Len(ts)
    /\ Placing => new # 0 /\ target = ts[new]
    /\ new # 0 => Placing \/ pc = "dead"

\* Time starts with the first packet or the live trace; before, nothing went out.
Clock ==
    /\ pc = "append" => /\ frame.time_start # NoTime /\ target <= frame.time_end
                        /\ target < frame.time_start + FrameMaxDuration
    /\ pc \in {"file", "open", "loop", "sleep"} /\ frame.time_start = NoTime => out = << >>
    /\ Online => pc # "file" /\ (pc = "open" => out = << >> /\ frame.packets = << >>)

\* The counters of packets read.
Counts == /\ current_packets_read \in Nat /\ total_packets_read \in Nat /\ seen \in Nat
          /\ ReportsCountAll

\* A frame has no time, and then no packets, or ends within FrameMaxDuration; and
\* it is not too large.
Good(f) ==
    /\ f.time_start = NoTime => f.time_end = NoTime /\ f.packets = << >>
    /\ f.time_start # NoTime => /\ f.time_end # NoTime /\ f.time_start <= f.time_end
                                /\ f.time_end <= f.time_start + FrameMaxDuration
    /\ f.size > FrameMaxSize => Len(f.packets) = 1

Tiles(s) == /\ \A i \in 1..Len(s) : Good(s[i])
            /\ \A i \in 1..(Len(s) - 1) : s[i + 1].time_start = s[i].time_end

\* The packets of a frame are in its time, given the timestamps t.
Inside(f, t, online) ==
    \A j \in 1..Len(f.packets) :
        /\ f.packets[j] \in 1..Len(t) /\ t[f.packets[j]] <= f.time_end
        /\ ~online /\ (\A q \in 1..f.packets[j] : t[q] <= t[f.packets[j]]) =>
               f.time_start <= t[f.packets[j]]

AllInside(s, t, online) == \A i \in 1..Len(s) : Inside(s[i], t, online)

\* The time of pcap files is that of their packets.
Past == pc # "done" /\ ~Online /\ frame.time_end # NoTime =>
            \E q \in 1..Len(ts) : frame.time_end <= ts[q]

Framing == /\ Types /\ Control /\ Clock /\ Past
           /\ Tiles(AllFrames) /\ AllInside(AllFrames, ts, Online) /\ EveryPacketFramed

\* The packets of a frame are numbered without a gap.
InARow(f) == \A j \in 1..Len(f.packets) : f.packets[j] = f.packets[1] + (j - 1)

\* The final frame is the last one and has no packets.
Finals ==
    /\ pc # "done" => /\ frame.type = 0 /\ InARow(frame)
                      /\ \A i \in 1..Len(out) : out[i].type = 0
    /\ pc = "final" => frame.packets = << >>
    /\ \A i \in 1..Len(out) : InARow(out[i])
    /\ \A i \in 1..Len(out) : out[i].type = 1 => i = Len(out) /\ out[i].packets = << >>

\* The trace of the dumper is open only while there is one, and is closed when the
\* input is done.
Dumping ==
    /\ dumper \in {"on", "off", "aborted"}
    /\ dumper = "off" => ~dtrace
    /\ dumper = "aborted" => pc = "aborted"
    /\ pc = "done" => ~dtrace

IInv == Framing /\ Counts /\ TraceReleased /\ Finals /\ Dumping

\* A step of the input or of what is around it; dns_global_stop may be set at any
\* time, also when the input is done and the rest of the program is not.
Still == UNCHANGED <<frame, libtrace, stats, pc, file, target, return, new, queue,
                     packets, inputs, now, dumpFile>>
Move == Step \/ Take \/ Tick \/ SigintHandler \/ Still

\* Most steps are of first-order logic and sets, which Zenon settles faster than SMT.
USE Zenon, SMTT(30)
-----------------------------------------------------------------------------
\* Frames and their fields.
LEMMA FrameFields ==
    ASSUME NEW f \in Frame
    PROVE  /\ f.time_start \in Int \cup {NoTime} /\ f.time_end \in Int \cup {NoTime}
           /\ f.size \in Nat /\ f.packets \in Seq(Nat) /\ f # NoFrame
BY NoFrameAssumption DEF Frame

LEMMA NewFrameFacts ==
    ASSUME NEW time \in Int \cup {NoTime}
    PROVE  /\ NewFrame(time) \in Frame
           /\ NewFrame(time).time_start = time /\ NewFrame(time).time_end = time
           /\ NewFrame(time).size = 0 /\ NewFrame(time).packets = << >>
<1>1. << >> \in Seq(Nat) /\ 0 \in Nat
  BY SMTT(30)
<1> QED BY <1>1 DEF NewFrame, Frame

\* What becomes of a frame: it ends at another time, gets its time, or a packet.
EndAt(f, time) == [f EXCEPT !.time_end = time]
StartAt(f, time) == [f EXCEPT !.time_start = time, !.time_end = time]
With(f, p, time, sz) == [f EXCEPT !.packets = Append(@, p), !.time_end = time, !.size = @ + sz]

LEMMA EndFacts ==
    ASSUME NEW f \in Frame, NEW time \in Int \cup {NoTime}
    PROVE  /\ EndAt(f, time) \in Frame
           /\ EndAt(f, time).time_start = f.time_start /\ EndAt(f, time).time_end = time
           /\ EndAt(f, time).size = f.size /\ EndAt(f, time).packets = f.packets
BY DEF Frame, EndAt

LEMMA StartFacts ==
    ASSUME NEW f \in Frame, NEW time \in Int
    PROVE  /\ StartAt(f, time) \in Frame
           /\ StartAt(f, time).time_start = time /\ StartAt(f, time).time_end = time
           /\ StartAt(f, time).size = f.size /\ StartAt(f, time).packets = f.packets
BY DEF Frame, StartAt

LEMMA WithFacts ==
    ASSUME NEW f \in Frame, NEW p \in Nat, NEW time \in Int, NEW sz \in Nat
    PROVE  /\ With(f, p, time, sz) \in Frame
           /\ With(f, p, time, sz).time_start = f.time_start
           /\ With(f, p, time, sz).time_end = time
           /\ With(f, p, time, sz).size = f.size + sz
           /\ With(f, p, time, sz).packets = Append(f.packets, p)
<1>1. f.size + sz \in Nat /\ Append(f.packets, p) \in Seq(Nat)
  BY SMTT(30), FrameFields
<1> QED BY <1>1 DEF Frame, With

LEMMA NewIsGood ==
    ASSUME NEW time \in Int \cup {NoTime}, NEW t, NEW online
    PROVE  Good(NewFrame(time)) /\ Inside(NewFrame(time), t, online)
<1>1. /\ time \in Int => time <= time /\ time <= time + FrameMaxDuration
      /\ ~(0 > FrameMaxSize) /\ Len(<< >>) = 0 /\ 1..0 = {}
  BY SMTT(30), InputAssumption
<1> QED BY <1>1, NewFrameFacts, InputAssumption DEF Good, Inside

\* Frames one after the other.
LEMMA TilesAppend ==
    ASSUME NEW s \in Seq(Frame), NEW f \in Frame
    PROVE  Tiles(Append(s, f)) <=>
               Tiles(s) /\ Good(f) /\ (s # << >> => f.time_start = s[Len(s)].time_end)
<1> DEFINE n == Len(s)
           t == Append(s, f)
<1>1. /\ n \in Nat /\ Len(t) = n + 1 /\ t[n + 1] = f /\ \A i \in 1..n : t[i] = s[i]
      /\ s # << >> <=> n # 0
  BY SMTT(30)
<1>2. \A i : i \in 1..(n + 1) <=> i \in 1..n \/ i = n + 1
  BY SMTT(30), <1>1
<1>3. \A i : i \in 1..((n + 1) - 1) <=> (i \in 1..(n - 1) /\ i \in 1..n /\ i + 1 \in 1..n) \/ (n # 0 /\ i = n)
  BY SMTT(30), <1>1
<1>4. n # 0 => n \in 1..n
  BY SMTT(30), <1>1
<1> HIDE DEF n, t
<1>5. (\A i \in 1..(n + 1) : Good(t[i])) <=> (\A i \in 1..n : Good(s[i])) /\ Good(f)
  BY <1>1, <1>2
<1>6. \A i \in 1..(n - 1) : t[i + 1] = s[i + 1] /\ t[i] = s[i]
  BY <1>1, <1>3
<1>7. (\A i \in 1..((n + 1) - 1) : t[i + 1].time_start = t[i].time_end) <=>
          /\ \A i \in 1..(n - 1) : s[i + 1].time_start = s[i].time_end
          /\ n # 0 => f.time_start = s[n].time_end
  BY SMTT(30), <1>1, <1>3, <1>4, <1>6
<1> QED BY <1>1, <1>5, <1>7 DEF Tiles, n, t

LEMMA InsideAppend ==
    ASSUME NEW s \in Seq(Frame), NEW f \in Frame, NEW t, NEW online
    PROVE  AllInside(Append(s, f), t, online) <=> AllInside(s, t, online) /\ Inside(f, t, online)
<1>1. /\ Len(s) \in Nat /\ Len(Append(s, f)) = Len(s) + 1 /\ Append(s, f)[Len(s) + 1] = f
      /\ \A i \in 1..Len(s) : Append(s, f)[i] = s[i]
  BY SMTT(30)
<1>2. \A i : i \in 1..(Len(s) + 1) <=> i \in 1..Len(s) \/ i = Len(s) + 1
  BY SMTT(30), <1>1
<1> QED BY <1>1, <1>2 DEF AllInside

-----------------------------------------------------------------------------
\* The packets in frames: only the lists of packets matter, a frame may begin empty,
\* and the next packet may go to the end of the last one.
LEMMA HoldSame ==
    ASSUME NEW s, NEW t, NEW n, Len(s) = Len(t),
           \A i \in 1..Len(s) : s[i].packets = t[i].packets, HoldInOrder(s, n)
    PROVE  HoldInOrder(t, n)
BY DEF HoldInOrder

LEMMA HoldLast ==
    ASSUME NEW s \in Seq(Frame), NEW f \in Frame, NEW g \in Frame, NEW n,
           f.packets = g.packets, HoldInOrder(Append(s, f), n)
    PROVE  HoldInOrder(Append(s, g), n)
<1>1. /\ Len(s) \in Nat /\ Len(Append(s, f)) = Len(s) + 1 /\ Len(Append(s, g)) = Len(s) + 1
      /\ Append(s, f)[Len(s) + 1] = f /\ Append(s, g)[Len(s) + 1] = g
      /\ \A i \in 1..Len(s) : Append(s, f)[i] = s[i] /\ Append(s, g)[i] = s[i]
  BY SMTT(30)
<1>2. \A i : i \in 1..(Len(s) + 1) => i \in 1..Len(s) \/ i = Len(s) + 1
  BY SMTT(30), <1>1
<1>3. \A i \in 1..Len(Append(s, f)) : Append(s, f)[i].packets = Append(s, g)[i].packets
  BY <1>1, <1>2
<1> QED BY <1>1, <1>3, HoldSame

LEMMA HoldEmpty ==
    ASSUME NEW s \in Seq(Frame), NEW f \in Frame, NEW n, f.packets = << >>, HoldInOrder(s, n)
    PROVE  HoldInOrder(Append(s, f), n)
<1> DEFINE t == Append(s, f)
           m == Len(s)
<1>1. /\ m \in Nat /\ Len(t) = m + 1 /\ t[m + 1] = f /\ \A i \in 1..m : t[i] = s[i]
  BY SMTT(30)
<1>2. \A i : i \in 1..(m + 1) <=> i \in 1..m \/ i = m + 1
  BY SMTT(30), <1>1
<1>3. 1..Len(<< >>) = {}
  BY SMTT(30)
<1> HIDE DEF t, m
<1>4. \A i \in 1..(m + 1) : \A j \in 1..Len(t[i].packets) : i \in 1..m /\ t[i] = s[i]
  BY <1>1, <1>2, <1>3
<1>5. \A p \in 1..n : \E i \in 1..(m + 1) : \E j \in 1..Len(t[i].packets) : t[i].packets[j] = p
  <2> SUFFICES ASSUME NEW p \in 1..n
               PROVE  \E i \in 1..(m + 1) : \E j \in 1..Len(t[i].packets) : t[i].packets[j] = p
    OBVIOUS
  <2>1. PICK i \in 1..m : \E j \in 1..Len(s[i].packets) : s[i].packets[j] = p
    BY DEF HoldInOrder, m
  <2> QED BY <2>1, <1>1, <1>2
<1>6. \A i \in 1..(m + 1) : \A j \in 1..Len(t[i].packets) : t[i].packets[j] \in 1..n
  BY <1>4 DEF HoldInOrder, m
<1>7. \A i, k \in 1..(m + 1) : \A j \in 1..Len(t[i].packets), l \in 1..Len(t[k].packets) :
         i < k \/ (i = k /\ j < l) => t[i].packets[j] < t[k].packets[l]
  BY <1>4 DEF HoldInOrder, m
<1> QED BY <1>1, <1>5, <1>6, <1>7 DEF HoldInOrder, t

LEMMA HoldParts ==
    ASSUME NEW s, NEW n, NEW m, Len(s) = m
    PROVE  HoldInOrder(s, n) <=>
             /\ \A p \in 1..n : \E i \in 1..m : \E j \in 1..Len(s[i].packets) : s[i].packets[j] = p
             /\ \A i \in 1..m : \A j \in 1..Len(s[i].packets) : s[i].packets[j] \in 1..n
             /\ \A i, k \in 1..m : \A j \in 1..Len(s[i].packets), l \in 1..Len(s[k].packets) :
                  i < k \/ (i = k /\ j < l) => s[i].packets[j] < s[k].packets[l]
BY DEF HoldInOrder

LEMMA HoldMore ==
    ASSUME NEW s \in Seq(Frame), NEW f \in Frame, NEW g \in Frame, NEW n \in Nat,
           g.packets = Append(f.packets, n + 1), HoldInOrder(Append(s, f), n)
    PROVE  HoldInOrder(Append(s, g), n + 1)
<1> DEFINE t == Append(s, f)
           u == Append(s, g)
           m == Len(s) + 1
           h == Len(f.packets)
<1>1. /\ Len(t) = m /\ Len(u) = m /\ t[m] = f /\ u[m] = g /\ m \in 1..m /\ m \in Nat
      /\ \A i \in 1..m : i # m => t[i] = s[i] /\ u[i] = s[i]
  BY SMTT(30)
<1>2. /\ h \in Nat /\ Len(g.packets) = h + 1 /\ g.packets[h + 1] = n + 1
      /\ \A j \in 1..h : g.packets[j] = f.packets[j]
  <2>1. f.packets \in Seq(Nat) /\ n + 1 \in Nat
    BY SMTT(30), FrameFields
  <2> QED BY SMTT(30), <2>1
<1>3. \A j : j \in 1..(h + 1) <=> j \in 1..h \/ j = h + 1
  BY SMTT(30), <1>2
<1> HIDE DEF t, u, m, h
<1>4. /\ \A p \in 1..n : \E i \in 1..m : \E j \in 1..Len(t[i].packets) : t[i].packets[j] = p
      /\ \A i \in 1..m : \A j \in 1..Len(t[i].packets) : t[i].packets[j] \in 1..n
      /\ \A i, k \in 1..m : \A j \in 1..Len(t[i].packets), l \in 1..Len(t[k].packets) :
           i < k \/ (i = k /\ j < l) => t[i].packets[j] < t[k].packets[l]
  <2>1. HoldInOrder(t, n)
    BY DEF t
  <2> QED BY <2>1, <1>1, HoldParts
<1>5. \A i \in 1..m : \A j \in 1..Len(t[i].packets) :
          j \in 1..Len(u[i].packets) /\ u[i].packets[j] = t[i].packets[j]
  BY <1>1, <1>2, <1>3 DEF h
<1>6. \A i \in 1..m : \A j \in 1..Len(u[i].packets) :
          \/ j \in 1..Len(t[i].packets) /\ u[i].packets[j] = t[i].packets[j]
          \/ i = m /\ j = h + 1 /\ u[i].packets[j] = n + 1
  BY <1>1, <1>2, <1>3 DEF h
<1>7. \A p \in 1..(n + 1) : \E i \in 1..m : \E j \in 1..Len(u[i].packets) : u[i].packets[j] = p
  <2> SUFFICES ASSUME NEW p \in 1..(n + 1)
               PROVE  \E i \in 1..m : \E j \in 1..Len(u[i].packets) : u[i].packets[j] = p
    OBVIOUS
  <2>1. CASE p = n + 1
    BY <2>1, <1>1, <1>2, <1>3
  <2>2. CASE p # n + 1
    <3>1. p \in 1..n
      BY SMTT(30), <2>2
    <3>2. PICK i \in 1..m : \E j \in 1..Len(t[i].packets) : t[i].packets[j] = p
      BY <3>1, <1>4
    <3> QED BY <3>2, <1>5
  <2> QED BY <2>1, <2>2
<1>8. \A i \in 1..m : \A j \in 1..Len(u[i].packets) : u[i].packets[j] \in 1..(n + 1)
  <2>1. n + 1 \in 1..(n + 1) /\ \A p \in 1..n : p \in 1..(n + 1)
    BY SMTT(30)
  <2> QED BY <2>1, <1>4, <1>6
<1>9. \A i, k \in 1..m : \A j \in 1..Len(u[i].packets), l \in 1..Len(u[k].packets) :
         i < k \/ (i = k /\ j < l) => u[i].packets[j] < u[k].packets[l]
  <2> SUFFICES ASSUME NEW i \in 1..m, NEW k \in 1..m,
                      NEW j \in 1..Len(u[i].packets), NEW l \in 1..Len(u[k].packets),
                      i < k \/ (i = k /\ j < l)
               PROVE  u[i].packets[j] < u[k].packets[l]
    OBVIOUS
  <2>1. \A p \in 1..n : p < n + 1
    BY SMTT(30)
  <2>2. ~(i = m /\ j = h + 1)
    <3> SUFFICES ASSUME i = m, j = h + 1 PROVE FALSE
      OBVIOUS
    <3>1. k = m /\ l \in 1..(h + 1)
      BY SMTT(30), <1>1, <1>2
    <3> QED BY SMTT(30), <3>1, <1>1, <1>2
  <2>3. j \in 1..Len(t[i].packets) /\ u[i].packets[j] = t[i].packets[j]
    BY <2>2, <1>6
  <2>4. CASE k = m /\ l = h + 1 /\ u[k].packets[l] = n + 1
    BY <2>1, <2>3, <2>4, <1>4
  <2>5. CASE l \in 1..Len(t[k].packets) /\ u[k].packets[l] = t[k].packets[l]
    BY <2>3, <2>5, <1>4
  <2> QED BY <2>4, <2>5, <1>6
<1>10. HoldInOrder(u, n + 1)
  BY <1>1, <1>7, <1>8, <1>9, HoldParts
<1> QED BY <1>10 DEF u

\* The last packet of the frame being filled is the newest one framed, so that the
\* next one goes on in its row; and the row of a frame goes on from the packets
\* of the frames before it.
LEMMA LastIsNewest ==
    ASSUME NEW s \in Seq(Frame), NEW f \in Frame, NEW n \in Nat,
           HoldInOrder(Append(s, f), n), f.packets # << >>
    PROVE  f.packets[Len(f.packets)] = n
<1> DEFINE t == Append(s, f)
           m == Len(s) + 1
           h == Len(f.packets)
<1>1. Len(t) = m /\ t[m] = f /\ m \in 1..m /\ m \in Nat
  BY SMTT(30)
<1>2. h \in Nat /\ h \in 1..h
  <2>1. f.packets \in Seq(Nat)
    BY FrameFields
  <2> QED BY SMTT(30), <2>1
<1> HIDE DEF t, m, h
<1>3. /\ \A p \in 1..n : \E i \in 1..m : \E j \in 1..Len(t[i].packets) : t[i].packets[j] = p
      /\ \A i \in 1..m : \A j \in 1..Len(t[i].packets) : t[i].packets[j] \in 1..n
      /\ \A i, k \in 1..m : \A j \in 1..Len(t[i].packets), l \in 1..Len(t[k].packets) :
           i < k \/ (i = k /\ j < l) => t[i].packets[j] < t[k].packets[l]
  <2>1. HoldInOrder(t, n)
    BY DEF t
  <2>2. Len(t) = m
    BY <1>1
  <2> QED BY Zenon, <2>1, <2>2 DEF HoldInOrder
<1>4. h \in 1..Len(t[m].packets) /\ t[m].packets[h] \in 1..n /\ t[m].packets[h] = f.packets[h]
  BY <1>1, <1>2, <1>3 DEF h
<1>5. n \in 1..n
  BY SMTT(30), <1>4
<1>6. PICK i \in 1..m : \E j \in 1..Len(t[i].packets) : t[i].packets[j] = n
  BY <1>3, <1>5
<1>7. PICK j \in 1..Len(t[i].packets) : t[i].packets[j] = n
  BY <1>6
<1>8. i < m \/ (i = m /\ j < h) => n < t[m].packets[h]
  BY <1>1, <1>3, <1>4, <1>7
<1>9. i = m => j \in 1..h
  BY <1>1 DEF h
<1>10. i = m /\ j = h
  BY SMTT(30), <1>1, <1>2, <1>4, <1>8, <1>9
<1> QED BY <1>4, <1>7, <1>10 DEF h

LEMMA RowMore ==
    ASSUME NEW s \in Seq(Frame), NEW f \in Frame, NEW g \in Frame, NEW n \in Nat,
           g.packets = Append(f.packets, n + 1), HoldInOrder(Append(s, f), n), InARow(f)
    PROVE  InARow(g)
<1> DEFINE h == Len(f.packets)
<1>1. f.packets \in Seq(Nat) /\ n + 1 \in Nat
  BY SMTT(30), FrameFields
<1>2. /\ h \in Nat /\ Len(g.packets) = h + 1 /\ g.packets[h + 1] = n + 1
      /\ \A j \in 1..h : g.packets[j] = f.packets[j] /\ f.packets[j] \in Nat
      /\ h = 0 <=> f.packets = << >>
  BY SMTT(30), <1>1
<1>3. h # 0 => f.packets[h] = n
  BY <1>2, LastIsNewest
<1> HIDE DEF h
<1>4. \A j \in 1..h : f.packets[j] = f.packets[1] + (j - 1)
  BY DEF InARow, h
<1>5. SUFFICES ASSUME NEW j \in 1..(h + 1) PROVE g.packets[j] = g.packets[1] + (j - 1)
  BY <1>2 DEF InARow
<1>6. CASE h = 0
  BY SMTT(30), <1>2, <1>6
<1>7. CASE h # 0
  <2>1. h \in 1..h /\ 1 \in 1..h
    BY SMTT(30), <1>2, <1>7
  <2>2. g.packets[1] = f.packets[1] /\ f.packets[1] + (h - 1) = n /\ f.packets[1] \in Nat
    BY <2>1, <1>2, <1>3, <1>4, <1>7
  <2>3. CASE j \in 1..h
    BY <2>2, <2>3, <1>2, <1>4
  <2>4. CASE j = h + 1
    <3> DEFINE a == f.packets[1]
    <3>1. g.packets[j] = n + 1 /\ h \in Nat /\ a \in Nat /\ a + (h - 1) = n /\ g.packets[1] = a
      BY <2>2, <2>4, <1>2
    <3> HIDE DEF a
    <3>2. n + 1 = a + ((h + 1) - 1)
      BY SMTT(30), <3>1
    <3> QED BY <3>1, <3>2, <2>4
  <2> QED BY SMTT(30), <2>3, <2>4, <1>2
<1> QED BY <1>6, <1>7

LEMMA HoldsSame ==
    ASSUME NEW q, NEW r, NEW k, NEW m, \A i \in 1..k : r[i] = q[i], Holds(q, k, m)
    PROVE  Holds(r, k, m)
<1>1. /\ \A p \in 1..m : \E i \in 1..k : \E j \in 1..Len(q[i].packets) : q[i].packets[j] = p
      /\ \A i \in 1..k : \A j \in 1..Len(q[i].packets) : q[i].packets[j] \in 1..m
  BY DEF Holds
<1>2. ASSUME NEW p \in 1..m
      PROVE  \E i \in 1..k : \E j \in 1..Len(r[i].packets) : r[i].packets[j] = p
  <2>1. PICK i \in 1..k : \E j \in 1..Len(q[i].packets) : q[i].packets[j] = p
    BY <1>1
  <2> QED BY <2>1
<1>3. ASSUME NEW i \in 1..k, NEW j \in 1..Len(r[i].packets)
      PROVE  r[i].packets[j] \in 1..m
  <2>1. r[i] = q[i]
    OBVIOUS
  <2> QED BY <2>1, <1>1
<1> QED BY <1>2, <1>3 DEF Holds

LEMMA RowsJoin ==
    ASSUME NEW s \in Seq(Frame), NEW n \in Nat, HoldInOrder(s, n),
           NEW k \in 1..Len(s), InARow(s[k]), NEW m \in Nat, Holds(s, k - 1, m)
    PROVE  \A j \in 1..Len(s[k].packets) : s[k].packets[j] = m + j
<1> DEFINE h == Len(s[k].packets)
           z == Len(s)
<1>1. z \in Nat /\ h \in Nat /\ \A j \in 1..h : s[k].packets[j] \in Nat
  <2>1. z \in Nat /\ s[k] \in Frame
    BY LenFacts
  <2>2. s[k].packets \in Seq(Nat)
    BY <2>1, FrameFields
  <2> QED BY <2>1, <2>2, LenFacts
<1> SUFFICES ASSUME NEW x \in 1..h PROVE s[k].packets[x] = m + x
  OBVIOUS
<1>2. /\ \A p \in 1..n : \E i \in 1..z : \E j \in 1..Len(s[i].packets) : s[i].packets[j] = p
      /\ \A i \in 1..z : \A j \in 1..Len(s[i].packets) : s[i].packets[j] \in 1..n
      /\ \A i, l \in 1..z : \A j \in 1..Len(s[i].packets), o \in 1..Len(s[l].packets) :
           i < l \/ (i = l /\ j < o) => s[i].packets[j] < s[l].packets[o]
  BY HoldParts
<1>3. /\ \A p \in 1..m : \E i \in 1..(k - 1) : \E j \in 1..Len(s[i].packets) : s[i].packets[j] = p
      /\ \A i \in 1..(k - 1) : \A j \in 1..Len(s[i].packets) : s[i].packets[j] \in 1..m
  BY DEF Holds
<1> HIDE DEF h, z
<1>4. /\ \A i \in 1..(k - 1) : i \in 1..z /\ i < k
      /\ \A i \in 1..z : i \in 1..(k - 1) \/ i = k \/ k < i
      /\ k \in 1..z
  BY SMTT(30), <1>1 DEF z
<1>5. 1 \in 1..h /\ s[k].packets[1] \in 1..n
  <2>1. 1 \in 1..h
    BY SMTT(30), <1>1
  <2> QED BY <2>1, <1>2, <1>4 DEF h
<1> DEFINE a == s[k].packets[1]
<1>6. ~(a \in 1..m)
  <2> SUFFICES ASSUME a \in 1..m PROVE FALSE
    OBVIOUS
  <2>1. PICK i \in 1..(k - 1) : \E j \in 1..Len(s[i].packets) : s[i].packets[j] = a
    BY <1>3
  <2>2. PICK j \in 1..Len(s[i].packets) : s[i].packets[j] = a
    BY <2>1
  <2>3. s[i].packets[j] < s[k].packets[1]
    BY <1>2, <1>4, <1>5 DEF h
  <2> QED BY SMTT(30), <2>2, <2>3, <1>5
<1>7. ~(m + 1 < a)
  <2> SUFFICES ASSUME m + 1 < a PROVE FALSE
    OBVIOUS
  <2>1. m + 1 \in 1..n /\ ~(m + 1 \in 1..m)
    BY SMTT(30), <1>5
  <2>2. PICK i \in 1..z : \E j \in 1..Len(s[i].packets) : s[i].packets[j] = m + 1
    BY <2>1, <1>2
  <2>3. PICK j \in 1..Len(s[i].packets) : s[i].packets[j] = m + 1
    BY <2>2
  <2>4. ~(i \in 1..(k - 1))
    BY <2>1, <2>3, <1>3
  <2>5. CASE i = k
    <3>1. j \in 1..h /\ (1 < j => a < s[k].packets[j])
      BY <2>3, <2>5, <1>2, <1>4, <1>5 DEF h
    <3> QED BY SMTT(30), <3>1, <2>3, <2>5, <1>1, <1>5
  <2>6. CASE k < i
    <3>1. a < s[i].packets[j]
      BY <2>3, <2>6, <1>2, <1>4, <1>5 DEF h
    <3> QED BY SMTT(30), <3>1, <2>3, <1>5
  <2> QED BY <2>4, <2>5, <2>6, <1>4
<1>8. a = m + 1
  BY SMTT(30), <1>5, <1>6, <1>7
<1>9. s[k].packets[x] = a + (x - 1)
  BY DEF InARow, h
<1> HIDE DEF a
<1> QED BY SMTT(30), <1>1, <1>8, <1>9

-----------------------------------------------------------------------------
\* The steps that leave the frames alone, and those of dns_input_trace_open that may
\* start the time of a live trace.
Between == {"file", "open", "loop", "sleep"}

Quiet == \/ FileOpens \/ FileMissing \/ FilesDone \/ CreateFails
         \/ Interrupted \/ EventTerminate \/ EventBadPacket
         \/ (EventSleep /\ ~Behind) \/ WakeUp \/ SelectFails
         \/ Take \/ Tick \/ SigintHandler \/ Still

Opening == ConfigFails \/ FilterAsserts \/ FilterFails \/ StartFails \/ OpenSucceeds

LEMMA QuietFacts ==
    ASSUME Quiet
    PROVE  /\ frame' = frame /\ out' = out /\ ts' = ts /\ size' = size /\ new' = new
           /\ target' = target /\ return' = return /\ inputs' = inputs
           /\ now' = now \/ now' = now + 1
           /\ \/ pc' = pc
              \/ pc' = "dead" /\ pc \notin Ended
              \/ /\ pc \in Between /\ pc' \in Between \cup {"finish", "aborted"}
                 /\ pc' = "open" => pc = "file"
                 /\ pc' = "file" => ~Online
<1> USE DEF Quiet, Still, libtrace, stats, queue, packets, outside, dumpFile, Between
<1>1. CASE FileOpens \/ FileMissing \/ FilesDone
  BY <1>1 DEF FileOpens, FileMissing, FilesDone, Ended
<1>2. CASE CreateFails \/ SelectFails \/ WakeUp
  BY <1>2 DEF CreateFails, SelectFails, WakeUp, NextInput, TraceClose
<1>3. CASE Interrupted \/ EventTerminate
  BY <1>3 DEF Interrupted, EventTerminate, NextInput, TraceClose, Report
<1>4. CASE EventBadPacket \/ (EventSleep /\ ~Behind)
  BY <1>4 DEF EventBadPacket, EventSleep
<1>5. CASE Take \/ Tick \/ SigintHandler \/ Still
  BY <1>5 DEF Take, Tick, SigintHandler
<1> QED BY <1>1, <1>2, <1>3, <1>4, <1>5

LEMMA OpeningFacts ==
    ASSUME Opening
    PROVE  /\ out' = out /\ ts' = ts /\ size' = size /\ new' = new
           /\ target' = target /\ return' = return /\ inputs' = inputs /\ now' = now
           /\ frame' = IF Online THEN NewFrame(now) ELSE frame
           /\ pc = "open" /\ pc' \in {"finish", "file", "loop", "aborted"}
           /\ pc' = "file" => ~Online
<1> USE DEF libtrace, stats, queue, packets, outside, dumpFile, StartTime, NextInput
<1>1. CASE ConfigFails \/ FilterAsserts \/ FilterFails
  BY <1>1 DEF ConfigFails, FilterAsserts, FilterFails
<1>2. CASE StartFails \/ OpenSucceeds
  BY <1>2 DEF StartFails, OpenSucceeds
<1> QED BY <1>1, <1>2 DEF Opening

\* What the invariant says of the frame being filled.
LEMMA FrameNow ==
    ASSUME Framing, pc # "done"
    PROVE  /\ frame \in Frame /\ out \in Seq(Frame) /\ AllFrames = Append(out, frame)
           /\ Tiles(out) /\ Good(frame)
           /\ out # << >> => frame.time_start = out[Len(out)].time_end
           /\ AllInside(out, ts, Online) /\ Inside(frame, ts, Online)
           /\ frame.time_start \in Int \cup {NoTime} /\ frame.time_end \in Int \cup {NoTime}
           /\ frame.time_start = NoTime <=> frame.time_end = NoTime
           /\ frame.size \in Nat /\ frame.packets \in Seq(Nat)
<1>1. frame \in Frame /\ out \in Seq(Frame)
  BY DEF Framing, Types
<1>2. AllFrames = Append(out, frame)
  BY <1>1, FrameFields DEF AllFrames
<1>3. /\ Tiles(out) /\ Good(frame) /\ (out # << >> => frame.time_start = out[Len(out)].time_end)
  BY <1>1, <1>2, TilesAppend DEF Framing
<1>4. AllInside(out, ts, Online) /\ Inside(frame, ts, Online)
  BY <1>1, <1>2, InsideAppend DEF Framing
<1>5. frame.time_start = NoTime <=> frame.time_end = NoTime
  BY <1>3 DEF Good
<1> QED BY <1>1, <1>2, <1>3, <1>4, <1>5, FrameFields

\* Frames f and then g follow those in out, or f alone does.
LEMMA FramesNext ==
    ASSUME NEW f \in Frame, frame' = f, out' \in Seq(Frame)
    PROVE  AllFrames' = Append(out', f)
BY FrameFields DEF AllFrames

LEMMA QuietKept ==
    ASSUME Framing, Quiet
    PROVE  Framing'
<1>1. /\ Types /\ Control /\ Clock /\ Past
      /\ Tiles(AllFrames) /\ AllInside(AllFrames, ts, Online) /\ EveryPacketFramed
  BY DEF Framing
<1>2. /\ frame' = frame /\ out' = out /\ ts' = ts /\ size' = size /\ new' = new
      /\ target' = target /\ return' = return /\ inputs' = inputs
      /\ now' = now \/ now' = now + 1
  BY QuietFacts
<1>3. \/ pc' = pc
      \/ pc' = "dead" /\ pc \notin {"done", "dead", "aborted"}
      \/ /\ pc \in {"file", "open", "loop", "sleep"}
         /\ pc' \in {"file", "open", "loop", "sleep", "finish", "aborted"}
         /\ pc' = "open" => pc = "file"
         /\ pc' = "file" => ~Online
  BY QuietFacts DEF Between, Ended
<1>4. AllFrames' = AllFrames /\ (Online' <=> Online)
  BY <1>2 DEF AllFrames, Online
<1>5. Types'
  <2>1. now' \in Int
    BY SMTT(30), <1>1, <1>2 DEF Types
  <2>2. pc' = "done" <=> pc = "done"
    BY <1>3
  <2> QED BY <1>1, <1>2, <2>1, <2>2 DEF Types
<1>6. Control'
  BY <1>1, <1>2, <1>3, <1>4 DEF Control, Placing
<1>7. Clock'
  BY <1>1, <1>2, <1>3, <1>4 DEF Clock
<1>8. Past'
  BY <1>1, <1>2, <1>3, <1>4 DEF Past
<1>9. Tiles(AllFrames') /\ AllInside(AllFrames', ts', Online') /\ EveryPacketFramed'
  BY <1>1, <1>2, <1>4 DEF EveryPacketFramed, Online
<1> QED BY <1>5, <1>6, <1>7, <1>8, <1>9 DEF Framing

LEMMA OpenKept ==
    ASSUME Framing, Opening
    PROVE  Framing'
<1>1. Types /\ Control /\ Clock /\ Past /\ EveryPacketFramed
  BY DEF Framing
<1>2. /\ out' = out /\ ts' = ts /\ size' = size /\ new' = new
      /\ target' = target /\ return' = return /\ inputs' = inputs /\ now' = now
      /\ frame' = IF Online THEN NewFrame(now) ELSE frame
      /\ pc = "open" /\ pc' \in {"finish", "file", "loop", "aborted"}
      /\ pc' = "file" => ~Online
  BY OpeningFacts
<1>3. /\ frame \in Frame /\ out \in Seq(Frame) /\ AllFrames = Append(out, frame)
      /\ Tiles(AllFrames) /\ AllInside(AllFrames, ts, Online)
      /\ Tiles(out) /\ AllInside(out, ts, Online)
  BY <1>2, FrameNow DEF Framing
<1>4. frame' \in Frame /\ AllFrames' = Append(out, frame')
  <2>1. frame' \in Frame
    BY <1>1, <1>2, <1>3, NewFrameFacts DEF Types
  <2> QED BY <2>1, <1>2, <1>3, FramesNext
<1>5. Online' <=> Online
  BY <1>2 DEF Online
<1>6. Types' /\ Control'
  BY <1>1, <1>2, <1>4 DEF Types, Control, Placing
<1>7. CASE ~Online
  <2>1. frame' = frame /\ AllFrames' = AllFrames
    BY <1>2, <1>3, <1>4, <1>7
  <2>2. Clock' /\ Past'
    BY <2>1, <1>1, <1>2, <1>5, <1>7 DEF Clock, Past
  <2>3. EveryPacketFramed'
    BY <2>1, <1>1, <1>2 DEF EveryPacketFramed
  <2> QED BY <2>1, <2>2, <2>3, <1>2, <1>3, <1>5, <1>6 DEF Framing, Online
<1>8. CASE Online
  <2>1. frame' = NewFrame(now) /\ now \in Int \cup {NoTime} /\ now # NoTime
    BY <1>1, <1>2, <1>8, InputAssumption DEF Types
  <2>2. out = << >> /\ frame.packets = << >>
    BY <1>1, <1>2, <1>8 DEF Clock
  <2>3. frame'.time_start = now /\ frame'.packets = << >>
    BY <2>1, NewFrameFacts
  <2>4. Clock' /\ Past'
    BY <2>1, <2>3, <1>2, <1>5, <1>8 DEF Clock, Past
  <2>5. Tiles(AllFrames') /\ AllInside(AllFrames', ts', Online')
    <3>1. Good(frame') /\ Inside(frame', ts', Online')
      BY <2>1, NewIsGood
    <3>2. AllInside(out, ts', Online')
      BY <1>2, <1>3 DEF Online
    <3> QED BY <3>1, <3>2, <2>2, <1>3, <1>4, TilesAppend, InsideAppend
  <2>6. EveryPacketFramed'
    BY <2>2, <2>3, <1>1, <1>2, <1>3, <1>4, HoldLast DEF EveryPacketFramed
  <2> QED BY <2>4, <2>5, <2>6, <1>6 DEF Framing
<1> QED BY <1>7, <1>8

\* A time for a frame that has none.
LEMMA StartIsGood ==
    ASSUME NEW f \in Frame, Good(f), f.time_start = NoTime, NEW time \in Int
    PROVE  Good(StartAt(f, time)) /\ 1..Len(StartAt(f, time).packets) = {}
<1>1. time <= time /\ time <= time + FrameMaxDuration /\ time # NoTime
  BY SMTT(30), InputAssumption
<1>2. f.packets = << >> /\ 1..Len(<< >>) = {}
  BY SMTT(30) DEF Good
<1> QED BY <1>1, <1>2, StartFacts DEF Good

\* One more packet read does not change where the others are.
LEMMA InsideMore ==
    ASSUME NEW f, NEW t \in Seq(Int), NEW x \in Int, NEW online, Inside(f, t, online)
    PROVE  Inside(f, Append(t, x), online)
<1>1. Len(t) \in Nat /\ \A q \in 1..Len(t) : q \in 1..Len(Append(t, x)) /\ Append(t, x)[q] = t[q]
  BY SMTT(30)
<1>2. \A p \in 1..Len(t) : \A q \in 1..p : q \in 1..Len(t)
  BY SMTT(30), <1>1
<1> QED BY <1>1, <1>2 DEF Inside

LEMMA PacketKept ==
    ASSUME Framing, NEW time \in Times, NEW sz \in Sizes, EventPacket(time, sz)
    PROVE  Framing'
<1>1. Types /\ Control /\ Clock /\ Past /\ EveryPacketFramed /\ time \in Int /\ sz \in Nat
  BY InputAssumption DEF Framing
<1>2. /\ out' = out /\ ts' = Append(ts, time) /\ size' = Append(size, sz) /\ new' = Len(ts')
      /\ target' = time /\ return' = "append" /\ inputs' = inputs /\ now' = now
      /\ frame' = IF frame.time_start = NoTime
                  THEN [frame EXCEPT !.time_start = time, !.time_end = time] ELSE frame
      /\ pc = "loop" /\ pc' = "advance"
  BY DEF EventPacket, AdvanceTimeTo, queue, outside
<1>3. /\ frame \in Frame /\ out \in Seq(Frame) /\ AllFrames = Append(out, frame)
      /\ Tiles(out) /\ Good(frame) /\ (out # << >> => frame.time_start = out[Len(out)].time_end)
      /\ AllInside(out, ts, Online) /\ Inside(frame, ts, Online)
  BY <1>2, FrameNow
<1>4. /\ frame' \in Frame /\ Good(frame') /\ frame'.packets = frame.packets
      /\ Inside(frame', ts, Online) /\ frame'.time_start # NoTime
      /\ frame.time_start = NoTime => frame'.time_end = time
      /\ frame.time_start # NoTime => frame' = frame
  <2>1. CASE frame.time_start = NoTime
    <3>1. frame' = StartAt(frame, time)
      BY <2>1, <1>2 DEF StartAt
    <3>2. /\ frame' \in Frame /\ Good(frame') /\ frame'.packets = frame.packets
          /\ 1..Len(frame'.packets) = {} /\ frame'.time_start = time /\ frame'.time_end = time
      BY <3>1, <2>1, <1>1, <1>3, StartFacts, StartIsGood
    <3>3. Inside(frame', ts, Online)
      BY <3>2 DEF Inside
    <3>4. time # NoTime
      BY <1>1, InputAssumption
    <3> QED BY <3>2, <3>3, <3>4, <2>1
  <2>2. CASE frame.time_start # NoTime
    BY <2>2, <1>2, <1>3
  <2> QED BY <2>1, <2>2
<1>5. AllFrames' = Append(out, frame') /\ (Online' <=> Online)
  BY <1>2, <1>3, <1>4, FramesNext DEF Online
<1>6. /\ Len(ts') = Len(ts) + 1 /\ Len(ts) \in Nat /\ ts' \in Seq(Int) /\ ts'[Len(ts')] = time
      /\ size' \in Seq(Nat) /\ Len(size') = Len(ts') /\ Len(ts') # 0 /\ Len(ts') \in 1..Len(ts')
      /\ Len(ts') \in Nat /\ \A q \in 1..Len(ts) : q \in 1..Len(ts') /\ ts'[q] = ts[q]
  BY SMTT(30), <1>1, <1>2 DEF Types
<1>7. new = 0
  BY <1>1, <1>2 DEF Control, Placing
<1>8. Types' /\ Control' /\ Clock'
  BY <1>1, <1>2, <1>3, <1>4, <1>5, <1>6 DEF Types, Control, Clock, Placing
<1>9. Past'
  <2>1. time <= time
    BY SMTT(30), <1>1
  <2> QED BY <2>1, <1>1, <1>2, <1>4, <1>5, <1>6 DEF Past
<1>10. Tiles(AllFrames')
  <2>1. out # << >> => frame.time_start # NoTime
    BY <1>1, <1>2 DEF Clock
  <2> QED BY <2>1, <1>3, <1>4, <1>5, TilesAppend
<1>11. AllInside(AllFrames', ts', Online')
  <2>1. ts \in Seq(Int)
    BY <1>1 DEF Types
  <2>2. AllInside(out, ts', Online) /\ Inside(frame', ts', Online)
    BY <2>1, <1>1, <1>2, <1>3, <1>4, InsideMore DEF AllInside
  <2>3. AllInside(AllFrames', ts', Online)
    BY <2>2, <1>3, <1>4, <1>5, InsideAppend
  <2> QED BY <2>3, <1>2 DEF Online
<1>12. EveryPacketFramed'
  <2>1. HoldInOrder(AllFrames, Len(ts))
    BY <1>1, <1>7 DEF EveryPacketFramed
  <2>2. HoldInOrder(AllFrames', Len(ts))
    BY <2>1, <1>3, <1>4, <1>5, HoldLast
  <2>3. Len(ts') - 1 = Len(ts)
    BY SMTT(30), <1>6
  <2> QED BY <2>2, <2>3, <1>2, <1>6 DEF EveryPacketFramed
<1> QED BY <1>8, <1>9, <1>10, <1>11, <1>12 DEF Framing

LEMMA CatchUpKept ==
    ASSUME Framing, EventSleep, Behind
    PROVE  Framing'
<1> DEFINE time == now - RealTimeGrace
<1>1. Types /\ Control /\ Clock /\ Past /\ EveryPacketFramed /\ time \in Int
  <2>1. now \in Int
    BY DEF Framing, Types
  <2> QED BY SMTT(30), <2>1, InputAssumption DEF Framing
<1>2. /\ out' = out /\ ts' = ts /\ size' = size /\ new' = new
      /\ target' = time /\ return' = "sleep" /\ inputs' = inputs /\ now' = now
      /\ frame' = IF frame.time_start = NoTime
                  THEN [frame EXCEPT !.time_start = time, !.time_end = time] ELSE frame
      /\ pc = "loop" /\ pc' = "advance" /\ Online
  BY DEF EventSleep, Behind, AdvanceTimeTo, queue, outside, packets
<1> HIDE DEF time
<1>3. /\ frame \in Frame /\ out \in Seq(Frame) /\ AllFrames = Append(out, frame)
      /\ Tiles(out) /\ Good(frame) /\ (out # << >> => frame.time_start = out[Len(out)].time_end)
      /\ AllInside(out, ts, Online) /\ Inside(frame, ts, Online)
  BY <1>2, FrameNow
<1>4. /\ frame' \in Frame /\ Good(frame') /\ frame'.packets = frame.packets
      /\ Inside(frame', ts, Online) /\ frame'.time_start # NoTime
      /\ frame.time_start # NoTime => frame' = frame
  <2>1. CASE frame.time_start = NoTime
    <3>1. frame' = StartAt(frame, time)
      BY <2>1, <1>2 DEF StartAt
    <3>2. /\ frame' \in Frame /\ Good(frame') /\ frame'.packets = frame.packets
          /\ 1..Len(frame'.packets) = {} /\ frame'.time_start = time /\ frame'.time_end = time
      BY <3>1, <2>1, <1>1, <1>3, StartFacts, StartIsGood
    <3>3. Inside(frame', ts, Online)
      BY <3>2 DEF Inside
    <3>4. time # NoTime
      BY <1>1, InputAssumption
    <3> QED BY <3>2, <3>3, <3>4, <2>1
  <2>2. CASE frame.time_start # NoTime
    BY <2>2, <1>2, <1>3
  <2> QED BY <2>1, <2>2
<1>5. AllFrames' = Append(out, frame') /\ (Online' <=> Online)
  BY <1>2, <1>3, <1>4, FramesNext DEF Online
<1>6. new = 0
  BY <1>1, <1>2 DEF Control, Placing
<1>7. Types' /\ Control' /\ Clock' /\ Past'
  BY <1>1, <1>2, <1>4, <1>5, <1>6 DEF Types, Control, Clock, Past, Placing
<1>8. Tiles(AllFrames')
  <2>1. out # << >> => frame.time_start # NoTime
    BY <1>1, <1>2 DEF Clock
  <2> QED BY <2>1, <1>3, <1>4, <1>5, TilesAppend
<1>9. AllInside(AllFrames', ts', Online')
  <2>1. AllInside(AllFrames', ts, Online)
    BY <1>3, <1>4, <1>5, InsideAppend
  <2> QED BY <2>1, <1>2 DEF Online
<1>10. EveryPacketFramed'
  BY <1>1, <1>2, <1>3, <1>4, <1>5, HoldLast DEF EveryPacketFramed
<1> QED BY <1>7, <1>8, <1>9, <1>10 DEF Framing

\* A frame that ends later.
LEMMA EndIsGood ==
    ASSUME NEW f \in Frame, Good(f), f.time_start # NoTime, NEW e \in Int,
           f.time_end <= e, e <= f.time_start + FrameMaxDuration,
           NEW t \in Seq(Int), NEW online, Inside(f, t, online)
    PROVE  Good(EndAt(f, e)) /\ Inside(EndAt(f, e), t, online)
<1>1. f.time_start \in Int /\ f.time_end \in Int /\ f.time_start <= f.time_end
  BY FrameFields DEF Good
<1>2. f.time_start <= e /\ e # NoTime
  BY SMTT(30), <1>1, InputAssumption
<1>3. \A p \in 1..Len(t) : t[p] <= f.time_end => t[p] <= e
  BY SMTT(30), <1>1
<1>4. /\ EndAt(f, e).time_start = f.time_start /\ EndAt(f, e).time_end = e
      /\ EndAt(f, e).size = f.size /\ EndAt(f, e).packets = f.packets
  BY EndFacts
<1>5. Good(EndAt(f, e))
  BY <1>2, <1>4 DEF Good
<1>6. Inside(EndAt(f, e), t, online)
  BY <1>3, <1>4 DEF Inside
<1> QED BY <1>5, <1>6

LEMMA AdvanceOutputKept ==
    ASSUME Framing, AdvanceOutput
    PROVE  Framing'
<1> DEFINE e == frame.time_start + FrameMaxDuration
           g == EndAt(frame, e)
<1>1. Types /\ Control /\ Clock /\ Past /\ EveryPacketFramed
  BY DEF Framing
<1>2. /\ out' = Append(out, g) /\ ts' = ts /\ size' = size /\ new' = new
      /\ target' = target /\ return' = return /\ inputs' = inputs /\ now' = now
      /\ frame' = NewFrame(g.time_end) /\ pc = "advance" /\ pc' = "advance" /\ target >= e
  BY DEF AdvanceOutput, OutputFrame, Enqueue, FrameOver, outside, packets, EndAt
<1>3. /\ frame \in Frame /\ out \in Seq(Frame) /\ AllFrames = Append(out, frame)
      /\ Tiles(out) /\ Good(frame) /\ (out # << >> => frame.time_start = out[Len(out)].time_end)
      /\ AllInside(out, ts, Online) /\ Inside(frame, ts, Online)
      /\ ts \in Seq(Int) /\ frame.time_start # NoTime
  BY <1>1, <1>2, FrameNow DEF Types, Control
<1>4. e \in Int /\ e # NoTime /\ frame.time_end <= e
  <2>1. frame.time_start \in Int /\ frame.time_end <= e
    BY <1>3, FrameFields DEF Good
  <2> QED BY SMTT(30), <2>1, InputAssumption
<1>5. g \in Frame /\ g.time_start = frame.time_start /\ g.time_end = e /\ g.packets = frame.packets
  BY <1>3, <1>4, EndFacts
<1>6. Good(g) /\ Inside(g, ts, Online)
  <2>1. e <= frame.time_start + FrameMaxDuration
    BY SMTT(30), <1>4
  <2> HIDE DEF e
  <2> QED BY <2>1, <1>3, <1>4, EndIsGood
<1> HIDE DEF e, g
<1>7. /\ frame' \in Frame /\ frame'.time_start = e /\ frame'.time_end = e
      /\ frame'.packets = << >> /\ Good(frame') /\ Inside(frame', ts, Online)
  BY <1>2, <1>4, <1>5, NewFrameFacts, NewIsGood
<1>8. /\ out' \in Seq(Frame) /\ out' # << >> /\ out'[Len(out')] = g
  BY SMTT(30), <1>2, <1>3, <1>5
<1>9. AllFrames' = Append(out', frame') /\ (Online' <=> Online)
  BY <1>2, <1>7, <1>8, FramesNext DEF Online
<1>10. Types' /\ Control' /\ Clock'
  BY <1>1, <1>2, <1>4, <1>7, <1>8, <1>9 DEF Types, Control, Clock, Placing
<1>11. Past'
  <2> SUFFICES ASSUME ~Online PROVE \E q \in 1..Len(ts) : e <= ts[q]
    BY <1>2, <1>7, <1>9 DEF Past
  <2>1. target \in Int /\ target = ts[new] /\ new \in 1..Len(ts)
    <3>1. target \in Int /\ target = ts[new] /\ new # 0 /\ new = Len(ts) /\ new \in Nat
      BY <1>1, <1>2 DEF Control, Placing, Types
    <3>2. new \in 1..new
      BY SMTT(30), <3>1
    <3> QED BY <3>1, <3>2
  <2>2. e <= target
    BY SMTT(30), <2>1, <1>2, <1>4
  <2> QED BY <2>1, <2>2
<1>12. Tiles(AllFrames')
  <2>1. Tiles(out')
    BY <1>2, <1>3, <1>5, <1>6, TilesAppend
  <2> QED BY <2>1, <1>5, <1>7, <1>8, <1>9, TilesAppend
<1>13. AllInside(AllFrames', ts', Online')
  <2>1. AllInside(out', ts, Online)
    BY <1>2, <1>3, <1>5, <1>6, InsideAppend
  <2>2. AllInside(AllFrames', ts, Online)
    BY <2>1, <1>7, <1>8, <1>9, InsideAppend
  <2> QED BY <2>2, <1>2 DEF Online
<1>14. EveryPacketFramed'
  <2> DEFINE n == IF new = 0 THEN Len(ts) ELSE Len(ts) - 1
  <2>1. HoldInOrder(AllFrames, n)
    BY <1>1 DEF EveryPacketFramed
  <2> HIDE DEF n
  <2>2. HoldInOrder(out', n)
    BY <2>1, <1>2, <1>3, <1>5, HoldLast
  <2>3. HoldInOrder(AllFrames', n)
    BY <2>2, <1>7, <1>8, <1>9, HoldEmpty
  <2> QED BY <2>3, <1>2 DEF EveryPacketFramed, n
<1> QED BY <1>10, <1>11, <1>12, <1>13, <1>14 DEF Framing

LEMMA AdvanceDoneKept ==
    ASSUME Framing, AdvanceDone
    PROVE  Framing'
<1> DEFINE e == Max2(frame.time_end, target)
<1>1. Types /\ Control /\ Clock /\ Past /\ EveryPacketFramed
  BY DEF Framing
<1>2. /\ out' = out /\ ts' = ts /\ size' = size /\ new' = new
      /\ target' = target /\ return' = return /\ inputs' = inputs /\ now' = now
      /\ frame' = EndAt(frame, e) /\ pc = "advance" /\ pc' = return
      /\ ~(target >= frame.time_start + FrameMaxDuration)
  BY DEF AdvanceDone, FrameOver, outside, packets, queue, EndAt
<1>3. /\ frame \in Frame /\ out \in Seq(Frame) /\ AllFrames = Append(out, frame)
      /\ Tiles(out) /\ Good(frame) /\ (out # << >> => frame.time_start = out[Len(out)].time_end)
      /\ AllInside(out, ts, Online) /\ Inside(frame, ts, Online)
      /\ ts \in Seq(Int) /\ frame.time_start # NoTime
      /\ target \in Int /\ return \in {"append", "sleep"}
  BY <1>1, <1>2, FrameNow DEF Types, Control
<1>4. /\ e \in Int /\ frame.time_end <= e /\ e <= frame.time_start + FrameMaxDuration
      /\ target <= e /\ target < frame.time_start + FrameMaxDuration
      /\ e = frame.time_end \/ e = target
  <2>1. /\ frame.time_start \in Int /\ frame.time_end \in Int
        /\ frame.time_end <= frame.time_start + FrameMaxDuration
    BY <1>3, FrameFields DEF Good
  <2> QED BY SMTT(30), <2>1, <1>2, <1>3, InputAssumption DEF Max2
<1> HIDE DEF e
<1>5. /\ frame' \in Frame /\ frame'.time_start = frame.time_start /\ frame'.time_end = e
      /\ frame'.packets = frame.packets
  BY <1>2, <1>3, <1>4, EndFacts
<1>6. Good(frame') /\ Inside(frame', ts, Online)
  BY <1>2, <1>3, <1>4, EndIsGood
<1>7. AllFrames' = Append(out, frame') /\ (Online' <=> Online)
  BY <1>2, <1>3, <1>5, FramesNext DEF Online
<1>8. Types' /\ Control' /\ Clock'
  BY <1>1, <1>2, <1>3, <1>4, <1>5, <1>7 DEF Types, Control, Clock, Placing
<1>9. Past'
  <2> SUFFICES ASSUME ~Online PROVE \E q \in 1..Len(ts) : e <= ts[q]
    BY <1>2, <1>5, <1>7 DEF Past
  <2>1. CASE e = target
    <3>1. target \in Int /\ target = ts[new] /\ new # 0 /\ new = Len(ts) /\ new \in Nat
      BY <1>1, <1>2 DEF Control, Placing, Types
    <3>2. new \in 1..new /\ target <= target
      BY SMTT(30), <3>1
    <3> QED BY <2>1, <3>1, <3>2
  <2>2. CASE e = frame.time_end
    <3>1. frame.time_end # NoTime
      BY <1>3 DEF Good
    <3> QED BY <2>2, <3>1, <1>1, <1>2 DEF Past
  <2> QED BY <2>1, <2>2, <1>4
<1>10. Tiles(AllFrames')
  BY <1>3, <1>5, <1>6, <1>7, TilesAppend
<1>11. AllInside(AllFrames', ts', Online')
  <2>1. AllInside(AllFrames', ts, Online)
    BY <1>3, <1>5, <1>6, <1>7, InsideAppend
  <2> QED BY <2>1, <1>2 DEF Online
<1>12. EveryPacketFramed'
  BY <1>1, <1>2, <1>3, <1>5, <1>7, HoldLast DEF EveryPacketFramed
<1> QED BY <1>8, <1>9, <1>10, <1>11, <1>12 DEF Framing

\* The newest packet goes into a frame that reaches up to it.
LEMMA WithIsGood ==
    ASSUME NEW f \in Frame, Good(f), f.time_start # NoTime,
           NEW t \in Seq(Int), NEW online, Inside(f, t, online),
           Len(t) # 0, t[Len(t)] <= f.time_end,
           ~online => \E q \in 1..Len(t) : f.time_end <= t[q],
           NEW sz \in Nat, f.packets = << >> \/ f.size + sz <= FrameMaxSize
    PROVE  LET g == With(f, Len(t), f.time_end, sz) IN Good(g) /\ Inside(g, t, online)
<1> DEFINE p == Len(t)
           g == With(f, p, f.time_end, sz)
           k == Len(f.packets)
<1>1. /\ f.time_start \in Int /\ f.time_end \in Int /\ f.time_start <= f.time_end
      /\ f.time_end <= f.time_start + FrameMaxDuration /\ f.size \in Nat /\ f.packets \in Seq(Nat)
      /\ f.time_end # NoTime
  BY FrameFields DEF Good
<1>2. p \in Nat /\ p \in 1..p
  BY SMTT(30)
<1> HIDE DEF p
<1>3. /\ g.time_start = f.time_start /\ g.time_end = f.time_end /\ g.size = f.size + sz
      /\ g.packets = Append(f.packets, p)
  <2>1. f.time_end \in Int /\ p \in Nat
    BY <1>1, <1>2
  <2> QED BY SMTT(30), <2>1, WithFacts
<1> HIDE DEF g
<1>4. /\ k \in Nat /\ Len(g.packets) = k + 1 /\ g.packets[k + 1] = p
      /\ \A j \in 1..(k + 1) : j = k + 1 \/ (j \in 1..k /\ g.packets[j] = f.packets[j])
  <2> DEFINE P == f.packets
             G == g.packets
  <2>1. P \in Seq(Nat) /\ p \in Nat /\ G = Append(P, p) /\ k = Len(P)
    BY <1>1, <1>2, <1>3
  <2> HIDE DEF P, G, k
  <2>2. /\ k \in Nat /\ Len(G) = k + 1 /\ G[k + 1] = p
        /\ \A j \in 1..(k + 1) : j = k + 1 \/ (j \in 1..k /\ G[j] = P[j])
    BY SMTT(30), <2>1
  <2> QED BY <2>2 DEF P, G
<1>5. f.packets = << >> => Len(g.packets) = 1
  BY SMTT(30), <1>4
<1> HIDE DEF k
<1>6. Good(g)
  <2>1. g.size > FrameMaxSize => f.packets = << >>
    BY SMTT(30), <1>1, <1>3, InputAssumption
  <2> QED BY <2>1, <1>1, <1>3, <1>5 DEF Good
<1>7. ~online /\ (\A q \in 1..p : t[q] <= t[p]) => f.time_start <= t[p]
  <2> SUFFICES ASSUME ~online, \A q \in 1..p : t[q] <= t[p] PROVE f.time_start <= t[p]
    OBVIOUS
  <2>1. PICK q \in 1..p : f.time_end <= t[q]
    BY DEF p
  <2>2. t[q] \in Int /\ t[p] \in Int /\ t[q] <= t[p]
    BY <1>2, LenFacts DEF p
  <2>3. \A a, b, c, d \in Int : a <= b /\ b <= c /\ c <= d => a <= d
    BY SMTT(30)
  <2> QED BY <2>1, <2>2, <2>3, <1>1
<1>8. Inside(g, t, online)
  BY <1>2, <1>3, <1>4, <1>7 DEF Inside, k, p
<1> QED BY <1>6, <1>8 DEF g, p

\* What the invariant says when a packet is to be appended.
LEMMA AppendNow ==
    ASSUME Framing, pc = "append"
    PROVE  /\ ts \in Seq(Int) /\ new = Len(ts) /\ new # 0 /\ new \in Nat /\ size[new] \in Nat
           /\ frame.time_start # NoTime /\ frame.time_end \in Int
           /\ ts[new] <= frame.time_end
           /\ ~Online => \E q \in 1..Len(ts) : frame.time_end <= ts[q]
           /\ Max2(frame.time_end, ts[new]) = frame.time_end
           /\ HoldInOrder(AllFrames, new - 1) /\ new - 1 \in Nat /\ (new - 1) + 1 = new
<1>1. Types /\ Control /\ Clock /\ Past /\ EveryPacketFramed
  BY DEF Framing
<1>2. /\ ts \in Seq(Int) /\ new = Len(ts) /\ new # 0 /\ new \in Nat
      /\ size \in Seq(Nat) /\ Len(size) = Len(ts) /\ ts[new] = target
      /\ frame.time_start # NoTime /\ target <= frame.time_end
  BY <1>1 DEF Types, Control, Clock, Placing
<1>3. frame.time_end \in Int
  BY <1>2, FrameNow
<1>4. /\ size[new] \in Nat /\ ts[new] \in Int /\ new - 1 \in Nat /\ (new - 1) + 1 = new
  BY SMTT(30), <1>2
<1>5. ~Online => \E q \in 1..Len(ts) : frame.time_end <= ts[q]
  BY <1>1, <1>3, InputAssumption DEF Past
<1>6. Max2(frame.time_end, ts[new]) = frame.time_end
  BY SMTT(30), <1>2, <1>3, <1>4 DEF Max2
<1>7. HoldInOrder(AllFrames, new - 1)
  BY <1>1, <1>2 DEF EveryPacketFramed
<1> QED BY <1>2, <1>3, <1>4, <1>5, <1>6, <1>7

LEMMA AppendFitsKept ==
    ASSUME Framing, AppendFits
    PROVE  Framing'
<1> DEFINE g == With(frame, new, frame.time_end, size[new])
<1>1. Types /\ Control /\ Clock /\ Past
  BY DEF Framing
<1>2. /\ out' = out /\ ts' = ts /\ size' = size /\ new' = 0
      /\ target' = target /\ return' = return /\ inputs' = inputs /\ now' = now
      /\ frame' = AppendPacket(frame) /\ pc = "append" /\ pc' = "loop"
      /\ frame.packets = << >> \/ frame.size + size[new] <= FrameMaxSize
  BY DEF AppendFits, Fits, outside, packets, queue
<1>3. /\ frame \in Frame /\ out \in Seq(Frame) /\ AllFrames = Append(out, frame)
      /\ Tiles(out) /\ Good(frame) /\ (out # << >> => frame.time_start = out[Len(out)].time_end)
      /\ AllInside(out, ts, Online) /\ Inside(frame, ts, Online)
  BY <1>2, FrameNow
<1>4. /\ ts \in Seq(Int) /\ new = Len(ts) /\ new # 0 /\ new \in Nat /\ size[new] \in Nat
      /\ frame.time_start # NoTime /\ frame.time_end \in Int
      /\ ts[new] <= frame.time_end
      /\ ~Online => \E q \in 1..Len(ts) : frame.time_end <= ts[q]
      /\ Max2(frame.time_end, ts[new]) = frame.time_end
      /\ HoldInOrder(AllFrames, new - 1) /\ new - 1 \in Nat /\ (new - 1) + 1 = new
  BY <1>2, AppendNow
<1>5. frame' = g
  BY <1>2, <1>4 DEF AppendPacket, With
<1>6. /\ g \in Frame /\ g.time_start = frame.time_start /\ g.time_end = frame.time_end
      /\ g.packets = Append(frame.packets, new)
  <2>1. frame \in Frame /\ new \in Nat /\ frame.time_end \in Int /\ size[new] \in Nat
    BY <1>3, <1>4
  <2> QED BY SMTT(30), <2>1, WithFacts
<1>7. Good(g) /\ Inside(g, ts, Online)
  <2>1. g = With(frame, Len(ts), frame.time_end, size[new])
    BY <1>4
  <2> HIDE DEF g
  <2> QED BY <2>1, <1>2, <1>3, <1>4, WithIsGood
<1> HIDE DEF g
<1>8. AllFrames' = Append(out, g) /\ (Online' <=> Online)
  BY <1>2, <1>3, <1>5, <1>6, FramesNext DEF Online
<1>9. Types' /\ Control' /\ Clock' /\ Past'
  BY <1>1, <1>2, <1>4, <1>5, <1>6, <1>8 DEF Types, Control, Clock, Past, Placing
<1>10. Tiles(AllFrames')
  BY <1>3, <1>6, <1>7, <1>8, TilesAppend
<1>11. AllInside(AllFrames', ts', Online')
  <2>1. AllInside(AllFrames', ts, Online)
    BY <1>3, <1>6, <1>7, <1>8, InsideAppend
  <2> QED BY <2>1, <1>2 DEF Online
<1>12. EveryPacketFramed'
  <2>1. HoldInOrder(AllFrames', (new - 1) + 1)
    BY <1>3, <1>4, <1>6, <1>8, HoldMore
  <2> QED BY <2>1, <1>2, <1>4 DEF EveryPacketFramed
<1> QED BY <1>9, <1>10, <1>11, <1>12 DEF Framing

LEMMA AppendToNextKept ==
    ASSUME Framing, AppendToNext
    PROVE  Framing'
<1> DEFINE e == frame.time_end
           h == NewFrame(e)
           g == With(h, new, e, size[new])
<1>1. Types /\ Control /\ Clock /\ Past
  BY DEF Framing
<1>2. /\ out' = Append(out, frame) /\ ts' = ts /\ size' = size /\ new' = 0
      /\ target' = target /\ return' = return /\ inputs' = inputs /\ now' = now
      /\ frame' = AppendPacket(h) /\ pc = "append" /\ pc' = "loop"
  BY DEF AppendToNext, Enqueue, outside, packets
<1>3. /\ frame \in Frame /\ out \in Seq(Frame) /\ AllFrames = Append(out, frame)
      /\ Tiles(AllFrames) /\ AllInside(AllFrames, ts, Online)
  BY <1>2, FrameNow DEF Framing
<1>4. /\ ts \in Seq(Int) /\ new = Len(ts) /\ new # 0 /\ new \in Nat /\ size[new] \in Nat
      /\ e \in Int /\ ts[new] <= e
      /\ ~Online => \E q \in 1..Len(ts) : e <= ts[q]
      /\ Max2(e, ts[new]) = e
      /\ HoldInOrder(AllFrames, new - 1) /\ new - 1 \in Nat /\ (new - 1) + 1 = new
  BY <1>2, AppendNow
<1> HIDE DEF e
<1>5. /\ h \in Frame /\ h.time_start = e /\ h.time_end = e /\ h.packets = << >> /\ e # NoTime
      /\ Good(h) /\ Inside(h, ts, Online)
  BY <1>4, NewFrameFacts, NewIsGood, InputAssumption
<1> HIDE DEF h
<1>6. frame' = g
  BY <1>2, <1>4, <1>5 DEF AppendPacket, With
<1>7. g \in Frame /\ g.time_start = e /\ g.time_end = e /\ g.packets = Append(h.packets, new)
  <2>1. h \in Frame /\ new \in Nat /\ e \in Int /\ size[new] \in Nat
    BY <1>4, <1>5
  <2>2. /\ g \in Frame /\ g.time_start = h.time_start /\ g.time_end = e
        /\ g.packets = Append(h.packets, new)
    BY SMTT(30), <2>1, WithFacts
  <2> QED BY <2>2, <1>5
<1>8. Good(g) /\ Inside(g, ts, Online)
  <2>1. g = With(h, Len(ts), h.time_end, size[new])
    BY <1>4, <1>5
  <2> HIDE DEF g
  <2> QED BY <2>1, <1>4, <1>5, WithIsGood
<1> HIDE DEF g
<1>9. out' \in Seq(Frame) /\ out' # << >> /\ out'[Len(out')] = frame
  BY SMTT(30), <1>2, <1>3
<1>10. AllFrames' = Append(out', g) /\ (Online' <=> Online)
  BY <1>2, <1>6, <1>7, <1>9, FramesNext DEF Online
<1>11. Types' /\ Control' /\ Clock' /\ Past'
  BY <1>1, <1>2, <1>4, <1>5, <1>6, <1>7, <1>9, <1>10 DEF Types, Control, Clock, Past, Placing
<1>12. Tiles(AllFrames')
  <2>1. Tiles(out')
    BY <1>2, <1>3
  <2> QED BY <2>1, <1>7, <1>8, <1>9, <1>10, TilesAppend DEF e
<1>13. AllInside(AllFrames', ts', Online')
  <2>1. AllInside(out', ts, Online)
    BY <1>2, <1>3
  <2>2. AllInside(AllFrames', ts, Online)
    BY <2>1, <1>7, <1>8, <1>9, <1>10, InsideAppend
  <2> QED BY <2>2, <1>2 DEF Online
<1>14. EveryPacketFramed'
  <2>1. HoldInOrder(Append(out', h), new - 1)
    BY <1>2, <1>3, <1>4, <1>5, <1>9, HoldEmpty
  <2>2. g.packets = Append(h.packets, (new - 1) + 1)
    BY <1>4, <1>7
  <2>3. HoldInOrder(AllFrames', (new - 1) + 1)
    BY <2>1, <2>2, <1>4, <1>5, <1>7, <1>9, <1>10, HoldMore
  <2> QED BY <2>3, <1>2, <1>4 DEF EveryPacketFramed
<1> QED BY <1>11, <1>12, <1>13, <1>14 DEF Framing

LEMMA FinishFrameKept ==
    ASSUME Framing, FinishFrame
    PROVE  Framing'
<1> DEFINE e == frame.time_end
<1>1. Types /\ Control /\ Clock /\ Past /\ EveryPacketFramed
  BY DEF Framing
<1>2. /\ out' = Append(out, frame) /\ ts' = ts /\ size' = size /\ new' = new
      /\ target' = target /\ return' = return /\ inputs' = inputs /\ now' = now
      /\ frame' = NewFrame(e) /\ pc = "finish" /\ pc' = "final"
  BY DEF FinishFrame, OutputFrame, Enqueue, outside, packets
<1>3. /\ frame \in Frame /\ out \in Seq(Frame) /\ AllFrames = Append(out, frame)
      /\ Tiles(AllFrames) /\ AllInside(AllFrames, ts, Online) /\ e \in Int \cup {NoTime}
  BY <1>2, FrameNow DEF Framing
<1>4. /\ frame' \in Frame /\ frame'.time_start = e /\ frame'.time_end = e
      /\ frame'.packets = << >> /\ Good(frame') /\ Inside(frame', ts, Online)
  BY <1>2, <1>3, NewFrameFacts, NewIsGood
<1>5. out' \in Seq(Frame) /\ out' # << >> /\ out'[Len(out')] = frame
  BY SMTT(30), <1>2, <1>3
<1>6. AllFrames' = Append(out', frame') /\ (Online' <=> Online)
  BY <1>2, <1>4, <1>5, FramesNext DEF Online
<1>7. Types' /\ Control' /\ Clock' /\ Past'
  BY <1>1, <1>2, <1>4, <1>5, <1>6 DEF Types, Control, Clock, Past, Placing
<1>8. Tiles(AllFrames')
  <2>1. Tiles(out')
    BY <1>2, <1>3
  <2> QED BY <2>1, <1>4, <1>5, <1>6, TilesAppend
<1>9. AllInside(AllFrames', ts', Online')
  <2>1. AllInside(out', ts, Online)
    BY <1>2, <1>3
  <2>2. AllInside(AllFrames', ts, Online)
    BY <2>1, <1>4, <1>5, <1>6, InsideAppend
  <2> QED BY <2>2, <1>2 DEF Online
<1>10. EveryPacketFramed'
  <2> DEFINE n == IF new = 0 THEN Len(ts) ELSE Len(ts) - 1
  <2>1. HoldInOrder(out', n)
    BY <1>1, <1>2, <1>3 DEF EveryPacketFramed
  <2> HIDE DEF n
  <2>2. HoldInOrder(AllFrames', n)
    BY <2>1, <1>4, <1>5, <1>6, HoldEmpty
  <2> QED BY <2>2, <1>2 DEF EveryPacketFramed, n
<1> QED BY <1>7, <1>8, <1>9, <1>10 DEF Framing

LEMMA FinishFinalKept ==
    ASSUME Framing, FinishFinal
    PROVE  Framing'
<1> DEFINE g == [frame EXCEPT !.type = 1]
<1>1. Types /\ Control /\ Clock /\ Past /\ EveryPacketFramed
  BY DEF Framing
<1>2. /\ out' = Append(out, g) /\ ts' = ts /\ size' = size /\ new' = new
      /\ target' = target /\ return' = return /\ inputs' = inputs /\ now' = now
      /\ frame' = NoFrame /\ pc = "final" /\ pc' = "done"
  BY DEF FinishFinal, Enqueue, outside, packets
<1>3. /\ frame \in Frame /\ out \in Seq(Frame) /\ AllFrames = Append(out, frame)
      /\ Tiles(out) /\ Good(frame) /\ (out # << >> => frame.time_start = out[Len(out)].time_end)
      /\ AllInside(out, ts, Online) /\ Inside(frame, ts, Online)
  BY <1>2, FrameNow
<1>4. /\ g \in Frame /\ g.time_start = frame.time_start /\ g.time_end = frame.time_end
      /\ g.size = frame.size /\ g.packets = frame.packets
  BY <1>3 DEF Frame
<1> HIDE DEF g
<1>5. AllFrames' = Append(out, g) /\ out' \in Seq(Frame) /\ (Online' <=> Online)
  BY <1>2, <1>3, <1>4, AppendFacts DEF AllFrames, Online
<1>6. Types' /\ Control' /\ Clock' /\ Past'
  BY <1>1, <1>2, <1>5 DEF Types, Control, Clock, Past, Placing
<1>7. Good(g) /\ Inside(g, ts, Online)
  BY <1>3, <1>4 DEF Good, Inside
<1>8. Tiles(AllFrames')
  BY <1>3, <1>4, <1>5, <1>7, TilesAppend
<1>9. AllInside(AllFrames', ts', Online')
  <2>1. AllInside(AllFrames', ts, Online)
    BY <1>3, <1>4, <1>5, <1>7, InsideAppend
  <2> QED BY <2>1, <1>2 DEF Online
<1>10. EveryPacketFramed'
  BY <1>1, <1>2, <1>3, <1>4, <1>5, HoldLast DEF EveryPacketFramed
<1> QED BY <1>6, <1>8, <1>9, <1>10 DEF Framing

-----------------------------------------------------------------------------
\* The kinds of steps.
LEMMA Kinds ==
    ASSUME Move
    PROVE  \/ Quiet \/ Opening
           \/ \E time \in Times, sz \in Sizes : EventPacket(time, sz)
           \/ EventSleep /\ Behind
           \/ AdvanceOutput \/ AdvanceDone \/ AppendFits \/ AppendToNext
           \/ FinishFrame \/ FinishFinal
BY DEF Move, Step, Quiet, Opening

\* Reports move what was counted to the total; reading a packet counts it.
LEMMA CountsKept ==
    ASSUME Counts, Move
    PROVE  Counts'
<1> DEFINE c == current_packets_read
           t == total_packets_read
<1>1. /\ c \in Nat /\ t \in Nat /\ seen \in Nat /\ t + c = seen
  BY DEF Counts, ReportsCountAll
<1>2. \/ c' = c /\ t' = t /\ seen' = seen
      \/ c' = 0 /\ t' = t + c /\ seen' = seen
      \/ c' = c + 1 /\ t' = t /\ seen' = seen + 1
  <2> USE DEF libtrace, stats, queue, packets, outside, dumpFile, Report
  <2>1. CASE Quiet
    <3> USE DEF Still
    <3>1. CASE FileOpens \/ FileMissing \/ FilesDone \/ CreateFails \/ SelectFails \/ WakeUp
      BY <3>1 DEF FileOpens, FileMissing, FilesDone, CreateFails, SelectFails, WakeUp
    <3>2. CASE Interrupted \/ EventTerminate
      BY <3>2 DEF Interrupted, EventTerminate
    <3>3. CASE EventBadPacket \/ EventSleep
      BY <3>3 DEF EventBadPacket, EventSleep
    <3>4. CASE Take \/ Tick \/ SigintHandler \/ Still
      BY <3>4 DEF Take, Tick, SigintHandler
    <3> QED BY <2>1, <3>1, <3>2, <3>3, <3>4 DEF Quiet
  <2>2. CASE Opening
    BY <2>2 DEF Opening, ConfigFails, FilterAsserts, FilterFails, StartFails, OpenSucceeds
  <2>3. CASE (\E time \in Times, sz \in Sizes : EventPacket(time, sz)) \/ EventSleep
    BY <2>3 DEF EventPacket, EventSleep
  <2>4. CASE AdvanceOutput \/ FinishFrame
    BY <2>4 DEF AdvanceOutput, FinishFrame, OutputFrame
  <2>5. CASE AdvanceDone \/ AppendFits \/ AppendToNext \/ FinishFinal
    BY <2>5 DEF AdvanceDone, AppendFits, AppendToNext, FinishFinal
  <2> QED BY <2>1, <2>2, <2>3, <2>4, <2>5, Kinds
<1> HIDE DEF c, t
<1>3. c' \in Nat /\ t' \in Nat /\ seen' \in Nat /\ t' + c' = seen'
  BY SMTT(30), <1>1, <1>2
<1> QED BY <1>3 DEF Counts, ReportsCountAll, c, t

\* A trace is open, with its packet and its filter, from the success of
\* dns_input_trace_open to dns_input_trace_close.
LEMMA TraceKept ==
    ASSUME Control, TraceReleased, Move
    PROVE  TraceReleased'
<1> SUFFICES ASSUME pc' \notin {"dead", "aborted"} PROVE TraceReleased'
  BY DEF TraceReleased
<1> USE DEF libtrace, TraceReleased
<1>1. CASE Quiet
  <2>1. CASE FileOpens \/ FileMissing \/ FilesDone \/ CreateFails \/ WakeUp
    BY <2>1 DEF FileOpens, FileMissing, FilesDone, CreateFails, WakeUp, NextInput
  <2>2. CASE Interrupted \/ EventTerminate \/ SelectFails
    BY <2>2 DEF Interrupted, EventTerminate, SelectFails, TraceClose, NextInput
  <2>3. CASE EventBadPacket
    BY <2>3 DEF EventBadPacket
  <2>4. CASE EventSleep /\ ~Behind
    BY <2>4 DEF EventSleep
  <2>5. CASE Take \/ Tick \/ Still
    BY <2>5 DEF Take, Tick, Still
  <2>6. CASE SigintHandler
    BY <2>6 DEF SigintHandler
  <2> QED BY <1>1, <2>1, <2>2, <2>3, <2>4, <2>5, <2>6 DEF Quiet
<1>2. CASE Opening
  <2>1. CASE ConfigFails \/ FilterAsserts \/ FilterFails \/ StartFails
    BY <2>1 DEF ConfigFails, FilterAsserts, FilterFails, StartFails, NextInput
  <2>2. CASE OpenSucceeds
    BY <2>2 DEF OpenSucceeds
  <2> QED BY <1>2, <2>1, <2>2 DEF Opening
<1>3. CASE (\E time \in Times, sz \in Sizes : EventPacket(time, sz)) \/ (EventSleep /\ Behind)
  BY <1>3 DEF EventPacket, EventSleep, AdvanceTimeTo
<1>4. CASE AdvanceOutput
  BY <1>4 DEF AdvanceOutput
<1>5. CASE AdvanceDone
  BY <1>5 DEF AdvanceDone, Control
<1>6. CASE AppendFits \/ AppendToNext
  BY <1>6 DEF AppendFits, AppendToNext
<1>7. CASE FinishFrame \/ FinishFinal
  BY <1>7 DEF FinishFrame, FinishFinal
<1> QED BY <1>1, <1>2, <1>3, <1>4, <1>5, <1>6, <1>7, Kinds

\* The dumper goes when a dump fails and when the input is done.
LEMMA DumpingKept ==
    ASSUME Framing, Dumping, Move
    PROVE  Dumping'
<1>1. ASSUME dumpFile' = dumpFile, pc \notin {"aborted", "done"}, pc' # "done"
      PROVE  Dumping'
  BY <1>1 DEF Dumping, dumpFile
<1>2. ASSUME dumpFile' = dumpFile, pc' = pc
      PROVE  Dumping'
  BY <1>2 DEF Dumping, dumpFile
<1>3. CASE Quiet
  <2>1. CASE FileOpens \/ FileMissing \/ FilesDone \/ CreateFails \/ WakeUp
    BY <1>1, <2>1 DEF FileOpens, FileMissing, FilesDone, CreateFails, WakeUp, NextInput
  <2>2. CASE Interrupted \/ EventTerminate \/ SelectFails
    BY <1>1, <2>2 DEF Interrupted, EventTerminate, SelectFails, NextInput
  <2>3. CASE EventBadPacket
    <3>1. /\ pc = "loop" /\ pc' = IF dumper' = "aborted" THEN "aborted" ELSE "loop"
          /\ DumpPacketFile \/ dumpFile' = dumpFile
      BY <2>3 DEF EventBadPacket
    <3> QED BY <3>1 DEF DumpPacketFile, Dumping, dumpFile
  <2>4. CASE EventSleep /\ ~Behind
    BY <1>1, <2>4 DEF EventSleep
  <2>5. CASE Take \/ Tick \/ Still
    BY <1>2, <2>5 DEF Take, Tick, Still
  <2>6. CASE SigintHandler
    BY <1>1, <1>2, <2>6 DEF SigintHandler, Ended
  <2> QED BY <1>3, <2>1, <2>2, <2>3, <2>4, <2>5, <2>6 DEF Quiet
<1>4. CASE Opening
  BY <1>1, <1>4 DEF Opening, ConfigFails, FilterAsserts, FilterFails, StartFails, OpenSucceeds, NextInput
<1>5. CASE (\E time \in Times, sz \in Sizes : EventPacket(time, sz)) \/ (EventSleep /\ Behind)
  BY <1>1, <1>5 DEF EventPacket, EventSleep, AdvanceTimeTo
<1>6. CASE AdvanceOutput \/ AppendFits \/ AppendToNext \/ FinishFrame
  BY <1>1, <1>6 DEF AdvanceOutput, AppendFits, AppendToNext, FinishFrame
<1>7. CASE AdvanceDone
  <2>1. return \in {"append", "sleep"}
    BY <1>7 DEF AdvanceDone, Framing, Control
  <2> QED BY <2>1, <1>1, <1>7 DEF AdvanceDone
<1>8. CASE FinishFinal
  <2>1. /\ pc = "final" /\ pc' = "done"
        /\ IF dumper = "on" THEN DumpCloseFile ELSE dumpFile' = dumpFile
    BY <1>8 DEF FinishFinal
  <2> QED BY <2>1 DEF DumpCloseFile, Dumping, dumpFile
<1> QED BY <1>3, <1>4, <1>5, <1>6, <1>7, <1>8, Kinds

\* A frame of type 0 goes to the end of the queue, if any.
LEMMA FinalsAppend ==
    ASSUME NEW s \in Seq(Frame), NEW f \in Frame, InARow(f), f.type = 1 => f.packets = << >>,
           \A i \in 1..Len(s) : InARow(s[i]) /\ s[i].type = 0
    PROVE  /\ \A i \in 1..Len(Append(s, f)) : InARow(Append(s, f)[i])
           /\ f.type = 0 => \A i \in 1..Len(Append(s, f)) : Append(s, f)[i].type = 0
           /\ \A i \in 1..Len(Append(s, f)) : Append(s, f)[i].type = 1 =>
                  i = Len(Append(s, f)) /\ Append(s, f)[i].packets = << >>
<1>1. /\ Len(s) \in Nat /\ Len(Append(s, f)) = Len(s) + 1 /\ Append(s, f)[Len(s) + 1] = f
      /\ \A i \in 1..Len(s) : Append(s, f)[i] = s[i]
  BY SMTT(30)
<1>2. \A i : i \in 1..(Len(s) + 1) => i \in 1..Len(s) \/ i = Len(s) + 1
  BY SMTT(30), <1>1
<1> QED BY SMTT(30), <1>1, <1>2

LEMMA RowEmpty == \A f : f.packets = << >> => InARow(f)
<1>1. 1..Len(<< >>) = {}
  BY SMTT(30)
<1> QED BY <1>1 DEF InARow

\* Only dns_input_finish makes the final frame, after the last one with packets.
LEMMA FinalsKept ==
    ASSUME Framing, Framing', Finals, Move
    PROVE  Finals'
<1>1. CASE pc = "done"
  <2>1. Quiet
    BY <1>1, Kinds DEF Opening, ConfigFails, FilterAsserts, FilterFails, StartFails, OpenSucceeds,
       EventPacket, EventSleep, AdvanceOutput, AdvanceDone, AppendFits, AppendToNext,
       FinishFrame, FinishFinal
  <2>2. out' = out /\ pc' = "done"
    BY <2>1, <1>1, QuietFacts DEF Between, Ended
  <2> QED BY <2>2, <1>1 DEF Finals
<1>2. SUFFICES ASSUME pc # "done" PROVE Finals'
  BY <1>1
<1>3. /\ frame \in Frame /\ out \in Seq(Frame) /\ frame.type = 0 /\ InARow(frame)
      /\ \A i \in 1..Len(out) : InARow(out[i]) /\ out[i].type = 0
      /\ frame.time_start \in Int \cup {NoTime} /\ frame.time_end \in Int \cup {NoTime}
  BY <1>2, FrameNow DEF Finals
<1>4. ASSUME NEW f \in Frame, f.type = 0, InARow(f), frame' = f, out' = out, pc' \notin {"final", "done"}
      PROVE  Finals'
  BY <1>3, <1>4 DEF Finals
<1>5. ASSUME NEW f \in Frame, f.type = 0, InARow(f), NEW g \in Frame, g.type = 0, InARow(g),
             frame' = f, out' = Append(out, g), pc' # "done", pc' = "final" => f.packets = << >>
      PROVE  Finals'
  BY SMTT(30), <1>3, <1>5, FinalsAppend DEF Finals
<1>6. \A time \in Int \cup {NoTime} : /\ NewFrame(time) \in Frame /\ NewFrame(time).type = 0
                                        /\ InARow(NewFrame(time)) /\ NewFrame(time).packets = << >>
  BY NewFrameFacts, RowEmpty DEF NewFrame
<1>7. CASE Quiet
  <2>1. frame' = frame /\ out' = out /\ pc' # "done" /\ (pc' = "final" => pc = "final")
    BY <1>2, <1>7, QuietFacts DEF Between, Ended
  <2> QED BY <2>1, <1>2 DEF Finals
<1>8. CASE Opening
  <2>1. /\ out' = out /\ pc' \notin {"final", "done"} /\ now \in Int \cup {NoTime}
        /\ frame' = frame \/ frame' = NewFrame(now)
    BY <1>8, OpeningFacts DEF Framing, Types
  <2> QED BY <2>1, <1>3, <1>4, <1>6
<1>9. ASSUME NEW time \in Int, NEW l, AdvanceTimeTo(time, l), out' = out
      PROVE  Finals'
  <2>1. pc' = "advance" /\ (frame' = frame \/ frame' = StartAt(frame, time))
    BY <1>9 DEF AdvanceTimeTo, StartAt
  <2>2. /\ StartAt(frame, time) \in Frame /\ StartAt(frame, time).packets = frame.packets
        /\ StartAt(frame, time).type = frame.type
    BY <1>3, StartFacts DEF StartAt, Frame
  <2>3. InARow(StartAt(frame, time))
    BY <2>2, <1>3 DEF InARow
  <2>4. StartAt(frame, time).type = 0
    BY <2>2, <1>3
  <2> QED BY <2>1, <2>2, <2>3, <2>4, <1>3, <1>4, <1>9
<1>10. CASE \E time \in Times, sz \in Sizes : EventPacket(time, sz)
  BY <1>9, <1>10, InputAssumption DEF EventPacket, queue
<1>11. CASE EventSleep /\ Behind
  <2>1. now - RealTimeGrace \in Int
    BY SMTT(30), InputAssumption DEF Framing, Types
  <2> QED BY <2>1, <1>9, <1>11 DEF EventSleep, queue
<1>12. ASSUME NEW f \in Frame, NEW time \in Int \cup {NoTime}, NEW g, g = EndAt(f, time), f.type = 0, InARow(f)
       PROVE  g \in Frame /\ g.type = 0 /\ InARow(g)
  BY <1>12, EndFacts DEF EndAt, Frame, InARow
<1>13. CASE AdvanceOutput
  <2> DEFINE time == frame.time_start + FrameMaxDuration
             g == EndAt(frame, time)
  <2>1. pc = "advance" /\ pc' = "advance" /\ out' = Append(out, g) /\ frame' = NewFrame(g.time_end)
    BY <1>13 DEF AdvanceOutput, OutputFrame, Enqueue, EndAt
  <2>2. time \in Int
    <3>1. frame.time_start \in Int
      BY <2>1, <1>3 DEF Framing, Control
    <3> QED BY SMTT(30), <3>1, InputAssumption
  <2>3. g \in Frame /\ g.type = 0 /\ InARow(g) /\ g.time_end \in Int
    <3> HIDE DEF time
    <3>1. g \in Frame /\ g.time_end = time
      BY <2>2, <1>3, EndFacts
    <3>2. time \in Int \cup {NoTime}
      BY <2>2
    <3> QED BY <3>1, <3>2, <2>2, <1>3, <1>12
  <2> HIDE DEF g
  <2> QED BY <2>1, <2>3, <1>5, <1>6
<1>14. CASE AdvanceDone
  <2>1. PICK time \in Int \cup {NoTime} : frame' = EndAt(frame, time)
    <3>1. frame' = EndAt(frame, Max2(frame.time_end, target))
      BY <1>14 DEF AdvanceDone, EndAt
    <3>2. target \in Int
      BY <1>14 DEF AdvanceDone, Framing, Control
    <3>3. Max2(frame.time_end, target) \in Int \cup {NoTime}
      BY <3>2, <1>3 DEF Max2
    <3> QED BY <3>1, <3>3
  <2>2. out' = out /\ pc' \notin {"final", "done"}
    BY <1>14 DEF AdvanceDone, queue, Framing, Control
  <2>3. frame' \in Frame /\ frame'.type = 0 /\ InARow(frame)'
    BY SMTT(30), <2>1, <1>3, <1>12 DEF InARow
  <2> QED BY <2>2, <2>3, <1>3 DEF Finals
<1>15. CASE AppendFits
  <2> DEFINE g == With(frame, new, frame.time_end, size[new])
  <2>1. out' = out /\ pc = "append" /\ pc' = "loop" /\ frame' = AppendPacket(frame)
    BY <1>15 DEF AppendFits, queue
  <2>2. /\ new \in Nat /\ size[new] \in Nat /\ frame.time_end \in Int
        /\ Max2(frame.time_end, ts[new]) = frame.time_end
        /\ HoldInOrder(AllFrames, new - 1) /\ new - 1 \in Nat /\ (new - 1) + 1 = new
        /\ AllFrames = Append(out, frame)
    BY <2>1, <1>2, AppendNow, FrameNow
  <2>3. frame' = g
    BY <2>1, <2>2 DEF AppendPacket, With
  <2>4. g \in Frame /\ g.packets = Append(frame.packets, (new - 1) + 1) /\ g.type = frame.type
    <3>0. frame \in Frame /\ new \in Nat /\ size[new] \in Nat /\ frame.time_end \in Int
      BY <2>2, <1>3
    <3>1. g \in Frame /\ g.packets = Append(frame.packets, new)
      BY SMTT(30), <3>0, WithFacts
    <3>2. g.type = frame.type
      BY <1>3 DEF With, Frame
    <3> QED BY <3>1, <3>2, <2>2
  <2> HIDE DEF g
  <2>5. InARow(g)
    BY <2>2, <2>4, <1>3, RowMore
  <2> QED BY <2>1, <2>3, <2>4, <2>5, <1>3, <1>4
<1>16. CASE AppendToNext
  <2> DEFINE h == NewFrame(frame.time_end)
             g == With(h, new, frame.time_end, size[new])
  <2>1. /\ out' = Append(out, frame) /\ pc = "append" /\ pc' = "loop"
        /\ frame' = AppendPacket(NewFrame(frame.time_end))
    BY <1>16 DEF AppendToNext, Enqueue
  <2>2. /\ new \in Nat /\ size[new] \in Nat /\ frame.time_end \in Int
        /\ Max2(frame.time_end, ts[new]) = frame.time_end
    BY <2>1, AppendNow
  <2>3. h \in Frame /\ h.type = 0 /\ h.packets = << >> /\ h.time_end = frame.time_end
    BY <1>3, NewFrameFacts DEF NewFrame
  <2> HIDE DEF h
  <2>4. frame' = g
    BY <2>1, <2>2, <2>3 DEF AppendPacket, With, h
  <2>5. g \in Frame /\ g.packets = Append(<< >>, new) /\ g.type = 0
    <3>1. g \in Frame /\ g.packets = Append(<< >>, new)
      BY SMTT(30), <2>2, <2>3, WithFacts
    <3>2. g.type = 0
      BY <2>3 DEF With, Frame
    <3> QED BY <3>1, <3>2
  <2> HIDE DEF g
  <2>6. InARow(g)
    <3>1. Len(g.packets) = 1 /\ g.packets[1] = new
      BY SMTT(30), <2>2, <2>5
    <3> QED BY SMTT(30), <3>1, <2>2 DEF InARow
  <2> QED BY <2>1, <2>4, <2>5, <2>6, <1>3, <1>5
<1>17. CASE FinishFrame
  <2>1. out' = Append(out, frame) /\ frame' = NewFrame(frame.time_end) /\ pc' = "final"
    BY <1>17 DEF FinishFrame, OutputFrame, Enqueue
  <2> QED BY <2>1, <1>3, <1>5, <1>6
<1>18. CASE FinishFinal
  <2> DEFINE g == [frame EXCEPT !.type = 1]
  <2>1. out' = Append(out, g) /\ pc = "final" /\ pc' = "done"
    BY <1>18 DEF FinishFinal, Enqueue
  <2>2. g \in Frame /\ g.type = 1 /\ g.packets = << >>
    BY <2>1, <1>3 DEF Frame, Finals
  <2> HIDE DEF g
  <2> QED BY <2>1, <2>2, <1>3, FinalsAppend, RowEmpty DEF Finals
<1> QED BY <1>7, <1>8, <1>10, <1>11, <1>13, <1>14, <1>15, <1>16, <1>17, <1>18, Kinds

LEMMA InitIInv == Init => IInv
<1> SUFFICES ASSUME Init PROVE IInv
  OBVIOUS
<1>1. /\ inputs \in Nat /\ now = 0 /\ new = 0 /\ out = << >> /\ frame = NewFrame(NoTime)
      /\ ts = << >> /\ size = << >> /\ seen = 0
      /\ current_packets_read = 0 /\ total_packets_read = 0
      /\ trace = FALSE /\ packet = FALSE /\ bpf_filter = FALSE /\ return = "loop"
      /\ Online => pc = "open"
      /\ ~Online => pc = "file"
  BY InputAssumption DEF Init
<1>2. /\ \A S : << >> \in Seq(S)
      /\ Len(<< >>) = 0 /\ 1..0 = {} /\ 0 + 0 = 0 /\ 0 \in Nat /\ 0 \in Int
  BY SMTT(30)
<1>3. /\ frame \in Frame /\ frame.time_start = NoTime /\ frame.time_end = NoTime
      /\ frame.packets = << >> /\ Good(frame) /\ Inside(frame, ts, Online)
  BY <1>1, NewFrameFacts, NewIsGood
<1>4. out \in Seq(Frame) /\ AllFrames = Append(out, frame)
  BY <1>1, <1>2, <1>3, FrameFields DEF AllFrames
<1>5. Types /\ Control /\ Clock /\ Past
  BY <1>1, <1>2, <1>3 DEF Types, Control, Clock, Past, Placing
<1>6. Tiles(AllFrames)
  <2>1. Tiles(<< >>)
    BY SMTT(30) DEF Tiles
  <2> QED BY <2>1, <1>1, <1>3, <1>4, TilesAppend
<1>7. AllInside(AllFrames, ts, Online)
  <2>1. AllInside(<< >>, ts, Online)
    BY <1>2 DEF AllInside
  <2> QED BY <2>1, <1>1, <1>3, <1>4, InsideAppend
<1>8. EveryPacketFramed
  <2>1. HoldInOrder(<< >>, 0)
    BY <1>2 DEF HoldInOrder
  <2>2. HoldInOrder(AllFrames, 0)
    BY <2>1, <1>1, <1>3, <1>4, HoldEmpty
  <2> QED BY <2>2, <1>1, <1>2 DEF EveryPacketFramed
<1>9. Counts /\ TraceReleased
  BY <1>1, <1>2 DEF Counts, ReportsCountAll, TraceReleased
<1>10. Finals /\ Dumping
  BY <1>1, <1>2, <1>3 DEF Init, DumpFileInit, Finals, Dumping, InARow, NewFrame
<1> QED BY <1>5, <1>6, <1>7, <1>8, <1>9, <1>10 DEF IInv, Framing

LEMMA MoveIInv == IInv /\ Move => IInv'
<1> SUFFICES ASSUME IInv, Move PROVE IInv'
  OBVIOUS
<1>1. Framing /\ Counts /\ TraceReleased /\ Control /\ Finals /\ Dumping
  BY DEF IInv, Framing
<1>2. Framing'
  BY <1>1, Kinds, QuietKept, OpenKept, PacketKept, CatchUpKept, AdvanceOutputKept,
     AdvanceDoneKept, AppendFitsKept, AppendToNextKept, FinishFrameKept, FinishFinalKept
<1>3. Counts' /\ TraceReleased'
  BY <1>1, CountsKept, TraceKept
<1>4. Finals' /\ Dumping'
  BY <1>1, <1>2, FinalsKept, DumpingKept
<1> QED BY <1>2, <1>3, <1>4 DEF IInv

LEMMA StepIInv == IInv /\ [Next]_vars => IInv'
<1>1. [Next]_vars => Move
  BY DEF Next, Terminated, Move, Still, vars, outside
<1> QED BY <1>1, MoveIInv

\* What the matcher and main rely on: the frames in the queue, and that nothing is
\* left in the input when it is done.
LEMMA InputHandsOver ==
    IInv => /\ InputHands(out, ts, size, NoTime, pc = "done")
            /\ pc = "done" => ~trace /\ ~packet /\ frame = NoFrame /\ ~dtrace
<1> SUFFICES ASSUME IInv
             PROVE  /\ InputHands(out, ts, size, NoTime, pc = "done")
                    /\ pc = "done" => ~trace /\ ~packet /\ frame = NoFrame /\ ~dtrace
  OBVIOUS
<1>1. /\ Types /\ Control /\ Tiles(AllFrames) /\ EveryPacketFramed
      /\ TraceReleased /\ Finals /\ Dumping
  BY DEF IInv, Framing
<1>2. /\ out \in Seq(Frame) /\ ts \in Seq(Int) /\ size \in Seq(Nat) /\ Len(size) = Len(ts)
      /\ frame = NoFrame \/ frame \in Frame
      /\ pc = "done" => frame = NoFrame /\ new = 0
  BY <1>1 DEF Types, Control, Placing
<1> DEFINE n == IF new = 0 THEN Len(ts) ELSE Len(ts) - 1
<1>3. HoldInOrder(AllFrames, n) /\ Len(ts) \in Nat /\ (pc = "done" => n = Len(ts) /\ AllFrames = out)
  BY <1>1, <1>2, LenFacts DEF EveryPacketFramed, AllFrames
<1>4. n \in Nat /\ 1..n \subseteq 1..Len(ts)
  <2>1. new # 0 => Len(ts) # 0
    BY <1>1 DEF Control
  <2> QED BY SMTT(30), <2>1, <1>3
<1>5. /\ AllFrames \in Seq(Frame) /\ Len(out) \in Nat /\ Len(AllFrames) \in Nat
      /\ \A i \in 1..Len(out) : i \in 1..Len(AllFrames) /\ AllFrames[i] = out[i]
  <2>1. CASE frame = NoFrame
    BY <2>1, <1>2, LenFacts DEF AllFrames
  <2>2. CASE frame # NoFrame
    <3>1. frame \in Frame /\ AllFrames = Append(out, frame)
      BY <2>2, <1>2 DEF AllFrames
    <3> QED BY SMTT(30), <3>1, <1>2
  <2> QED BY <2>1, <2>2
<1> HIDE DEF n
<1>6. \A i \in 1..Len(out) :
        /\ out[i] \in Frame /\ Good(out[i]) /\ InARow(out[i])
        /\ out[i].type = 1 => i = Len(out) /\ out[i].packets = << >>
        /\ \A j \in 1..Len(out[i].packets) : out[i].packets[j] \in 1..Len(ts)
  <2> SUFFICES ASSUME NEW i \in 1..Len(out)
               PROVE  /\ out[i] \in Frame /\ Good(out[i]) /\ InARow(out[i])
                      /\ out[i].type = 1 => i = Len(out) /\ out[i].packets = << >>
                      /\ \A j \in 1..Len(out[i].packets) : out[i].packets[j] \in 1..Len(ts)
    OBVIOUS
  <2>1. out[i] \in Frame
    BY <1>2, LenFacts
  <2>2. i \in 1..Len(AllFrames) /\ AllFrames[i] = out[i]
    BY <1>5
  <2>3. Good(out[i])
    BY <2>2, <1>1 DEF Tiles
  <2>4. InARow(out[i]) /\ (out[i].type = 1 => i = Len(out) /\ out[i].packets = << >>)
    BY <1>1 DEF Finals
  <2>5. \A j \in 1..Len(AllFrames[i].packets) : AllFrames[i].packets[j] \in 1..n
    BY <2>2, <1>3 DEF HoldInOrder
  <2> QED BY <2>1, <2>2, <2>3, <2>4, <2>5, <1>4
<1>7. \A k \in 1..Len(out), m \in Nat : Holds(out, k - 1, m) =>
        \A j \in 1..Len(out[k].packets) : out[k].packets[j] = m + j
  <2> SUFFICES ASSUME NEW k \in 1..Len(out), NEW m \in Nat, Holds(out, k - 1, m)
               PROVE  \A j \in 1..Len(out[k].packets) : out[k].packets[j] = m + j
    OBVIOUS
  <2>1. \A i \in 1..(k - 1) : i \in 1..Len(out)
    BY SMTT(30), <1>5
  <2>2. k \in 1..Len(AllFrames) /\ AllFrames[k] = out[k] /\ InARow(AllFrames[k])
    BY <1>5, <1>6
  <2>3. \A i \in 1..(k - 1) : AllFrames[i] = out[i]
    BY <2>1, <1>5
  <2>4. Holds(AllFrames, k - 1, m)
    BY <2>3, HoldsSame
  <2>5. \A j \in 1..Len(AllFrames[k].packets) : AllFrames[k].packets[j] = m + j
    <3> HIDE DEF AllFrames
    <3> QED BY <2>2, <2>4, <1>3, <1>4, <1>5, RowsJoin
  <2> QED BY <2>2, <2>5
<1>8. pc = "done" => Holds(out, Len(out), Len(ts))
  BY <1>3 DEF HoldInOrder, Holds
<1>9. \A i \in 1..Len(out) :
        /\ out[i].time_start = NoTime <=> out[i].time_end = NoTime
        /\ out[i].packets # << >> => out[i].time_start # NoTime /\ out[i].type = 0
  <2>1. \A i \in 1..Len(out) : out[i].type \in {0, 1}
    BY <1>6 DEF Frame
  <2> QED BY <2>1, <1>6 DEF Good
<1>10. InputHands(out, ts, size, NoTime, pc = "done")
  BY <1>2, <1>6, <1>7, <1>8, <1>9 DEF InputHands, Frame
<1>11. pc = "done" => ~trace /\ ~packet /\ frame = NoFrame /\ ~dtrace
  BY <1>1, <1>2 DEF TraceReleased, Dumping
<1> QED BY <1>10, <1>11

\* The inductive invariant of the input.
THEOREM InputInvariant == Spec => []IInv
BY InitIInv, StepIInv, PTL DEF Spec

\* The frames of dns_input_advance_time_to and dns_input_output_frame tile time, are
\* no longer than FrameMaxDuration and, but for one large packet, no larger than
\* FrameMaxSize.
THEOREM FramesOfInputTile == Spec => []FramesTile
<1>1. IInv => FramesTile
  <2> SUFFICES ASSUME Tiles(AllFrames) PROVE FramesTile
    BY DEF IInv, Framing
  <2>1. \A i \in 1..Len(AllFrames) : Good(AllFrames[i])
    BY DEF Tiles
  <2>2. \A i \in 1..(Len(AllFrames) - 1) : AllFrames[i + 1].time_start = AllFrames[i].time_end
    BY DEF Tiles
  <2> HIDE DEF AllFrames
  <2> QED BY <2>1, <2>2 DEF FramesTile, Good
<1> QED BY <1>1, InputInvariant, PTL

\* dns_input_process_read_packet puts every packet into one frame, in the order read.
THEOREM AllPacketsFramed == Spec => []EveryPacketFramed
<1>1. IInv => EveryPacketFramed
  BY DEF IInv, Framing
<1> QED BY <1>1, InputInvariant, PTL

\* A packet is not after the end of its frame, and of pcap files in order of time not
\* before its start.
THEOREM PacketsInFrameTime == Spec => []InFrameTime
<1>1. IInv => InFrameTime
  <2> SUFFICES ASSUME AllInside(AllFrames, ts, Online) PROVE InFrameTime
    BY DEF IInv, Framing
  <2> QED BY DEF AllInside, Inside, InFrameTime
<1> QED BY <1>1, InputInvariant, PTL

\* dns_input_report loses no packet.
THEOREM AllReported == Spec => []ReportsCountAll
<1>1. IInv => ReportsCountAll
  BY DEF IInv, Counts
<1> QED BY <1>1, InputInvariant, PTL

\* The trace is released on every way out of dns_input_process.
THEOREM TraceClosed == Spec => []TraceReleased
<1>1. IInv => TraceReleased
  BY DEF IInv
<1> QED BY <1>1, InputInvariant, PTL

=============================================================================
