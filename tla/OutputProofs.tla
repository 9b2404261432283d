---------------------------- MODULE OutputProofs ----------------------------
(***************************************************************************)
(* The safety of the output thread, for every period, every sequence of    *)
(* frames, and whatever the subprocess, the disk and the user do.          *)
(***************************************************************************)
EXTENDS Output, SequenceLemmas, FiniteSetTheorems, Handover

Item == [id : Nat, ts : Int, request : BOOLEAN, response : Nat]
Record == [file : Nat, item : Item]
Counters == [items : Nat, request_only : Nat, response_only : Nat]

Types == /\ period_sec \in Int /\ current \in Counters /\ total \in Counters
         /\ todo \in Seq(Item) /\ files \in Seq(Int) /\ written \in Seq(Record)
         /\ received.packets \in Seq(Item)

\* Where the thread is decides what there is: a subprocess goes with a file or is
\* being waited for, a buffer goes with a file, and only the end of main leaves
\* nothing to do.
Control ==
    opc # "dead" =>
        /\ opc \in {"dequeue", "check", "wait", "final", "done"}
        /\ subprocess # "none" => pipe_cmd /\ (out_file \/ opc = "wait")
        /\ out_file /\ pipe_cmd => subprocess # "none"
        /\ buffered => out_file
        /\ opc \in {"wait", "done"} => ~out_file
        /\ opc \in {"final", "done"} => ~run
        /\ ~run => opc \in {"final", "wait", "done"} /\ todo = << >>
        /\ opc = "dequeue" => todo = << >>

\* A subprocess that failed is there until it is waited for, and a write is
\* refused only after SIGINT.
Damage ==
    opc # "dead" /\ pipe_cmd =>
        \A d \in damaged :
            /\ d.how \in {"failed", "refused", "unread"}
            /\ d.how = "failed" => d.file = Len(files) /\ subprocess = "failed"
            /\ d.how = "refused" => dns_global_stop

\* An open file is the last one; a file is closed, before the end, only because
\* the packet to be written is past its period.
Rotation ==
    /\ out_file => files # << >> /\ output_opened = files[Len(files)]
    /\ ~out_file /\ files # << >> /\ opc # "dead" /\ run =>
         /\ opc \in {"check", "wait"} /\ todo # << >>
         /\ period_sec > 0 /\ Head(todo).ts > files[Len(files)] + period_sec
    /\ \A i \in 1..Len(written) : written[i].file \in 1..Len(files)

\* Only the first thing to do may be the start of a frame.
Packing == \A i \in 1..Len(todo) : i > 1 => todo[i].id # 0

IInv == Types /\ Control /\ Damage /\ Rotation /\ Packing
        /\ FilesRotate /\ WrittenInOrder /\ RecordsCounted

\* Most steps are of first-order logic and sets, which Zenon settles faster than SMT.
USE Zenon, SMTT(30)
-----------------------------------------------------------------------------
\* A frame that reaches the thread.
Delivered(f) == /\ f.type \in {0, 1} /\ f.time_start \in Int \cup {NoTime}
                /\ f.packets \in Seq(Item) /\ \A i \in 1..Len(f.packets) : f.packets[i].id # 0
                /\ f.packets # << >> => f.type = 0 /\ f.time_start # NoTime

\* Nothing of the thread changes; but dns_global_stop may be set at any time, also
\* when the thread is done and the rest of the program is not.
Still == /\ dns_global_stop' \in {dns_global_stop, TRUE}
         /\ UNCHANGED <<config, out_file, clock, counters, subprocess, buffered, unread, opc,
                        todo, run, disk, damaged, received>>

\* The steps that neither write nor take anything.
Idle == \/ FrameDone \/ WaitForPipe \/ FinalNoFile
        \/ SubprocessReads \/ SubprocessCloses \/ SubprocessEnds \/ SigintHandler \/ Still

\* A step of the thread or of what is around it.
Move == \/ Idle \/ CheckClose \/ CheckOpen \/ FrameChecked \/ WritePacket \/ FinalClose
        \/ \E f : Receive(f) /\ Delivered(f)

LEMMA Idles ==
    ASSUME Idle
    PROVE  /\ period_sec' = period_sec /\ pipe_cmd' = pipe_cmd /\ out_file' = out_file
           /\ output_opened' = output_opened /\ current' = current /\ total' = total
           /\ buffered' = buffered /\ todo' = todo /\ run' = run /\ files' = files
           /\ written' = written /\ received' = received
           /\ opc' # "dead" => opc # "dead"
BY DEF Idle, FrameDone, WaitForPipe, FinalNoFile, SubprocessReads, SubprocessCloses, SubprocessEnds,
       SigintHandler, Still, config, clock, counters, disk, Ended

\* What the input of the thread looks like once its packets are numbered.
LEMMA NumberedFrame ==
    ASSUME Types, NEW f \in InputFrame
    PROVE  Delivered(Numbered(f))
<1> DEFINE n == Len(f.packets)
           k == Len(received.packets)
           items == [i \in 1..n |-> [id |-> k + i, ts |-> f.packets[i].ts,
                                     request |-> f.packets[i].request,
                                     response |-> f.packets[i].response]]
           g == Numbered(f)
<1>1. /\ f.type \in {0, 1} /\ f.time_start \in Int \cup {NoTime}
      /\ f.packets \in Seq([ts : Int, request : BOOLEAN, response : Nat])
      /\ f.packets # << >> => f.type = 0 /\ f.time_start # NoTime
  BY DEF InputFrame
<1>2. k \in Nat /\ n \in Nat /\ (f.packets = << >> <=> n = 0)
  BY SMTT(30), <1>1, LenFacts DEF Types
<1>3. \A i \in 1..n : k + i \in Nat /\ k + i # 0
  BY SMTT(30), <1>2
<1>4. \A i \in 1..n : /\ f.packets[i].ts \in Int /\ f.packets[i].request \in BOOLEAN
                      /\ f.packets[i].response \in Nat
  <2>1. \A i \in 1..n : f.packets[i] \in [ts : Int, request : BOOLEAN, response : Nat]
    BY <1>1, LenFacts
  <2> QED BY <2>1
<1>5. \A i \in 1..n : items[i] \in Item /\ items[i].id # 0
  BY <1>3, <1>4 DEF Item
<1>6. items \in [1..n -> Item]
  <2> HIDE DEF k
  <2> QED BY <1>3, <1>4 DEF Item
<1>7. g.type = f.type /\ g.time_start = f.time_start /\ g.packets = items
  BY DEF Numbered, InputFrame
<1> HIDE DEF items, g
<1>8. items \in Seq(Item) /\ Len(items) = n
  BY SMTT(30), <1>2, <1>6
<1>9. items # << >> => f.packets # << >>
  BY SMTT(30), <1>2, <1>8
<1> QED BY <1>1, <1>5, <1>7, <1>8, <1>9 DEF Delivered, g

\* What is to be done about a frame.
LEMMA TodoFacts ==
    ASSUME NEW f, Delivered(f), f.time_start # NoTime
    PROVE  /\ Todo(f) \in Seq(Item) /\ Todo(f) # << >> /\ Head(Todo(f)).id = 0
           /\ Tail(Todo(f)) = f.packets
           /\ \A i \in 1..Len(Todo(f)) : i > 1 => Todo(f)[i].id # 0
<1> DEFINE s == FrameStart(f.time_start)
           p == f.packets
<1>1. s \in Item /\ s.id = 0
  BY DEF Delivered, FrameStart, Item
<1>2. p \in Seq(Item) /\ \A i \in 1..Len(p) : p[i].id # 0
  BY DEF Delivered
<1> HIDE DEF s, p
<1>3. /\ <<s>> \o p \in Seq(Item) /\ <<s>> \o p # << >>
      /\ Head(<<s>> \o p) = s /\ Tail(<<s>> \o p) = p
      /\ Len(<<s>> \o p) = Len(p) + 1 /\ Len(p) \in Nat
      /\ \A i \in 1..Len(p) : (<<s>> \o p)[i + 1] = p[i]
  BY SMTT(30), <1>1, <1>2
<1>4. \A i \in 1..(Len(p) + 1) : i > 1 => i - 1 \in 1..Len(p) /\ (i - 1) + 1 = i
  BY SMTT(30), <1>3
<1>5. \A i \in 1..(Len(p) + 1) : i > 1 => (<<s>> \o p)[i] = p[i - 1]
  BY <1>3, <1>4
<1>6. Todo(f) = <<s>> \o p
  BY DEF Todo, s, p
<1> QED BY SMTT(30), <1>1, <1>2, <1>3, <1>4, <1>5, <1>6 DEF p

\* Closing a file: what Close does to the books, the clock and the control.
LEMMA Closes ==
    ASSUME CheckClose \/ FinalClose
    PROVE  /\ period_sec' = period_sec /\ pipe_cmd' = pipe_cmd /\ out_file /\ out_file' = FALSE
           /\ total' = Add(total, current) /\ current' = Zero
           /\ subprocess' = subprocess /\ todo' = todo /\ run' = run /\ files' = files
           /\ written' = written /\ received' = received
           /\ opc # "dead"
           /\ opc' # "dead" => opc' = "wait" /\ ~buffered'
           /\ dns_global_stop' = dns_global_stop
           /\ opc' # "dead" => \/ damaged' = damaged
                               \/ ~pipe_cmd
                               \/ dns_global_stop /\ damaged' = WithDamage("refused")
BY DEF CheckClose, FinalClose, Close, Flush, PutIntoPipe, PutIntoFile, WriteRefused, RotationDue,
       config, disk

\* Writing a record: what WritePacket and FrameChecked do.
LEMMA Checks ==
    ASSUME WritePacket \/ FrameChecked
    PROVE  /\ period_sec' = period_sec /\ pipe_cmd' = pipe_cmd
           /\ out_file /\ out_file' = out_file /\ output_opened' = output_opened
           /\ total' = total /\ subprocess' = subprocess /\ run' = run /\ files' = files
           /\ received' = received
           /\ opc = "check" /\ opc' \in {"check", "dead"}
           /\ todo # << >> /\ todo' = Tail(todo) /\ ~RotationDue(Head(todo).ts)
           /\ FrameChecked => buffered' = buffered
           /\ dns_global_stop' = dns_global_stop
           /\ opc' # "dead" => \/ damaged' = damaged
                               \/ ~pipe_cmd
                               \/ dns_global_stop /\ damaged' = WithDamage("refused")
BY DEF WritePacket, FrameChecked, Write, Flush, PutIntoPipe, PutIntoFile, WriteRefused, config,
       disk, counters

\* The control of the thread.
LEMMA ControlKept ==
    ASSUME Control,
           \/ Idle \/ CheckClose \/ CheckOpen \/ FrameChecked \/ WritePacket \/ FinalClose
           \/ \E f : Receive(f)
    PROVE  Control'
<1> SUFFICES ASSUME opc' # "dead" PROVE Control'
  BY DEF Control
<1>1. CASE Idle
  <2>1. opc # "dead"
    BY <1>1, Idles
  <2>2. CASE FrameDone
    BY <2>1, <2>2 DEF FrameDone, Control, config, clock, counters, disk
  <2>3. CASE WaitForPipe
    BY <2>1, <2>3 DEF WaitForPipe, Control, config, clock, counters, disk, SubprocessEnded
  <2>4. CASE FinalNoFile
    BY <2>1, <2>4 DEF FinalNoFile, Control, config, clock, counters, disk
  <2>5. CASE SubprocessReads \/ SubprocessCloses \/ SubprocessEnds
    BY <2>1, <2>5 DEF SubprocessReads, SubprocessCloses, SubprocessEnds, Control, config, clock,
                      counters, disk
  <2>6. CASE SigintHandler \/ Still
    BY <2>1, <2>6 DEF SigintHandler, Still, Control, config, clock, counters, disk
  <2> QED BY <2>2, <2>3, <2>4, <2>5, <2>6, <1>1 DEF Idle
<1>2. CASE CheckClose \/ FinalClose
  <2>1. /\ opc # "dead" /\ opc' = "wait" /\ ~buffered' /\ out_file' = FALSE /\ out_file
        /\ subprocess' = subprocess /\ pipe_cmd' = pipe_cmd /\ run' = run /\ todo' = todo
    BY <1>2, Closes
  <2>2. ~run => todo = << >>
    BY <2>1 DEF Control
  <2> QED BY <2>1, <2>2 DEF Control
<1>3. CASE CheckOpen
  <2>1. /\ opc = "check" /\ ~out_file /\ todo # << >> /\ Open(Head(todo).ts)
        /\ pipe_cmd' = pipe_cmd /\ todo' = todo /\ run' = run
    BY <1>3 DEF CheckOpen, OpenFails, config
  <2> QED BY <2>1 DEF Open, Control
<1>4. CASE WritePacket \/ FrameChecked
  <2>1. /\ opc = "check" /\ opc' = "check" /\ out_file /\ out_file' = out_file
        /\ subprocess' = subprocess /\ pipe_cmd' = pipe_cmd /\ run' = run
    BY <1>4, Checks
  <2> QED BY <2>1 DEF Control
<1>5. CASE \E f : Receive(f)
  <2>1. PICK f : Receive(f)
    BY <1>5
  <2>2. /\ opc = "dequeue" /\ out_file' = out_file /\ pipe_cmd' = pipe_cmd
        /\ buffered' = buffered
    BY <2>1 DEF Receive, config
  <2>3. CASE ReceiveFrame(f)
    BY <2>2, <2>3 DEF ReceiveFrame, Control
  <2>4. CASE ReceiveNoTime(f)
    BY <2>2, <2>4 DEF ReceiveNoTime, Control
  <2>5. CASE ReceiveFinal(f)
    BY <2>2, <2>5 DEF ReceiveFinal, Control
  <2> QED BY <2>1, <2>3, <2>4, <2>5 DEF Receive
<1> QED BY <1>1, <1>2, <1>3, <1>4, <1>5

\* The damage to a file.
LEMMA DamageKept ==
    ASSUME Control, Damage,
           \/ Idle \/ CheckClose \/ CheckOpen \/ FrameChecked \/ WritePacket \/ FinalClose
           \/ \E f : Receive(f)
    PROVE  Damage'
<1> DEFINE Seen(d) == /\ d.how \in {"failed", "refused", "unread"}
                      /\ d.how = "failed" => d.file = Len(files) /\ subprocess = "failed"
                      /\ d.how = "refused" => dns_global_stop
<1> SUFFICES ASSUME opc' # "dead", pipe_cmd', NEW d \in damaged'
             PROVE  Seen(d)'
  BY DEF Damage
<1>0. opc # "dead" /\ pipe_cmd /\ d \in damaged => Seen(d)
  BY DEF Damage
<1>1. CASE Idle
  <2>1. opc # "dead" /\ pipe_cmd /\ files' = files
    BY <1>1, Idles
  <2>2. CASE FrameDone \/ FinalNoFile \/ Still \/ SubprocessReads
    BY <1>0, <2>1, <2>2 DEF FrameDone, FinalNoFile, Still, SubprocessReads
  <2>3. CASE WaitForPipe
    BY <1>0, <2>1, <2>3 DEF WaitForPipe
  <2>4. CASE SubprocessCloses \/ SubprocessEnds
    <3>1. /\ dns_global_stop' = dns_global_stop /\ subprocess \in {"running", "deaf"}
          /\ \/ d \in damaged
             \/ d.how = "unread"
             \/ d.how = "failed" /\ d.file = Len(files) /\ subprocess' = "failed"
      BY <2>4 DEF SubprocessCloses, SubprocessEnds, LeftUnread, WithDamage
    <3> QED BY <1>0, <2>1, <3>1
  <2>5. CASE SigintHandler
    BY <1>0, <2>1, <2>5 DEF SigintHandler
  <2> QED BY <2>2, <2>3, <2>4, <2>5, <1>1 DEF Idle
<1>2. CASE CheckClose \/ FinalClose \/ WritePacket \/ FrameChecked
  <2>1. /\ opc # "dead" /\ pipe_cmd /\ files' = files /\ subprocess' = subprocess
        /\ dns_global_stop' = dns_global_stop
        /\ damaged' = damaged \/ (dns_global_stop /\ damaged' = WithDamage("refused"))
    BY <1>2, Closes, Checks
  <2>2. d \in damaged \/ (dns_global_stop /\ d.how = "refused")
    BY <2>1 DEF WithDamage
  <2> QED BY <1>0, <2>1, <2>2
<1>3. CASE CheckOpen
  <2>1. /\ opc = "check" /\ ~out_file /\ damaged' = damaged /\ pipe_cmd' = pipe_cmd
        /\ dns_global_stop' = dns_global_stop
    BY <1>3 DEF CheckOpen, config
  <2>2. subprocess = "none"
    BY <2>1 DEF Control
  <2> QED BY <1>0, <2>1, <2>2
<1>4. CASE \E f : Receive(f)
  <2>1. PICK f : Receive(f)
    BY <1>4
  <2>2. /\ opc = "dequeue" /\ damaged' = damaged /\ pipe_cmd' = pipe_cmd /\ files' = files
        /\ dns_global_stop' = dns_global_stop
    BY <2>1 DEF Receive, config, disk
  <2>3. subprocess' = subprocess
    BY <2>1 DEF Receive, ReceiveFrame, ReceiveNoTime, ReceiveFinal
  <2> QED BY <1>0, <2>2, <2>3
<1> QED BY <1>1, <1>2, <1>3, <1>4

-----------------------------------------------------------------------------
\* The counters.
LEMMA CounterTypes ==
    /\ Zero \in Counters
    /\ \A item : Count(item) \in Counters
    /\ \A c, d \in Counters : Add(c, d) \in Counters
BY SMTT(30) DEF Counters, Zero, Count, Add

LEMMA TypesKept ==
    ASSUME Types,
           \/ Idle \/ CheckClose \/ CheckOpen \/ FrameChecked \/ WritePacket \/ FinalClose
           \/ \E f : Delivered(f) /\ Receive(f)
    PROVE  Types'
<1>1. CASE Idle
  BY <1>1, Idles DEF Types
<1>2. CASE CheckClose \/ FinalClose
  <2>1. Add(total, current) \in Counters /\ Zero \in Counters
    BY CounterTypes DEF Types
  <2> QED BY <2>1, <1>2, Closes DEF Types
<1>3. CASE CheckOpen
  <2>1. /\ period_sec' = period_sec /\ current' = current /\ total' = total /\ todo' = todo
        /\ written' = written /\ received' = received /\ todo # << >>
        /\ files' = files \/ files' = Append(files, Head(todo).ts)
    BY <1>3 DEF CheckOpen, Open, OpenFails, config, counters
  <2>2. Head(todo) \in Item /\ Head(todo).ts \in Int
    <3>1. Head(todo) \in Item
      BY <2>1, HeadTailFacts DEF Types
    <3> QED BY <3>1 DEF Item
  <2>3. files' \in Seq(Int)
    <3> DEFINE t == Head(todo).ts
    <3>1. files \in Seq(Int) /\ t \in Int /\ (files' = files \/ files' = Append(files, t))
      BY <2>1, <2>2 DEF Types
    <3> HIDE DEF t
    <3> QED BY SMTT(30), <3>1
  <2> QED BY <2>1, <2>3 DEF Types
<1>4. CASE WritePacket \/ FrameChecked
  <2>1. /\ period_sec' = period_sec /\ total' = total /\ files' = files /\ received' = received
        /\ todo # << >> /\ todo' = Tail(todo)
    BY <1>4, Checks
  <2>2. Head(todo) \in Item /\ Tail(todo) \in Seq(Item)
    BY <2>1, HeadTailFacts DEF Types
  <2>3. /\ current' = current \/ current' = Add(current, Count(Head(todo)))
        /\ \/ written' = written
           \/ written' = Append(written, [file |-> Len(files), item |-> Head(todo)])
    BY <1>4 DEF WritePacket, FrameChecked, counters, disk
  <2>4. current' \in Counters
    BY <2>3, CounterTypes DEF Types
  <2>5. written' \in Seq(Record)
    <3>1. Len(files) \in Nat
      BY LenFacts DEF Types
    <3> DEFINE r == [file |-> Len(files), item |-> Head(todo)]
    <3>2. r \in Record
      BY <3>1, <2>2 DEF Record
    <3>3. written \in Seq(Record) /\ (written' = written \/ written' = Append(written, r))
      BY <2>3 DEF Types
    <3> HIDE DEF r
    <3> QED BY SMTT(30), <3>2, <3>3
  <2> QED BY <2>1, <2>2, <2>4, <2>5 DEF Types
<1>5. CASE \E f : Delivered(f) /\ Receive(f)
  <2>1. PICK f : Delivered(f) /\ Receive(f)
    BY <1>5
  <2>2. /\ period_sec' = period_sec /\ current' = current /\ total' = total /\ files' = files
        /\ written' = written
        /\ received'.packets = received.packets \o f.packets
        /\ todo' = todo \/ (todo' = Todo(f) /\ f.time_start # NoTime)
    BY <2>1 DEF Receive, ReceiveFrame, ReceiveNoTime, ReceiveFinal, config, counters, disk
  <2>3. todo' \in Seq(Item)
    BY <2>1, <2>2, TodoFacts DEF Types
  <2>4. received'.packets \in Seq(Item)
    BY SMTT(30), <2>1, <2>2 DEF Types, Delivered
  <2> QED BY <2>2, <2>3, <2>4 DEF Types
<1> QED BY <1>1, <1>2, <1>3, <1>4, <1>5

\* Only the head of what is to be done may be the start of a frame.
LEMMA PackingKept ==
    ASSUME Types, Packing,
           \/ Idle \/ CheckClose \/ CheckOpen \/ FrameChecked \/ WritePacket \/ FinalClose
           \/ \E f : Delivered(f) /\ Receive(f)
    PROVE  Packing'
<1>1. CASE WritePacket \/ FrameChecked
  <2>1. todo # << >> /\ todo' = Tail(todo) /\ todo \in Seq(Item)
    BY <1>1, Checks DEF Types
  <2>2. \A i \in 1..Len(todo') : i + 1 \in 1..Len(todo) /\ i + 1 > 1 /\ todo'[i] = todo[i + 1]
    BY SMTT(30), <2>1
  <2> QED BY <2>2 DEF Packing
<1>2. CASE \E f : Delivered(f) /\ Receive(f)
  <2>1. PICK f : Delivered(f) /\ Receive(f)
    BY <1>2
  <2>2. todo' = todo \/ (todo' = Todo(f) /\ f.time_start # NoTime)
    BY <2>1 DEF Receive, ReceiveFrame, ReceiveNoTime, ReceiveFinal
  <2> QED BY <2>1, <2>2, TodoFacts DEF Packing
<1>3. CASE Idle \/ CheckClose \/ CheckOpen \/ FinalClose
  <2>1. todo' = todo
    BY <1>3, Idles DEF CheckClose, CheckOpen, FinalClose
  <2> QED BY <2>1 DEF Packing
<1> QED BY <1>1, <1>2, <1>3

-----------------------------------------------------------------------------
\* Whether a rotation is due, in numbers.
LEMMA DueFacts ==
    ASSUME Types, Rotation, out_file, NEW t \in Int
    PROVE  /\ files[Len(files)] \in Int /\ Len(files) \in Nat /\ Len(files) \in 1..Len(files)
           /\ RotationDue(t) => period_sec > 0 /\ t > files[Len(files)] + period_sec
           /\ ~RotationDue(t) /\ period_sec > 0 => t <= files[Len(files)] + period_sec
<1>1. files \in Seq(Int) /\ files # << >> /\ output_opened = files[Len(files)] /\ period_sec \in Int
  BY DEF Types, Rotation
<1>2. files[Len(files)] \in Int /\ Len(files) \in Nat /\ Len(files) \in 1..Len(files)
  BY SMTT(30), <1>1
<1>3. RotationDue(t) <=> period_sec > 0 /\ output_opened < t - period_sec
  BY DEF RotationDue
<1> DEFINE o == files[Len(files)]
<1> HIDE DEF o
<1>4. o \in Int => (o < t - period_sec <=> t > o + period_sec)
  BY SMTT(30), <1>1
<1>5. o \in Int => (~(o < t - period_sec) <=> t <= o + period_sec)
  BY SMTT(30), <1>1
<1> QED BY <1>1, <1>2, <1>3, <1>4, <1>5 DEF o

\* The time of what is next.
LEMMA HeadTime ==
    ASSUME Types, todo # << >>
    PROVE  Head(todo) \in Item /\ Head(todo).ts \in Int /\ Tail(todo) \in Seq(Item)
<1>1. Head(todo) \in Item /\ Tail(todo) \in Seq(Item)
  BY HeadTailFacts DEF Types
<1> QED BY <1>1 DEF Item

\* Files are opened one after the other.
LEMMA RotationKept ==
    ASSUME Types, Control, Rotation,
           \/ Idle \/ CheckClose \/ CheckOpen \/ FrameChecked \/ WritePacket \/ FinalClose
           \/ \E f : Receive(f)
    PROVE  Rotation'
<1>1. CASE Idle
  <2>1. /\ out_file' = out_file /\ files' = files /\ output_opened' = output_opened
        /\ run' = run /\ todo' = todo /\ period_sec' = period_sec /\ written' = written
        /\ opc' # "dead" => opc # "dead"
    BY <1>1, Idles
  <2>2. ASSUME ~out_file, files # << >>, opc' # "dead", run PROVE opc' \in {"check", "wait"}
    <3>1. opc \in {"check", "wait"} /\ todo # << >>
      BY <2>1, <2>2 DEF Rotation
    <3> QED BY <3>1, <2>2, <1>1 DEF Idle, FrameDone, WaitForPipe, FinalNoFile, SubprocessReads,
                                    SubprocessCloses, SubprocessEnds, SigintHandler, Still
  <2> QED BY <2>1, <2>2 DEF Rotation
<1>2. CASE CheckClose
  <2>1. /\ out_file /\ out_file' = FALSE /\ files' = files /\ run' = run /\ todo' = todo
        /\ period_sec' = period_sec /\ written' = written /\ (opc' # "dead" => opc' = "wait")
    BY <1>2, Closes
  <2>2. todo # << >> /\ RotationDue(Head(todo).ts)
    BY <1>2 DEF CheckClose
  <2>3. period_sec > 0 /\ Head(todo).ts > files[Len(files)] + period_sec
    BY <2>1, <2>2, HeadTime, DueFacts
  <2> QED BY <2>1, <2>2, <2>3 DEF Rotation
<1>3. CASE FinalClose
  <2>1. /\ out_file' = FALSE /\ files' = files /\ run' = run /\ written' = written
    BY <1>3, Closes
  <2>2. ~run
    BY <1>3 DEF FinalClose, Control
  <2> QED BY <2>1, <2>2 DEF Rotation
<1>4. CASE CheckOpen
  <2>1. CASE OpenFails
    BY <1>4, <2>1 DEF CheckOpen, OpenFails, Rotation, clock
  <2>2. CASE ~OpenFails
    <3> DEFINE t == Head(todo).ts
               n == Len(files)
    <3>1. /\ out_file' = TRUE /\ output_opened' = t /\ files' = Append(files, t)
          /\ written' = written /\ todo # << >>
      BY <1>4, <2>2 DEF CheckOpen, Open
    <3>2. t \in Int /\ files \in Seq(Int)
      BY <3>1, HeadTime DEF Types
    <3> HIDE DEF t
    <3>3. files' # << >> /\ files'[Len(files')] = t /\ 1..Len(files) \subseteq 1..Len(files')
      BY SMTT(30), <3>1, <3>2
    <3>4. out_file'
      BY <3>1
    <3> QED BY <3>1, <3>3, <3>4 DEF Rotation
  <2> QED BY <2>1, <2>2
<1>5. CASE WritePacket \/ FrameChecked
  <2>1. /\ out_file /\ out_file' = out_file /\ output_opened' = output_opened /\ files' = files
        /\ files # << >>
    BY <1>5, Checks DEF Rotation
  <2>2. \/ written' = written
        \/ written' = Append(written, [file |-> Len(files), item |-> Head(todo)])
    BY <1>5 DEF WritePacket, FrameChecked, disk
  <2>3. \A i \in 1..Len(written') : written'[i].file \in 1..Len(files)
    <3> DEFINE r == [file |-> Len(files), item |-> Head(todo)]
               n == Len(written)
    <3>1. Len(files) \in 1..Len(files) /\ r.file = Len(files) /\ written \in Seq(Record)
      BY SMTT(30), <2>1 DEF Types
    <3>2. r \in Record
      BY <1>5, <3>1, Checks, HeadTime DEF Record, Types
    <3> HIDE DEF r
    <3>3. CASE written' = Append(written, r)
      <4>1. /\ Len(written') = n + 1 /\ n \in Nat /\ written'[n + 1] = r
            /\ \A i \in 1..n : written'[i] = written[i]
        BY SMTT(30), <3>1, <3>2, <3>3
      <4>2. \A i \in 1..(n + 1) : i \in 1..n \/ i = n + 1
        BY SMTT(30), <4>1
      <4> QED BY <4>1, <4>2, <3>1 DEF Rotation
    <3> QED BY <3>3, <2>2 DEF Rotation, r
  <2> QED BY <2>1, <2>3 DEF Rotation
<1>6. CASE \E f : Receive(f)
  <2>1. /\ opc = "dequeue" /\ out_file' = out_file /\ output_opened' = output_opened
        /\ files' = files /\ written' = written /\ (run' => run)
    BY <1>6 DEF Receive, ReceiveFrame, ReceiveNoTime, ReceiveFinal, clock, disk
  <2> QED BY <2>1 DEF Rotation
<1> QED BY <1>1, <1>2, <1>3, <1>4, <1>5, <1>6

\* A record goes into a file of its period, and the next file is of a later one.
LEMMA FilesKept ==
    ASSUME Types, Control, Rotation, FilesRotate,
           \/ Idle \/ CheckClose \/ CheckOpen \/ FrameChecked \/ WritePacket \/ FinalClose
           \/ \E f : Receive(f)
    PROVE  FilesRotate'
<1> DEFINE n == Len(files)
           t == Head(todo).ts
<1>1. CASE WritePacket
  <2> DEFINE r == [file |-> n, item |-> Head(todo)]
             k == Len(written)
  <2>1. /\ period_sec' = period_sec /\ files' = files /\ out_file /\ todo # << >>
        /\ ~RotationDue(t) /\ written' = Append(written, r)
    BY <1>1, Checks DEF WritePacket
  <2>2. /\ n \in Nat /\ t \in Int /\ (period_sec > 0 => t <= files[n] + period_sec)
    BY <2>1, HeadTime, DueFacts
  <2>3. r \in Record /\ written \in Seq(Record) /\ r.file = n /\ r.item.ts = t
    BY <2>1, <2>2, HeadTime DEF Record, Types
  <2> HIDE DEF r
  <2>4. /\ Len(written') = k + 1 /\ k \in Nat /\ written'[k + 1] = r
        /\ \A i \in 1..k : written'[i] = written[i]
    BY SMTT(30), <2>1, <2>3
  <2>5. \A i \in 1..(k + 1) : i \in 1..k \/ i = k + 1
    BY SMTT(30), <2>4
  <2> HIDE DEF k, n, t
  <2>6. CASE period_sec <= 0
    BY <2>1, <2>6 DEF FilesRotate
  <2>7. CASE ~(period_sec <= 0)
    <3>1. period_sec > 0
      BY SMTT(30), <2>7 DEF Types
    <3>2. \A i \in 1..Len(written') :
              written'[i].item.ts <= files'[written'[i].file] + period_sec'
      BY <3>1, <2>1, <2>2, <2>3, <2>4, <2>5, <2>7 DEF FilesRotate, k
    <3> QED BY <3>2, <2>1, <2>7 DEF FilesRotate
  <2> QED BY <2>6, <2>7
<1>2. CASE CheckOpen /\ ~OpenFails
  <2>1. /\ period_sec' = period_sec /\ ~out_file /\ opc = "check" /\ todo # << >>
        /\ files' = Append(files, t) /\ written' = written
    BY <1>2 DEF CheckOpen, Open, config
  <2>2. files # << >> => period_sec > 0 /\ t > files[n] + period_sec
    BY <2>1 DEF Rotation, Control
  <2>3. t \in Int /\ files \in Seq(Int) /\ period_sec \in Int
    BY <2>1, HeadTime DEF Types
  <2> HIDE DEF t
  <2>4. /\ Len(files') = n + 1 /\ n \in Nat /\ files'[n + 1] = t
        /\ \A i \in 1..n : files'[i] = files[i]
        /\ n > 0 => files # << >>
    BY SMTT(30), <2>1, <2>3
  <2>5. CASE period_sec <= 0
    <3>1. files = << >>
      BY SMTT(30), <2>2, <2>3, <2>5
    <3>2. Len(files') <= 1
      BY SMTT(30), <3>1, <2>4
    <3> QED BY <3>2, <2>1, <2>5 DEF FilesRotate
  <2>6. CASE ~(period_sec <= 0)
    <3>1. \A i \in 1..Len(written) : written[i].item.ts <= files'[written[i].file] + period_sec
      BY <2>4, <2>6 DEF FilesRotate, Rotation
    <3>2. \A i \in 1..(n - 1) : files[i + 1] > files[i] + period_sec
      BY <2>6 DEF FilesRotate
    <3>3. \A i \in 1..(Len(files') - 1) : \/ i \in 1..(n - 1) /\ i \in 1..n /\ i + 1 \in 1..n
                                          \/ i = n /\ i \in 1..n /\ n > 0 /\ i + 1 = n + 1
      BY SMTT(30), <2>4
    <3> HIDE DEF n
    <3>4. \A i \in 1..(Len(files') - 1) : files'[i + 1] > files'[i] + period_sec
      BY <3>2, <3>3, <2>2, <2>4
    <3> QED BY <3>1, <3>4, <2>1, <2>6 DEF FilesRotate
  <2> QED BY <2>5, <2>6
<1>3. CASE ~WritePacket /\ ~(CheckOpen /\ ~OpenFails)
  <2>1. period_sec' = period_sec /\ files' = files /\ written' = written
    BY <1>3, Idles, Closes, Checks DEF CheckOpen, OpenFails, FrameChecked, Receive, config, disk
  <2> QED BY <2>1 DEF FilesRotate
<1> QED BY <1>1, <1>2, <1>3

-----------------------------------------------------------------------------
\* Moving the head of a sequence to the one before it.
LEMMA HeadMoves ==
    ASSUME NEW S, NEW s \in Seq(S), NEW t \in Seq(S), t # << >>
    PROVE  Append(s, Head(t)) \o Tail(t) = s \o t
BY SMTT(30)

\* The records written, as items.
LEMMA ItemsFacts ==
    ASSUME NEW w \in Seq(Record), NEW s, s = [i \in 1..Len(w) |-> w[i].item]
    PROVE  s \in Seq(Item) /\ Len(s) = Len(w) /\ \A i \in 1..Len(w) : s[i] = w[i].item
<1>1. Len(w) \in Nat /\ \A i \in 1..Len(w) : w[i].item \in Item
  <2>1. Len(w) \in Nat /\ \A i \in 1..Len(w) : w[i] \in Record
    BY LenFacts
  <2> QED BY <2>1 DEF Record
<1>2. s \in [1..Len(w) -> Item]
  BY <1>1
<1> QED BY SMTT(30), <1>1, <1>2

\* Where the start of the frame was checked, the rest are its packets.
LEMMA RestFacts ==
    ASSUME Types, Packing, todo # << >>, todo' = Tail(todo)
    PROVE  Packets' = Tail(todo)
<1>1. todo \in Seq(Item) /\ \A i \in 1..Len(todo) : i > 1 => todo[i].id # 0
  BY DEF Types, Packing
<1>2. Tail(todo) # << >> => Head(Tail(todo)).id # 0
  <2> SUFFICES ASSUME Tail(todo) # << >> PROVE Head(Tail(todo)).id # 0
    OBVIOUS
  <2>1. Head(Tail(todo)) = todo[2] /\ 2 \in 1..Len(todo)
    BY SMTT(30), <1>1
  <2>2. 2 > 1
    BY SMTT(30)
  <2> QED BY <1>1, <2>1, <2>2
<1> QED BY <1>2 DEF Packets

LEMMA WrittenKept ==
    ASSUME Types, Types', Control, Control', Packing, WrittenInOrder,
           \/ Idle \/ CheckClose \/ CheckOpen \/ FrameChecked \/ WritePacket \/ FinalClose
           \/ \E f : Receive(f) /\ Delivered(f)
    PROVE  WrittenInOrder'
<1> SUFFICES ASSUME opc' # "dead" PROVE Items' \o Packets' = received.packets'
  BY DEF WrittenInOrder, Control
<1>1. CASE Idle \/ CheckClose \/ FinalClose \/ CheckOpen
  <2>1. opc # "dead" /\ written' = written /\ todo' = todo /\ received' = received
    BY <1>1, Idles, Closes DEF CheckOpen
  <2> QED BY <2>1 DEF WrittenInOrder, Items, Packets
<1>2. CASE FrameChecked
  <2>1. /\ opc # "dead" /\ written' = written /\ todo # << >> /\ todo' = Tail(todo)
        /\ received' = received /\ Head(todo).id = 0
    BY <1>2 DEF FrameChecked, disk
  <2>2. Packets' = Tail(todo) /\ Packets = Tail(todo)
    BY <2>1, RestFacts DEF Packets
  <2> QED BY <2>1, <2>2 DEF WrittenInOrder, Items
<1>3. CASE WritePacket
  <2> DEFINE r == [file |-> Len(files), item |-> Head(todo)]
             k == Len(written)
             e == Head(todo)
  <2>1. /\ opc # "dead" /\ written' = Append(written, r) /\ todo # << >>
        /\ todo' = Tail(todo) /\ received' = received /\ e.id # 0
    BY <1>3 DEF WritePacket
  <2>2. Packets' = Tail(todo) /\ Packets = todo
    BY <2>1, RestFacts DEF Packets
  <2>3. todo \in Seq(Item) /\ e \in Item /\ r \in Record /\ r.item = e /\ written \in Seq(Record)
    BY <2>1, HeadTime, LenFacts DEF Types, Record
  <2> HIDE DEF r
  <2>4. /\ Len(written') = k + 1 /\ k \in Nat /\ written'[k + 1] = r
        /\ \A i \in 1..k : written'[i] = written[i]
    BY SMTT(30), <2>1, <2>3
  <2>5. /\ Items \in Seq(Item) /\ Len(Items) = k /\ \A i \in 1..k : Items[i] = written[i].item
    BY <2>3, ItemsFacts DEF Items
  <2>6. /\ Items' \in Seq(Item) /\ Len(Items') = k + 1
        /\ \A i \in 1..(k + 1) : Items'[i] = written'[i].item
    <3>1. /\ Items' \in Seq(Item) /\ Len(Items') = Len(written')
          /\ \A i \in 1..Len(written') : Items'[i] = written'[i].item
      <4>1. written' \in Seq(Record) /\ Items' = [i \in 1..Len(written') |-> written'[i].item]
        BY DEF Types, Items
      <4> QED BY <4>1, ItemsFacts
    <3> QED BY <3>1, <2>4
  <2>7. \A i \in 1..(k + 1) : Items'[i] = IF i = k + 1 THEN e ELSE Items[i]
    <3>1. \A i \in 1..(k + 1) : i = k + 1 \/ i \in 1..k
      BY SMTT(30), <2>4
    <3> QED BY <3>1, <2>3, <2>4, <2>5, <2>6
  <2> HIDE DEF e, k
  <2>8. Items' = Append(Items, e)
    BY SMTT(30), <2>3, <2>5, <2>6, <2>7
  <2>9. Append(Items, Head(todo)) \o Tail(todo) = Items \o todo
    BY <2>1, <2>3, <2>5, HeadMoves
  <2> QED BY <2>1, <2>2, <2>8, <2>9 DEF WrittenInOrder, e
<1>4. CASE \E f : Receive(f) /\ Delivered(f)
  <2>1. PICK f : Receive(f) /\ Delivered(f)
    BY <1>4
  <2>2. /\ opc = "dequeue" /\ written' = written
        /\ received'.packets = received.packets \o f.packets
    BY <2>1 DEF Receive, disk
  <2>3. todo = << >> /\ f.packets \in Seq(Item)
    BY <2>1, <2>2 DEF Control, Delivered
  <2>4. Packets = << >> /\ Items' = Items /\ Items \in Seq(Item)
    BY <2>2, <2>3, ItemsFacts DEF Packets, Items, Types
  <2>5. Items \o << >> = Items
    BY SMTT(30), <2>4
  <2>6. Items = received.packets
    BY <2>2, <2>4, <2>5 DEF WrittenInOrder
  <2>7. Packets' = f.packets
    <3>1. CASE ReceiveFrame(f)
      <4>1. todo' = Todo(f) /\ f.time_start # NoTime
        BY <3>1 DEF ReceiveFrame
      <4> QED BY <4>1, <2>1, TodoFacts DEF Packets
    <3>2. CASE ReceiveNoTime(f) \/ ReceiveFinal(f)
      BY <3>2, <2>1, <2>3 DEF ReceiveNoTime, ReceiveFinal, Delivered, Packets
    <3> QED BY <3>1, <3>2, <2>1 DEF Receive
  <2> QED BY <2>2, <2>4, <2>6, <2>7
<1> QED BY <1>1, <1>2, <1>3, <1>4

-----------------------------------------------------------------------------
\* Counting positions of a sequence with and without the last one.
LEMMA CountOneMore ==
    ASSUME NEW m \in Nat, NEW B, B \subseteq 1..m
    PROVE  /\ Cardinality(B \ {m}) \in Nat
           /\ m \in B => Cardinality(B) = Cardinality(B \ {m}) + 1
           /\ m \notin B => B \ {m} = B
<1>1. IsFiniteSet(1..m)
  BY SMTT(30), FS_Interval
<1>2. IsFiniteSet(B \ {m})
  BY <1>1, FS_Subset
<1>3. Cardinality(B \ {m}) \in Nat
  BY <1>2, FS_CardinalityType
<1>4. m \in B => B = (B \ {m}) \cup {m}
  OBVIOUS
<1>5. Cardinality((B \ {m}) \cup {m}) = Cardinality(B \ {m}) + 1
  BY <1>2, FS_AddElement
<1> QED BY <1>3, <1>4, <1>5

\* The books, field by field.
Books == LET n == Len(written) IN
    /\ total.items + current.items = n
    /\ total.request_only + current.request_only =
           Cardinality({i \in 1..n : RequestOnly(written[i].item)})
    /\ total.response_only + current.response_only =
           Cardinality({i \in 1..n : ~written[i].item.request})
    /\ current.items = IF out_file THEN Cardinality({i \in 1..n : written[i].file = Len(files)})
                                   ELSE 0

LEMMA BooksCount ==
    /\ RecordsCounted <=> (opc # "dead" => Books)
    /\ RecordsCounted' <=> (opc' # "dead" => Books')
BY DEF RecordsCounted, Books, Add

LEMMA CountersAdd ==
    ASSUME NEW c \in Counters, NEW d \in Counters
    PROVE  /\ Add(c, d).items = c.items + d.items
           /\ Add(c, d).request_only = c.request_only + d.request_only
           /\ Add(c, d).response_only = c.response_only + d.response_only
           /\ c.items \in Nat /\ c.request_only \in Nat /\ c.response_only \in Nat
BY DEF Add, Counters

LEMMA CountedKept ==
    ASSUME Types, Control, Rotation, RecordsCounted,
           \/ Idle \/ CheckClose \/ CheckOpen \/ FrameChecked \/ WritePacket \/ FinalClose
           \/ \E f : Receive(f)
    PROVE  RecordsCounted'
<1> SUFFICES ASSUME opc' # "dead" PROVE Books'
  BY BooksCount
<1> DEFINE n == Len(written)
<1>1. CASE Idle \/ FrameChecked \/ \E f : Receive(f)
  <2>1. /\ opc # "dead" /\ written' = written /\ total' = total /\ current' = current
        /\ out_file' = out_file /\ files' = files
    BY <1>1, Idles DEF FrameChecked, Receive, disk, counters
  <2> QED BY <2>1, BooksCount DEF Books
<1>2. CASE CheckClose \/ FinalClose
  <2>1. /\ opc # "dead" /\ written' = written /\ total' = Add(total, current) /\ current' = Zero
        /\ ~out_file' /\ files' = files
    BY <1>2, Closes
  <2>2. Books
    BY <2>1, BooksCount
  <2>3. /\ total'.items = total.items + current.items /\ current'.items = 0
        /\ total'.request_only = total.request_only + current.request_only
        /\ current'.request_only = 0
        /\ total'.response_only = total.response_only + current.response_only
        /\ current'.response_only = 0
    BY <2>1, CountersAdd DEF Zero, Types
  <2>4. /\ total.items \in Nat /\ total.request_only \in Nat /\ total.response_only \in Nat
        /\ current.items \in Nat /\ current.request_only \in Nat /\ current.response_only \in Nat
    BY CountersAdd DEF Types
  <2>5. \A a, b \in Nat : (a + b) + 0 = a + b
    BY SMTT(30)
  <2>6. /\ total'.items + current'.items = total.items + current.items
        /\ total'.request_only + current'.request_only = total.request_only + current.request_only
        /\ total'.response_only + current'.response_only
             = total.response_only + current.response_only
    BY SMTT(30), <2>3, <2>4, <2>5
  <2> QED BY <2>1, <2>2, <2>3, <2>6 DEF Books
<1>3. CASE CheckOpen
  <2>1. /\ opc = "check" /\ written' = written /\ total' = total /\ current' = current
        /\ ~out_file /\ out_file' /\ files' = Append(files, Head(todo).ts) /\ todo # << >>
    BY <1>3 DEF CheckOpen, Open, OpenFails, counters
  <2>2. Books
    BY <2>1, BooksCount
  <2>3. Len(files') = Len(files) + 1 /\ Len(files) \in Nat
    BY SMTT(30), <2>1, HeadTime, AppendFacts, LenFacts DEF Types
  <2>4. \A k \in 1..Len(files) : k # Len(files')
    BY SMTT(30), <2>3
  <2>5. {i \in 1..n : written[i].file = Len(files')} = {}
    BY <2>4 DEF Rotation
  <2> QED BY <2>1, <2>2, <2>5, FS_EmptySet DEF Books
<1>4. CASE WritePacket
  <2> DEFINE e == Head(todo)
             r == [file |-> Len(files), item |-> e]
             m == n + 1
             A1 == {i \in 1..n : RequestOnly(written[i].item)}
             A2 == {i \in 1..n : ~written[i].item.request}
             A3 == {i \in 1..n : written[i].file = Len(files)}
             B1 == {i \in 1..m : RequestOnly(written'[i].item)}
             B2 == {i \in 1..m : ~written'[i].item.request}
             B3 == {i \in 1..m : written'[i].file = Len(files)}
  <2>1. /\ opc = "check" /\ written' = Append(written, r) /\ total' = total
        /\ current' = Add(current, Count(e)) /\ out_file /\ out_file' /\ files' = files
        /\ todo # << >>
    BY <1>4 DEF WritePacket
  <2>2. r \in Record /\ written \in Seq(Record) /\ r.item = e /\ r.file = Len(files)
    BY <2>1, HeadTime, LenFacts DEF Types, Record
  <2> HIDE DEF r
  <2>3. /\ Len(written') = m /\ n \in Nat /\ written'[m] = r /\ m \in 1..m /\ m \in Nat
        /\ \A i \in 1..n : written'[i] = written[i]
        /\ \A i : i \in 1..n <=> i \in 1..m /\ i # m
    BY SMTT(30), <2>1, <2>2
  <2> HIDE DEF n, e, m
  <2>4. /\ Cardinality(A1) \in Nat
        /\ RequestOnly(e) => Cardinality(B1) = Cardinality(A1) + 1
        /\ ~RequestOnly(e) => Cardinality(B1) = Cardinality(A1)
    <3>1. A1 = B1 \ {m} /\ B1 \subseteq 1..m
      BY SMTT(30), <2>3
    <3>2. m \in B1 <=> RequestOnly(e)
      BY <2>2, <2>3
    <3> HIDE DEF A1, B1
    <3> QED BY <3>1, <3>2, <2>3, CountOneMore
  <2>5. /\ Cardinality(A2) \in Nat
        /\ ~e.request => Cardinality(B2) = Cardinality(A2) + 1
        /\ e.request => Cardinality(B2) = Cardinality(A2)
    <3>1. A2 = B2 \ {m} /\ B2 \subseteq 1..m
      BY SMTT(30), <2>3
    <3>2. m \in B2 <=> ~e.request
      BY <2>2, <2>3
    <3> HIDE DEF A2, B2
    <3> QED BY <3>1, <3>2, <2>3, CountOneMore
  <2>6. Cardinality(A3) \in Nat /\ Cardinality(B3) = Cardinality(A3) + 1
    <3>1. A3 = B3 \ {m} /\ B3 \subseteq 1..m
      BY SMTT(30), <2>3
    <3>2. m \in B3
      BY <2>2, <2>3
    <3> HIDE DEF A3, B3
    <3> QED BY <3>1, <3>2, <2>3, CountOneMore
  <2>7. /\ total.items + current.items = n
        /\ total.request_only + current.request_only = Cardinality(A1)
        /\ total.response_only + current.response_only = Cardinality(A2)
        /\ current.items = Cardinality(A3)
    BY <2>1, BooksCount DEF Books, n
  <2>8. /\ total.items \in Nat /\ total.request_only \in Nat /\ total.response_only \in Nat
        /\ current.items \in Nat /\ current.request_only \in Nat /\ current.response_only \in Nat
    BY CountersAdd DEF Types
  <2>9. /\ current'.items = current.items + 1
        /\ current'.request_only = current.request_only + (IF RequestOnly(e) THEN 1 ELSE 0)
        /\ current'.response_only = current.response_only + (IF e.request THEN 0 ELSE 1)
    BY <2>1 DEF Add, Count
  <2> HIDE DEF A1, A2, A3, B1, B2, B3
  <2>10. total.items + current'.items = m /\ current'.items = Cardinality(B3)
    <3>1. n \in Nat /\ m = n + 1
      BY <2>3 DEF m
    <3> QED BY SMTT(30), <3>1, <2>6, <2>7, <2>8, <2>9
  <2>11. total.request_only + current'.request_only = Cardinality(B1)
    BY SMTT(30), <2>4, <2>7, <2>8, <2>9
  <2>12. total.response_only + current'.response_only = Cardinality(B2)
    BY SMTT(30), <2>5, <2>7, <2>8, <2>9
  <2> QED BY <2>1, <2>3, <2>10, <2>11, <2>12 DEF Books, B1, B2, B3
<1> QED BY <1>1, <1>2, <1>3, <1>4

-----------------------------------------------------------------------------
LEMMA InitIInv == Init => IInv
<1> SUFFICES ASSUME Init PROVE IInv
  OBVIOUS
<1>1. /\ period_sec \in Int /\ out_file = FALSE /\ current = Zero /\ total = Zero
      /\ subprocess = "none" /\ buffered = FALSE /\ opc = "dequeue" /\ todo = << >> /\ run = TRUE
      /\ files = << >> /\ written = << >> /\ damaged = {} /\ received.packets = << >>
  BY OutputAssumption DEF Init
<1>2. \A S : << >> \in Seq(S)
  BY SMTT(30)
<1>3. Len(<< >>) = 0 /\ 1..0 = {} /\ 1..(0 - 1) = {} /\ 0 <= 1 /\ 0 + 0 = 0
  BY SMTT(30)
<1>4. Types
  BY <1>1, <1>2 DEF Types, Zero, Counters
<1>5. Control /\ Damage
  BY <1>1 DEF Control, Damage
<1>6. Rotation /\ Packing /\ FilesRotate
  BY <1>1, <1>3 DEF Rotation, Packing, FilesRotate
<1>7. WrittenInOrder
  <2>1. Items = << >> /\ Packets = << >>
    BY SMTT(30), <1>1 DEF Items, Packets
  <2>2. << >> \o << >> = << >>
    BY SMTT(30)
  <2> QED BY <2>1, <2>2, <1>1 DEF WrittenInOrder
<1>8. RecordsCounted
  <2>1. \A A : A \subseteq {} => Cardinality(A) = 0
    BY FS_EmptySet
  <2>2. Books
    BY <2>1, <1>1, <1>3, FS_EmptySet DEF Books, Zero
  <2> QED BY <2>2, BooksCount
<1> QED BY <1>4, <1>5, <1>6, <1>7, <1>8 DEF IInv

LEMMA MoveIInv == IInv /\ Move => IInv'
<1> SUFFICES ASSUME IInv, Move PROVE IInv'
  OBVIOUS
<1>1. /\ Types /\ Control /\ Damage /\ Rotation /\ Packing
      /\ FilesRotate /\ WrittenInOrder /\ RecordsCounted
  BY DEF IInv
<1>2. \/ Idle \/ CheckClose \/ CheckOpen \/ FrameChecked \/ WritePacket \/ FinalClose
      \/ \E f : Receive(f) /\ Delivered(f)
  BY DEF Move
<1>3. \/ Idle \/ CheckClose \/ CheckOpen \/ FrameChecked \/ WritePacket \/ FinalClose
      \/ \E f : Receive(f)
  BY <1>2
<1>4. Types'
  BY <1>1, <1>2, TypesKept
<1>5. Control' /\ Damage'
  BY <1>1, <1>3, ControlKept, DamageKept
<1>6. Packing'
  BY <1>1, <1>2, PackingKept
<1>7. Rotation'
  BY <1>1, <1>2, <1>3, RotationKept
<1>8. FilesRotate'
  BY <1>1, <1>3, FilesKept
<1>9. WrittenInOrder'
  BY <1>1, <1>2, <1>4, <1>5, WrittenKept
<1>10. RecordsCounted'
  BY <1>1, <1>3, CountedKept
<1> QED BY <1>4, <1>5, <1>6, <1>7, <1>8, <1>9, <1>10 DEF IInv

LEMMA StepIInv == IInv /\ [Next]_vars => IInv'
<1> SUFFICES ASSUME IInv, [Next]_vars PROVE IInv'
  OBVIOUS
<1>1. CASE Deliver
  <2>1. PICK f \in InputFrames : Receive(Numbered(f))
    BY <1>1 DEF Deliver
  <2> QED BY <2>1, NumberedFrame, FramesAssumption, MoveIInv DEF Move, IInv
<1>2. CASE UNCHANGED vars
  BY <1>2, MoveIInv DEF Move, Idle, Still, vars
<1>3. CASE ~Deliver /\ ~UNCHANGED vars
  BY <1>3, MoveIInv DEF Next, Step, Terminated, Move, Idle
<1> QED BY <1>1, <1>2, <1>3

\* What main relies on: the records are those of the packets taken, in their order,
\* and nothing is left when the thread is done.
LEMMA OutputHandsOver ==
    IInv /\ opc # "dead" =>
        /\ OutputHands(written, received.packets, todo, opc = "done")
        /\ opc = "done" => ~out_file /\ subprocess = "none" /\ ~run
        /\ opc = "dequeue" => run
<1> SUFFICES ASSUME IInv, opc # "dead"
             PROVE  /\ OutputHands(written, received.packets, todo, opc = "done")
                    /\ opc = "done" => ~out_file /\ subprocess = "none" /\ ~run
                    /\ opc = "dequeue" => run
  OBVIOUS
<1> DEFINE r == received.packets
<1>1. /\ written \in Seq(Record) /\ r \in Seq(Item) /\ todo \in Seq(Item)
      /\ Items \o Packets = r /\ (opc = "done" => todo = << >>)
  BY DEF IInv, Types, WrittenInOrder
<1>2. /\ Items \in Seq(Item) /\ Len(Items) = Len(written)
      /\ \A i \in 1..Len(written) : Items[i] = written[i].item
  BY <1>1, ItemsFacts DEF Items
<1>3. Packets \in Seq(Item)
  <2>1. todo # << >> => Tail(todo) \in Seq(Item)
    BY SMTT(30), <1>1
  <2> QED BY <2>1, <1>1 DEF Packets
<1>4. /\ todo = << >> => Len(Packets) = 0
      /\ todo # << >> /\ Head(todo).id # 0 => Packets = todo /\ Len(Packets) # 0
  BY SMTT(30), <1>1 DEF Packets
<1> HIDE DEF r, Items, Packets
<1>5. /\ Len(Items) \in Nat /\ Len(Packets) \in Nat /\ Len(r) = Len(Items) + Len(Packets)
      /\ \A i \in 1..Len(Items) : r[i] = Items[i]
      /\ Len(Packets) # 0 => r[Len(Items) + 1] = Head(Packets)
  <2> DEFINE a == Items
             b == Packets
  <2>1. /\ Len(a) \in Nat /\ Len(b) \in Nat /\ Len(r) = Len(a) + Len(b)
        /\ \A i \in 1..(Len(a) + Len(b)) : r[i] = IF i <= Len(a) THEN a[i] ELSE b[i - Len(a)]
        /\ b # << >> => Head(b) = b[1]
        /\ Len(b) # 0 => b # << >>
    <3>1. a \in Seq(Item) /\ b \in Seq(Item) /\ a \o b = r
      BY <1>1, <1>2, <1>3
    <3> HIDE DEF a, b
    <3>2. b # << >> => Head(b) = b[1]
      BY SMTT(30), <3>1
    <3> QED BY SMTT(30), <3>1, <3>2, ConcatFacts, LenFacts
  <2> HIDE DEF a, b
  <2>2. /\ \A i \in 1..Len(a) : i \in 1..(Len(a) + Len(b)) /\ i <= Len(a)
        /\ Len(b) # 0 => /\ Len(a) + 1 \in 1..(Len(a) + Len(b)) /\ ~(Len(a) + 1 <= Len(a))
                         /\ (Len(a) + 1) - Len(a) = 1
    BY SMTT(30), <2>1
  <2> QED BY <2>1, <2>2 DEF a, b
<1>6. /\ Len(written) <= Len(r) /\ Len(r) \in Nat
      /\ Len(Packets) # 0 => Len(written) < Len(r)
      /\ Len(Packets) = 0 => Len(written) = Len(r)
  BY SMTT(30), <1>2, <1>5
<1>7. OutputHands(written, r, todo, opc = "done")
  <2>1. \E item : written \in Seq([file : Nat, item : item]) /\ r \in Seq(item)
    BY <1>1 DEF Record
  <2> QED BY <2>1, <1>1, <1>2, <1>4, <1>5, <1>6 DEF OutputHands
<1>8. /\ opc = "done" => ~out_file /\ subprocess = "none" /\ ~run
      /\ opc = "dequeue" => run
  BY DEF IInv, Control
<1> QED BY <1>7, <1>8 DEF r

\* The inductive invariant of the output thread.
THEOREM OutputInvariant == Spec => []IInv
BY InitIInv, StepIInv, PTL DEF Spec

\* Whatever frames the matcher sends, and wherever the files change, the packets
\* taken from the queue are written in its order, each once (dns_output_main,
\* dns_output_check_rotation and the write_packet of the drivers).
THEOREM AllWritten == Spec => []WrittenInOrder
<1>1. IInv => WrittenInOrder
  BY DEF IInv
<1> QED BY <1>1, OutputInvariant, PTL

\* The statistics that dns_output_close and dns_output_finalize log are those of
\* the records in the files.
THEOREM StatisticsExact == Spec => []RecordsCounted
<1>1. IInv => RecordsCounted
  BY DEF IInv
<1> QED BY <1>1, OutputInvariant, PTL

\* dns_output_check_rotation keeps every record within the period of its file, and
\* the opening times of files more than a period apart.
THEOREM Rotates == Spec => []FilesRotate
<1>1. IInv => FilesRotate
  BY DEF IInv
<1> QED BY <1>1, OutputInvariant, PTL

\* dns_output_close waits for the subprocess of a file before dns_output_open starts
\* the next, and the assertion of dns_output_finalize holds.
THEOREM OneSubprocess == Spec => []SubprocessPerFile
<1>1. IInv => SubprocessPerFile
  BY DEF IInv, Control, SubprocessPerFile
<1> QED BY <1>1, OutputInvariant, PTL

\* A subprocess that failed is noticed before its file is done with, and so is a
\* write into a broken pipe unless SIGINT came before; only what is in the pipe
\* when its reader goes can be lost unnoticed (dns_output_close, the check in
\* dns_output_main and the SIGPIPE handler).
THEOREM DamageSeen == Spec => []DamageNoticed
<1>1. IInv => DamageNoticed
  <2> SUFFICES ASSUME IInv, opc # "dead", pipe_cmd, NEW d \in damaged
               PROVE  \/ d.file = Len(files) /\ (out_file \/ opc = "wait")
                      \/ d.how = "refused" /\ dns_global_stop
                      \/ d.how = "unread"
    BY DEF DamageNoticed
  <2>1. /\ d.how \in {"failed", "refused", "unread"}
        /\ d.how = "failed" => d.file = Len(files) /\ subprocess = "failed"
        /\ d.how = "refused" => dns_global_stop
    BY DEF IInv, Damage
  <2>2. subprocess = "failed" => out_file \/ opc = "wait"
    BY DEF IInv, Control
  <2> QED BY <2>1, <2>2
<1> QED BY <1>1, OutputInvariant, PTL

=============================================================================
