------------------------------ MODULE DumpProofs ------------------------------
(***************************************************************************)
(* The rate limit of a dump file, for every rate, period, set of packet    *)
(* sizes and sequence of packets.                                          *)
(***************************************************************************)
EXTENDS Dump, TLAPS

\* The clock of the dumper is a time once a packet came, and never runs back.
LEMMA ClockProperties ==
    ASSUME TypeOK, NEW ts \in Int
    PROVE  /\ LastEvent(ts) \in Int /\ EventTime(ts) \in Int /\ Clock(ts) \in Int
           /\ LastEvent(ts) <= EventTime(ts)
           /\ LastEvent(ts) <= Clock(ts) /\ Clock(ts) <= EventTime(ts)
           /\ Rate > 0 => Clock(ts) = EventTime(ts)
           /\ last_event # NoTime => LastEvent(ts) = last_event
  BY DumpAssumption DEF TypeOK, LastEvent, EventTime, Clock

\* The bucket earns no more than the rate times the time that passed.
LEMMA TokensEarned ==
    ASSUME TypeOK, NEW ts \in Int
    PROVE  /\ Tokens(ts) \in Int
           /\ Rate > 0 => Tokens(ts) <= tokens + Rate * (EventTime(ts) - LastEvent(ts))
           /\ Tokens(ts) >= tokens \/ Tokens(ts) = Burst
  <1>1. Rate \in Nat /\ tokens \in Int BY DumpAssumption DEF TypeOK
  <1>2. PICK d \in Int : d = EventTime(ts) - LastEvent(ts) /\ d >= 0
    BY ClockProperties
  <1>3. PICK e \in Int : e = Rate * d /\ e >= 0
    BY <1>1, <1>2
  <1>4. Burst \in Int BY <1>1 DEF Burst, DumpBurstMult
  <1>5. e = Rate * (EventTime(ts) - LastEvent(ts)) BY <1>2, <1>3
  <1> QED BY <1>1, <1>3, <1>4, <1>5 DEF Tokens

\* A new dumper is within its limit.
LEMMA InitPaid == Init => TokensPaid
  <1> SUFFICES ASSUME Init PROVE TokensPaid
    OBVIOUS
  <1>1. Burst \in Int BY DumpAssumption DEF Burst, DumpBurstMult
  <1>2. ~dtrace BY Zenon DEF Init
  <1>3. TypeOK BY <1>1, <1>2 DEF Init, TypeOK
  <1> QED BY <1>2, <1>3 DEF TokensPaid

\* A skipped packet only earns tokens.
LEMMA SkipPaid ==
    ASSUME TokensPaid, NEW ts \in Int, Skip(ts)
    PROVE  TokensPaid'
  <1>1. TypeOK BY DEF TokensPaid
  <1>2. /\ Rate \in Nat /\ tokens \in Int /\ current_bytes \in Nat
        /\ Burst \in Nat
    BY <1>1, DumpAssumption DEF TypeOK, Burst, DumpBurstMult
  <1>3. /\ tokens' = Tokens(ts) /\ last_event' = EventTime(ts) /\ Rate > 0
        /\ dtrace' = dtrace /\ dump_opened' = dump_opened
        /\ current_bytes' = current_bytes
    BY <1>1, ClockProperties DEF Skip, Limited
  <1>4. TypeOK'
    <2>1. /\ tokens' \in Int /\ last_event' \in Int /\ dump_opened' \in Int \cup {NoTime}
          /\ current_dumped' \in Nat /\ current_bytes' \in Nat
          /\ current_skipped' \in Nat
      BY <1>1, ClockProperties, TokensEarned DEF TypeOK, Skip
    <2>2. dumper' = dumper /\ dtrace' = dtrace BY DEF Skip
    <2>3. dumper' \in {"on", "off", "aborted"} /\ dtrace' \in BOOLEAN
      BY <1>1, <2>2, Zenon DEF TypeOK
    <2>4. ASSUME dtrace'
          PROVE  dump_opened' # NoTime /\ last_event' # NoTime /\ dump_opened' <= last_event'
      <3>1. dtrace BY <2>2, <2>4, Zenon
      <3> QED BY <1>1, <1>3, <3>1, ClockProperties, DumpAssumption DEF TypeOK
    <2> QED BY <2>1, <2>3, <2>4, Zenon DEF TypeOK
  <1>5. ASSUME dtrace
        PROVE  tokens' + current_bytes <= Burst + Rate * (last_event' - dump_opened)
    <2>1. last_event \in Int /\ dump_opened \in Int /\ LastEvent(ts) = last_event
      BY <1>1, <1>5, ClockProperties DEF TypeOK
    <2>2. EventTime(ts) \in Int BY <1>1, ClockProperties
    <2>3. Rate * (EventTime(ts) - last_event) + Rate * (last_event - dump_opened)
            = Rate * (EventTime(ts) - dump_opened)
      BY <1>2, <2>1, <2>2
    <2>4. tokens + current_bytes <= Burst + Rate * (last_event - dump_opened)
      BY <1>3, <1>5 DEF TokensPaid
    <2>5. tokens' <= tokens + Rate * (EventTime(ts) - last_event) /\ tokens' \in Int
      BY <1>1, <1>3, <2>1, TokensEarned
    <2>6. /\ Rate * (EventTime(ts) - last_event) \in Int
          /\ Rate * (last_event - dump_opened) \in Int
      BY <1>2, <2>1, <2>2
    <2> QED BY <1>2, <1>3, <2>3, <2>4, <2>5, <2>6
  <1>6. ASSUME dtrace, NEW n \in Lengths, Longest(n)
        PROVE  tokens' >= -n
    <2>1. n \in Nat /\ tokens >= -n
      BY <1>3, <1>6, DumpAssumption DEF TokensPaid
    <2> QED BY <1>1, <1>2, <1>3, <2>1, TokensEarned
  <1> QED BY <1>3, <1>4, <1>5, <1>6 DEF TokensPaid, Longest

\* A written packet is paid for, from the full bucket of a new file or from what
\* is left; only a bucket without debt pays, so the debt is at most that packet.
LEMMA WritePaid ==
    ASSUME TokensPaid, NEW ts \in Int, NEW length \in Lengths, Write(ts, length)
    PROVE  TokensPaid'
  <1>1. TypeOK BY DEF TokensPaid
  <1>2. /\ Rate \in Nat /\ tokens \in Int /\ current_bytes \in Nat
        /\ Burst \in Nat /\ length \in Nat
    BY <1>1, DumpAssumption DEF TypeOK, Burst, DumpBurstMult
  <1>3. dtrace' = TRUE BY DEF Write
  <1>4. CASE Reopen(ts)
    <2>1. /\ last_event' = EventTime(ts) /\ dump_opened' = EventTime(ts)
          /\ \/ tokens' = Burst - length /\ current_bytes' = length
             \/ tokens' = Burst /\ current_bytes' = 0
      BY <1>2, <1>4 DEF Write
    <2>2. EventTime(ts) \in Int BY <1>1, ClockProperties
    <2>3. TypeOK'
      <3>1. /\ tokens' \in Int /\ last_event' \in Int /\ dump_opened' \in Int \cup {NoTime}
            /\ current_dumped' \in Nat /\ current_bytes' \in Nat
            /\ current_skipped' \in Nat
        BY <1>1, <1>2, <1>4, <2>1, <2>2 DEF TypeOK, Write
      <3>2. dumper' \in {"on", "off", "aborted"} /\ dtrace' \in BOOLEAN
        BY <1>3 DEF Write
      <3>3. dump_opened' # NoTime /\ last_event' # NoTime /\ dump_opened' <= last_event'
        BY <2>1, <2>2, DumpAssumption
      <3> QED BY <3>1, <3>2, <3>3, Zenon DEF TypeOK
    <2>4. Rate * (last_event' - dump_opened') = 0 BY <1>2, <2>1, <2>2
    <2>5. tokens' + current_bytes' <= Burst + Rate * (last_event' - dump_opened')
      BY <1>2, <2>1, <2>4
    <2>6. ASSUME NEW n \in Lengths, Longest(n)
          PROVE  tokens' >= -n
      <3>1. n \in Nat /\ length <= n BY <2>6, DumpAssumption DEF Longest
      <3> QED BY <1>2, <2>1, <3>1
    <2> QED BY <2>3, <2>5, <2>6 DEF TokensPaid, Longest
  <1>5. CASE ~Reopen(ts)
    <2>1. dtrace BY <1>5 DEF Reopen
    <2>2. /\ dump_opened' = dump_opened /\ last_event' = Clock(ts)
          /\ \/ tokens' = Tokens(ts) - length /\ current_bytes' = current_bytes + length
             \/ tokens' = Tokens(ts) /\ current_bytes' = current_bytes
      BY <1>5 DEF Write
    <2>3. /\ last_event \in Int /\ dump_opened \in Int /\ dump_opened <= last_event
          /\ LastEvent(ts) = last_event
          /\ Clock(ts) \in Int /\ last_event <= Clock(ts)
      BY <1>1, <2>1, ClockProperties DEF TypeOK
    <2>4. TypeOK'
      <3>1. /\ tokens' \in Int /\ last_event' \in Int /\ dump_opened' \in Int \cup {NoTime}
            /\ current_dumped' \in Nat /\ current_bytes' \in Nat
            /\ current_skipped' \in Nat
        <4>1. Tokens(ts) \in Int /\ EventTime(ts) \in Int
          BY <1>1, TokensEarned, ClockProperties
        <4> QED BY <1>1, <1>2, <1>5, <2>2, <2>3, <4>1 DEF TypeOK, Write
      <3>2. dumper' \in {"on", "off", "aborted"} /\ dtrace' \in BOOLEAN
        BY <1>3 DEF Write
      <3>3. dump_opened' # NoTime /\ last_event' # NoTime /\ dump_opened' <= last_event'
        BY <2>2, <2>3, DumpAssumption
      <3> QED BY <3>1, <3>2, <3>3, Zenon DEF TypeOK
    <2>5. ASSUME Rate > 0
          PROVE  tokens' + current_bytes' <= Burst + Rate * (last_event' - dump_opened')
      <3>1. Clock(ts) = EventTime(ts) BY <1>1, <2>5, ClockProperties
      <3>2. Rate * (Clock(ts) - last_event) + Rate * (last_event - dump_opened)
              = Rate * (Clock(ts) - dump_opened)
        BY <1>2, <2>3
      <3>3. tokens + current_bytes <= Burst + Rate * (last_event - dump_opened)
        BY <2>1, <2>5 DEF TokensPaid
      <3>4. Tokens(ts) <= tokens + Rate * (Clock(ts) - last_event) /\ Tokens(ts) \in Int
        BY <1>1, <2>3, <2>5, <3>1, TokensEarned
      <3>5. /\ Rate * (Clock(ts) - last_event) \in Int
            /\ Rate * (last_event - dump_opened) \in Int
        BY <1>2, <2>3
      <3> QED BY <1>2, <2>2, <3>2, <3>3, <3>4, <3>5
    <2>6. ASSUME Rate > 0, NEW n \in Lengths, Longest(n)
          PROVE  tokens' >= -n
      <3>1. n \in Nat /\ length <= n BY <2>6, DumpAssumption DEF Longest
      <3>2. Tokens(ts) \in Int /\ Tokens(ts) >= 0
        BY <1>1, <2>6, TokensEarned DEF Write, Limited
      <3> QED BY <1>2, <2>2, <3>1, <3>2
    <2> QED BY <2>4, <2>5, <2>6 DEF TokensPaid, Longest
  <1> QED BY <1>4, <1>5

\* Every step of the dumper keeps the books.
LEMMA NextPaid == TokensPaid /\ [Next]_vars => TokensPaid'
  <1> SUFFICES ASSUME TokensPaid, [Next]_vars
               PROVE  TokensPaid'
    OBVIOUS
  <1>1. CASE Packet
    <2>1. PICK ts \in 0..MaxTime, length \in Lengths :
              Skip(ts) \/ OpenFails(ts) \/ Write(ts, length)
      BY <1>1 DEF Packet
    <2>2. ts \in Int BY DumpAssumption
    <2>3. CASE OpenFails(ts)
      <3>1. TypeOK BY DEF TokensPaid
      <3>2. dtrace' = FALSE BY <2>3 DEF OpenFails
      <3>3. /\ tokens' \in Int /\ last_event' \in Int /\ dump_opened' \in Int \cup {NoTime}
            /\ current_dumped' \in Nat /\ current_bytes' \in Nat
            /\ current_skipped' \in Nat
        BY <2>2, <2>3, <3>1, ClockProperties, TokensEarned DEF TypeOK, OpenFails, counts
      <3>4. dumper' \in {"on", "off", "aborted"} BY <2>3 DEF OpenFails
      <3>5. ~dtrace' /\ dtrace' \in BOOLEAN BY <3>2, Zenon
      <3> QED BY <3>3, <3>4, <3>5, Zenon DEF TokensPaid, TypeOK
    <2> QED BY <2>1, <2>2, <2>3, SkipPaid, WritePaid
  <1>2. CASE Close
    <2>1. dtrace' = FALSE BY <1>2 DEF Close
    <2>2. /\ tokens' \in Int /\ last_event' \in Int \cup {NoTime}
          /\ dump_opened' \in Int \cup {NoTime}
          /\ current_dumped' \in Nat /\ current_bytes' \in Nat
          /\ current_skipped' \in Nat
      BY <1>2 DEF TokensPaid, TypeOK, Close, counts
    <2>3. dumper' \in {"on", "off", "aborted"} BY <1>2 DEF Close
    <2>4. ~dtrace' /\ dtrace' \in BOOLEAN BY <2>1, Zenon
    <2> QED BY <2>2, <2>3, <2>4, Zenon DEF TokensPaid, TypeOK
  <1>3. CASE UNCHANGED vars
    BY <1>3 DEF vars, counts, TokensPaid, TypeOK, Longest
  <1> QED BY <1>1, <1>2, <1>3 DEF Next, Finished

\* The dumper's types, its clock included (dns_dump_packet).
THEOREM DumpTypeCorrect == Spec => []TypeOK
  <1>1. TokensPaid => TypeOK BY DEF TokensPaid
  <1> QED BY <1>1, InitPaid, NextPaid, PTL DEF Spec

\* For every rate and sequence of packets, dns_dump_packet keeps each dump file
\* within the burst, the rate times the age of the file, and one packet.
THEOREM DumpRateLimited == Spec => []FileRateLimited
  <1>1. TokensPaid => FileRateLimited
    <2> SUFFICES ASSUME TokensPaid, NEW n \in Lengths, Longest(n), dtrace, Rate > 0
                 PROVE  current_bytes <= Burst + Rate * (last_event - dump_opened) + n
      BY DEF FileRateLimited
    <2>1. /\ last_event \in Int /\ dump_opened \in Int /\ tokens \in Int
          /\ current_bytes \in Nat /\ Rate \in Nat /\ n \in Nat /\ Burst \in Nat
      BY DumpAssumption DEF TokensPaid, TypeOK, Burst, DumpBurstMult
    <2>2. /\ tokens + current_bytes <= Burst + Rate * (last_event - dump_opened)
          /\ tokens >= -n
      BY DEF TokensPaid
    <2>3. Rate * (last_event - dump_opened) \in Int BY <2>1
    <2> QED BY <2>1, <2>2, <2>3
  <1> QED BY <1>1, InitPaid, NextPaid, PTL DEF Spec

\* What dump.c does to the dumper and its trace file is what the input takes it
\* for: skipping, writing, rotating, and failing with the file closed or open.
THEOREM DumpIsDumpFile == Spec => ImplementsDumpFile
  <1>1. Init => DF!DumpFileInit
    BY Zenon DEF Init, DF!DumpFileInit
  <1>2. [Next]_vars => [DF!DumpFileNext]_(DF!dumpFile)
    <2> SUFFICES ASSUME [Next]_vars PROVE [DF!DumpFileNext]_(DF!dumpFile)
      OBVIOUS
    <2>1. CASE Packet
      <3>1. PICK ts, length : Skip(ts) \/ OpenFails(ts) \/ Write(ts, length)
        BY <2>1, Zenon DEF Packet
      <3>2. CASE Skip(ts)
        BY <3>2, Zenon DEF Skip, DF!dumpFile
      <3>3. CASE OpenFails(ts)
        BY <3>3, Zenon DEF OpenFails, DF!DumpFileNext, DF!DumpPacketFile
      <3>4. CASE Write(ts, length)
        <4>1. dumper = "on" /\ dtrace' = TRUE /\ (dumper' = "on" \/ dumper' = "aborted")
          BY <3>4, Zenon DEF Write
        <4> QED BY <4>1, Zenon DEF DF!DumpFileNext, DF!DumpPacketFile
      <3> QED BY <3>1, <3>2, <3>3, <3>4
    <2>2. CASE Close
      BY <2>2, Zenon DEF Close, DF!DumpFileNext, DF!DumpCloseFile
    <2>3. CASE UNCHANGED vars
      BY <2>3, Zenon DEF vars, DF!dumpFile
    <2> QED BY <2>1, <2>2, <2>3 DEF Next, Finished
  <1> QED BY <1>1, <1>2, PTL DEF Spec, ImplementsDumpFile, DF!DumpFileSpec
=============================================================================
