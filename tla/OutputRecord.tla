---------------------------- MODULE OutputRecord ----------------------------
(***************************************************************************)
(* The records of the two output drivers (output_csv.c, output_cbor.c) and *)
(* the configuration they depend on (config.c).  A file is a sequence of   *)
(* lines or of CBOR arrays: first the names of the columns, then one       *)
(* record for each packet.                                                 *)
(*                                                                         *)
(* What may be missing is a sequence with at most one element.  A packet   *)
(* is [qr, src, dst, af, net_protocol, net_ttl, ts, qname, opt, response,  *)
(* id]; an OPT record is a function from the codes of options to the       *)
(* option, [length, memory], where memory is what is found in its data and *)
(* behind.  Texts are sequences of characters; a number that is printed is *)
(* one character beyond all others.                                        *)
(***************************************************************************)
EXTENDS FiniteSets, CborEncoder, Escape

CONSTANTS Confs,      \* configurations a user may write
          Packets,    \* packets the matcher may deliver
          LineSize, BufferSize, \* sizes of outbuf in the two drivers
          MaxRecords  \* bounds the file

VARIABLES conf,     \* the configuration
          headers,  \* files the header is still to be written to
          pkt,      \* the packet being written; none for the header
          columns,  \* its columns that are not written yet
          first,    \* no column was written yet
          line,     \* what was written to outbuf of output_csv.c, up to p
          encoder,  \* eitem of output_cbor.c
          mark,     \* length of outbuf before the last column
          pc, records

vars == <<conf, headers, pkt, columns, first, line, encoder, mark, pc, records>>

\* enum dns_output_field and the columns of each field, in the order in which
\* the drivers write them.
PlainFields == <<"time", "delay_us", "req_dns_len", "resp_dns_len", "req_net_len",
    "resp_net_len", "client_addr", "client_port", "server_addr", "server_port",
    "net_proto", "net_ipv", "net_ttl", "req_udp_sum", "id", "qtype", "qclass",
    "opcode", "rcode">>
FlagColumns == <<"resp_aa", "resp_tc", "req_rd", "resp_ra", "req_z", "resp_ad", "req_cd">>
CountColumns == <<"resp_ancount", "resp_arcount", "resp_nscount">>
EdnsColumns == <<"req_edns_ver", "req_edns_udp", "req_edns_do", "resp_edns_rcode",
    "req_edns_ping", "req_edns_dau", "req_edns_dhu", "req_edns_n3u", "resp_edns_nsid",
    "edns_client_subnet", "edns_other">>

Fields == ToSet(PlainFields) \cup {"flags", "qname", "rr_counts", "edns"}
Columns == PlainFields \o FlagColumns \o <<"qname">> \o CountColumns \o EdnsColumns

FieldOf(name) == CASE name \in ToSet(FlagColumns) -> "flags"
                   [] name \in ToSet(CountColumns) -> "rr_counts"
                   [] name \in ToSet(EdnsColumns) -> "edns"
                   [] OTHER -> name

\* dns_collector_conf_commit: what it accepts of the options used here.  The
\* separator is a signed char.
IsAlnum(c) == c \in (48..57) \cup (65..90) \cup (97..122)
ConfCommit(c) == /\ c.fields # {}
                 /\ c.type = "csv" =>
                      /\ ~IsAlnum(c.separator)
                      /\ c.separator \notin {46, 45, 35, 95, Backslash, Newline, 47}

-----------------------------------------------------------------------------
\* DNS_PACKET_REQUEST and DNS_PACKET_RESPONSE
Request(p) == IF p.qr = 0 THEN <<p>> ELSE << >>
Response(p) == IF p.qr = 1 THEN <<p>> ELSE p.response

\* DNS_PACKET_CLIENT_ADDR and so on
Client(p) == IF p.qr = 0 THEN p.src ELSE p.dst
Server(p) == IF p.qr = 0 THEN p.dst ELSE p.src

\* The number that a column shows of a packet: another one for every column.
Datum(p, name) == p.id + 2 * SelectInSeq(Columns, LAMBDA n : n = name)

Number(n) == [type |-> Unsigned, value |-> <<n>>]
Text(str) == [type |-> TextString, value |-> str]
Boolean(n) == [type |-> Simple, value |-> <<FalseValue + (n % 2)>>]

\* What a part of the packet, if it is there, has in a column.
NumberOf(part, name) == [i \in 1..Len(part) |-> Number(Datum(part[i], name))]
BooleanOf(part, name) == [i \in 1..Len(part) |-> Boolean(Datum(part[i], name))]

Opt(part) == IF part = << >> THEN << >> ELSE part[1].opt
Option(part, code) == IF Opt(part) = << >> THEN << >> ELSE Opt(part)[1][code]

\* WRITE_UNDERSTOOD_LIST: number i of the list is (opt + 4 + i)[i], counted
\* from 0.
UnderstoodList(option) == [i \in 1..option.length |-> option.memory[2 * (i - 1) + 1]]

ListCodes == [req_edns_dau |-> 5, req_edns_dhu |-> 6, req_edns_n3u |-> 7]

\* The value of a column, if it has one.  The condition is the same in both
\* drivers.
Known(p, name) ==
    LET req == Request(p)
        resp == Response(p)
    IN
    CASE name = "time" -> <<[type |-> DoubleType, value |-> <<p.ts>>]>>
      [] name = "delay_us" ->
           [i \in 1..Len(p.response) |-> Number(p.response[i].ts - p.ts)]
      [] name = "client_addr" -> <<Text(Client(p).addr)>>
      [] name = "server_addr" -> <<Text(Server(p).addr)>>
      [] name = "client_port" -> <<Number(Client(p).port)>>
      [] name = "server_port" -> <<Number(Server(p).port)>>
      [] name = "net_proto" -> <<Number(p.net_protocol)>>
      [] name = "net_ipv" -> <<Number(p.af)>>
      [] name = "net_ttl" -> IF p.net_ttl > 0 THEN <<Number(p.net_ttl)>> ELSE << >>
      [] name = "req_udp_sum" -> IF p.net_protocol = 17 THEN NumberOf(req, name) ELSE << >>
      [] name \in {"id", "qtype", "qclass", "opcode"} -> <<Number(Datum(p, name))>>
      [] name \in {"req_dns_len", "req_net_len"} -> NumberOf(req, name)
      [] name \in {"resp_dns_len", "resp_net_len", "rcode"} \cup ToSet(CountColumns) ->
           NumberOf(resp, name)
      [] name \in {"req_rd", "req_z", "req_cd"} -> BooleanOf(req, name)
      [] name \in {"resp_aa", "resp_tc", "resp_ra", "resp_ad"} -> BooleanOf(resp, name)
      [] name = "qname" -> [i \in 1..Len(p.qname) |-> Text(p.qname[i])]
      [] name \in {"req_edns_ver", "req_edns_udp"} /\ Opt(req) # << >> -> NumberOf(req, name)
      [] name = "req_edns_do" /\ Opt(req) # << >> -> BooleanOf(req, name)
      [] name = "resp_edns_rcode" /\ Opt(resp) # << >> -> NumberOf(resp, name)
      [] name \in DOMAIN ListCodes ->
           LET option == Option(req, ListCodes[name])
           IN  [i \in 1..Len(option) |-> [type |-> Array, value |-> UnderstoodList(option[i])]]
      [] name = "resp_edns_nsid" ->
           LET option == Option(resp, 3)
           IN  [i \in 1..Len(option) |->
                   [type |-> ByteString,
                    value |-> SubSeq(option[i].memory, 1, option[i].length)]]
      [] OTHER -> << >>

-----------------------------------------------------------------------------
Minus == 45
Dot == 46
Microseconds == 1000000

\* printf with %d: the digits are one character.
Digits(n) == IF n < 0 THEN <<Minus, Microseconds - n>> ELSE <<Microseconds + n>>

\* The name of a column as a text.
NameText(name) == <<1000 + SelectInSeq(Columns, LAMBDA n : n = name)>>

\* The elements of a list, in one text.
Joined(list, between) ==
    FoldLeft(LAMBDA str, n : (IF str = << >> THEN str ELSE str \o between) \o Digits(n),
             << >>, list)

CsvNull == <<Backslash, UpperN>>

\* WRITE for a value, with `room' left in the line.
CsvValue(item, separator, room) ==
    CASE item.type = Unsigned -> Digits(item.value[1])
      [] item.type = Simple -> Digits(item.value[1] - FalseValue)
      [] item.type = DoubleType ->
           Digits(item.value[1] \div Microseconds) \o <<Dot>> \o Digits(item.value[1] % Microseconds)
      [] item.type = Array ->
           Joined(item.value, IF separator = Comma THEN <<Backslash, Comma>> ELSE <<Comma>>)
      [] item.type = ByteString -> Snescape(room, separator, item.value)
      [] OTHER -> item.value

\* What stands for a value that is missing.
CsvMissing(p, name) ==
    CASE name \in {"qname", "resp_edns_nsid"} \cup DOMAIN ListCodes -> CsvNull
      [] name = "edns_client_subnet" ->
           IF Option(Response(p), 8) \o Option(Request(p), 8) = << >> THEN CsvNull ELSE << >>
      [] name = "edns_other" ->
           IF Opt(Request(p)) \o Opt(Response(p)) = << >> THEN CsvNull ELSE << >>
      [] OTHER -> << >>

-----------------------------------------------------------------------------
Selected == SelectSeq(Columns, LAMBDA name : FieldOf(name) \in conf.fields)

\* The CBOR driver has no column for the option PING.
CborSelected == SelectSeq(Selected, LAMBDA name : name # "req_edns_ping")

\* Faulty: counts the column for PING.
NoItemsWithPing == Len(Selected)

\* noitems
NoItems == Cardinality(conf.fields) + (IF "flags" \in conf.fields THEN 6 ELSE 0)
           + (IF "rr_counts" \in conf.fields THEN 2 ELSE 0)
           + (IF "edns" \in conf.fields THEN 9 ELSE 0)

\* start_file of the CSV driver writes the header to up to two files, that of
\* the CBOR driver to the output.
Init == /\ conf \in {c \in Confs : ConfCommit(c)}
        /\ headers = SelectSeq(<<"out_file", "header_file">>, LAMBDA f : f \in conf.headers)
        /\ pkt = << >> /\ columns = << >> /\ first = TRUE /\ line = << >>
        /\ encoder = EncoderInit(0) /\ mark = 0 /\ pc = "idle" /\ records = 0

\* The start of write_packet for a packet or, without one, for the header.
Begin(p) ==
    /\ pkt' = p /\ pc' = "write" /\ first' = TRUE /\ line' = << >> /\ mark' = 0
    /\ IF conf.type = "csv"
       THEN columns' = Selected /\ UNCHANGED encoder
       ELSE /\ columns' = CborSelected
            /\ encoder' = CreateArray(EncoderInit(BufferSize), NoItems)
    /\ UNCHANGED conf

\* dns_output_csv_start_file and dns_output_cbor_start_file
StartFile == /\ pc = "idle" /\ headers # << >>
             /\ headers' = Tail(headers)
             /\ Begin(<< >>)
             /\ UNCHANGED records

\* dns_output_csv_write_packet and dns_output_cbor_write_packet
WritePacket(p) == /\ pc = "idle" /\ headers = << >> /\ records < MaxRecords
                  /\ records' = records + 1
                  /\ Begin(<<p>>)
                  /\ UNCHANGED headers

\* Faulty: an empty first column is forgotten.
StartColumnIfEmpty == IF line = << >> THEN line ELSE Append(line, conf.separator)

StartColumn == IF first THEN line ELSE Append(line, conf.separator)

\* What follows the separator.
CsvText(name, item) ==
    IF pkt = << >> THEN NameText(name)
    ELSE IF item = << >> THEN CsvMissing(pkt[1], name)
    ELSE CsvValue(item[1], conf.separator, LineSize - Len(StartColumn))

\* Where in a column its last WRITE begins: a list has one for every number.
LastWrite(name, item) ==
    IF item # << >> /\ item[1].type = Array /\ item[1].value # << >>
    THEN Len(CsvText(name, item)) - Len(Digits(Last(item[1].value))) ELSE 0

\* WRITE keeps what is beyond the end of outbuf from being stored but moves p there.
\* A separator at or a WRITE begun behind the end are not checked; what the program
\* does then is not defined.
BehindOutbuf(name, item) == \/ ~first /\ Len(line) >= LineSize
                            \/ Len(StartColumn) + LastWrite(name, item) > LineSize

\* COND ... COND_END
CsvColumn ==
    /\ pc = "write" /\ conf.type = "csv" /\ columns # << >>
    /\ LET name == Head(columns)
           item == IF pkt = << >> THEN << >> ELSE Known(pkt[1], name)
       IN  /\ line' = StartColumn \o CsvText(name, item)
           /\ pc' = IF BehindOutbuf(name, item) THEN "undefined" ELSE "write"
    /\ first' = FALSE /\ mark' = Len(line) /\ columns' = Tail(columns)
    /\ UNCHANGED <<conf, headers, pkt, encoder, records>>

\* A line that leaves no room for the newline is cut.
CsvEnd == /\ pc = "write" /\ conf.type = "csv" /\ columns = << >>
          /\ line' = Append(SubSeq(line, 1, Min({Len(line), LineSize - 2})), Newline)
          /\ pc' = "idle"
          /\ UNCHANGED <<conf, headers, pkt, columns, first, encoder, mark, records>>

-----------------------------------------------------------------------------
CborValue(e, item) ==
    CASE item.type = Unsigned -> EncodeInt(e, item.value[1])
      [] item.type = Simple -> EncodeSimple(e, item.value[1])
      [] item.type = DoubleType -> EncodeDouble(e, item.value[1])
      [] item.type = Array ->
           CloseContainer(AfterCreate(e),
                          FoldLeft(EncodeInt, CreateArray(e, Len(item.value)), item.value))
      [] OTHER -> EncodeString(e, item.value, item.type)

\* CERR: the program dies of any error of the encoder.
Checked(e, l) == encoder' = e /\ pc' = IF e.err = "none" THEN l ELSE "dead"

\* CONDIF ... COND_END
EncodeColumn(e, name) ==
    LET item == IF pkt = << >> THEN << >> ELSE Known(pkt[1], name)
    IN  IF pkt = << >> THEN EncodeString(e, NameText(name), TextString)
        ELSE IF item = << >> THEN EncodeSimple(e, NullValue)
        ELSE CborValue(e, item[1])

CborColumn ==
    /\ pc = "write" /\ conf.type = "cbor" /\ columns # << >>
    /\ Checked(EncodeColumn(encoder, Head(columns)), "write")
    /\ first' = FALSE /\ mark' = Len(encoder.data) /\ columns' = Tail(columns)
    /\ UNCHANGED <<conf, headers, pkt, line, records>>

CborEnd == /\ pc = "write" /\ conf.type = "cbor" /\ columns = << >>
           /\ Checked(CloseContainer(AfterCreate(EncoderInit(BufferSize)), encoder), "idle")
           /\ UNCHANGED <<conf, headers, pkt, columns, first, line, mark, records>>

\* Nothing follows.
Done == /\ \/ pc \in {"dead", "undefined"}
           \/ pc = "idle" /\ headers = << >> /\ records = MaxRecords
        /\ UNCHANGED vars

Next == \/ StartFile \/ (\E p \in Packets : WritePacket(p))
        \/ CsvColumn \/ CsvEnd \/ CborColumn \/ CborEnd \/ Done

Spec == Init /\ [][Next]_vars
-----------------------------------------------------------------------------
\* How a reader takes a line apart: at separators that have no backslash before
\* them, if that is not escaped itself.
Backslashes(str, i) == i - 1 - Max({0} \cup {j \in 1..(i - 1) : str[j] # Backslash})
Splits(str, separator) ==
    {i \in 1..Len(str) : str[i] = separator /\ Backslashes(str, i) % 2 = 0}
LastCell(str, separator) == SubSeq(str, 1 + Max({0} \cup Splits(str, separator)), Len(str))

Written == LET all == IF conf.type = "csv" THEN Selected ELSE CborSelected
           IN  SubSeq(all, 1, Len(all) - Len(columns))

StringColumns == {"qname", "resp_edns_nsid"} \cup DOMAIN ListCodes
ToDo == {"edns_client_subnet", "edns_other"}

PlainText(item) == IF item.type = ByteString THEN item.value
                   ELSE Unescape(CsvValue(item, Nul, LineSize))

\* A reader gets the value of the column out of the cell; of a missing value
\* NULL, which is `\N' for strings and nothing for numbers (README.md).
CellRead(cell, name) ==
    IF pkt = << >> THEN cell = NameText(name)
    ELSE LET item == Known(pkt[1], name)
         IN  IF item = << >>
             THEN name \in ToDo \/ cell = (IF name \in StringColumns THEN CsvNull ELSE << >>)
             ELSE /\ cell # CsvNull
                  /\ IsGraph(conf.separator) => Unescape(cell) = PlainText(item[1])

\* Accepted separators that a column contains unescaped: inet_ntop writes the one,
\* knot_dname_to_str the other.
Colon == 58
Asterisk == 42
Unescaped == {Colon, Asterisk}

\* The longest escape, \ooo.
EscapeSize == 4

\* "Every record is one line" (README.md), cut to outbuf if it is too long.  Header
\* and record agree column by column, for every choice of fields, every packet
\* whatever it lacks, and every separator that write_packet does not write elsewhere
\* (config.c also accepts two that it does): when a column was written, as many
\* separators are before it as columns, and the text behind the last one gives its
\* value or NULL, as long as the line leaves room for one more escape.  Nothing is
\* claimed of a record that overran outbuf.
CsvRecordsAgree ==
    conf.type = "csv" /\ ~first /\ pc # "undefined" =>
        LET cell == LastCell(line, conf.separator)
        IN  /\ \A i \in 1..Len(line) : line[i] = Newline <=> pc = "idle" /\ i = Len(line)
            /\ pc = "idle" => Last(line) = Newline /\ Len(line) < LineSize
            /\ Len(line) < LineSize - EscapeSize /\ conf.separator \notin Unescaped =>
                 /\ Cardinality(Splits(line, conf.separator)) = Len(Written) - 1
                 /\ CellRead(SelectSeq(cell, LAMBDA c : c # Newline), Last(Written))

\* What the columns written so far take in a buffer without end.
CborNeeded ==
    Len(FoldLeft(EncodeColumn, CreateArray(EncoderInit(2^30), NoItems), Written).data)

\* The same for CBOR: each column is one item that decodes to its value or null,
\* and the number of items announced is the number written.  So CERR makes the
\* program die only of a record that is larger than outbuf.
CborRecordsAgree ==
    conf.type = "cbor" /\ ~first =>
        LET b == encoder.data
            name == Last(Written)
            item == IF pkt = << >> THEN <<Text(NameText(name))>> ELSE Known(pkt[1], name)
            expected == IF item = << >> THEN [type |-> Simple, value |-> <<NullValue>>] ELSE item[1]
        IN  IF pc = "dead" THEN encoder.err = "out of memory" /\ CborNeeded > BufferSize
            ELSE /\ HeadAt(b, 1).major = Array /\ HeadAt(b, 1).value = Len(CborSelected)
                 /\ ItemAt(b, mark + 1) = expected @@ [next |-> Len(b) + 1]

\* "comma-separated numbers" (README.md) of the options DAU, DHU and N3U: the
\* cell lists the numbers of the option.
ListsComplete ==
    conf.type = "csv" /\ pkt # << >> /\ ~first =>
        LET name == Last(Written)
            option == Option(Request(pkt[1]), ListCodes[name])
        IN  name \in DOMAIN ListCodes /\ option # << >> /\ pc = "write" =>
              Unescape(LastCell(line, conf.separator)) =
                  Joined(SubSeq(option[1].memory, 1, option[1].length), <<Comma>>)
=============================================================================
