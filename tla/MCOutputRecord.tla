--------------------------- MODULE MCOutputRecord ---------------------------
(***************************************************************************)
(* OutputRecord for TLC, and samples of dns_snescape.                      *)
(***************************************************************************)
EXTENDS OutputRecord

CONSTANTS Separators, \* candidates for csv_separator
          NsidLengths, \* lengths of long options NSID
          Alphabet,   \* characters of the samples, ...
          MaxData,    \* ... their length
          MaxStrsize  \* and the size of the buffer

VARIABLE sample \* data to escape

\* One field, all, or all but one.
FieldSets == {Fields} \cup {{f} : f \in Fields} \cup {Fields \ {f} : f \in Fields} \cup {{}}
MCConfs ==
    [type : {"csv"}, fields : FieldSets, separator : Separators, headers : {{"out_file"}}]
    \cup [type : {"csv"}, fields : {{"qname", "rr_counts"}}, separator : Separators,
          headers : SUBSET {"out_file", "header_file"}]
    \cup [type : {"cbor"}, fields : FieldSets, headers : {{"out_file"}}]

\* Addresses of the two families, and options of three lengths.
V4(n) == [addr |-> <<2000 + n>>, port |-> n]
V6(n) == [addr |-> <<2000 + n, 58, 2001>>, port |-> n]
NoOptions == [code \in {3, 5, 6, 7, 8} |-> << >>]
Options == [NoOptions EXCEPT ![5] = <<[length |-> 2, memory |-> <<8, 13, 10>>]>>,
                             ![6] = <<[length |-> 0, memory |-> << >>]>>,
                             ![3] = <<[length |-> 4, memory |-> <<44, 92, 10, 0>>]>>,
                             ![8] = <<[length |-> 0, memory |-> << >>]>>]

MCPacket(qr, id, opt, response) ==
    [qr |-> qr, id |-> id, src |-> IF qr = 0 THEN V4(5) ELSE V6(53),
     dst |-> IF qr = 0 THEN V4(53) ELSE V6(30), af |-> IF qr = 0 THEN 4 ELSE 6,
     net_protocol |-> IF id > 1000 THEN 6 ELSE 17, net_ttl |-> id % 3,
     ts |-> 3000000 - id, qname |-> IF id % 2 = 1 THEN << >> ELSE <<<<Asterisk, Dot>>>>,
     opt |-> opt, response |-> response]

\* Options that bring a line with all fields to the end of its buffer: NSIDs that
\* just fit, that are cut, and that take p behind the end; and a list of numbers that
\* does.
LongNsid(n) == [NoOptions EXCEPT ![3] = <<[length |-> n, memory |-> [i \in 1..n |-> 97]]>>]
LongList(n) == [NoOptions EXCEPT ![5] = <<[length |-> n, memory |-> [i \in 1..(2 * n) |-> i]]>>]

\* A request, a response, and a request with a response, some with EDNS.  The
\* numbers cross what CBOR writes in 1, 2 and 4 bytes.
MCPackets ==
    {MCPacket(0, 1, << >>, << >>), MCPacket(0, 950, <<Options>>, << >>),
     MCPacket(1, 1048550, << >>, << >>), MCPacket(1, 3, <<Options>>, << >>),
     MCPacket(0, 6, <<Options>>, <<MCPacket(1, 2, <<NoOptions>>, << >>)>>),
     MCPacket(0, 5, <<NoOptions>>, <<MCPacket(1, 2000, <<Options>>, << >>)>>)}
    \cup {MCPacket(1, 4, <<LongNsid(n)>>, << >>) : n \in NsidLengths}
    \cup {MCPacket(0, 1950, <<LongList(18)>>,
                   <<MCPacket(1, 2000, <<LongNsid(Max(NsidLengths))>>, << >>)>>)}

Samples == [strsize : 0..MaxStrsize, separator : Separators,
            data : UNION {[1..n -> Alphabet] : n \in 0..MaxData}]

MCInit == Init /\ sample = << >>
TrySnescape == /\ conf.type = "cbor" /\ conf.fields = {"time"} /\ headers # << >>
               /\ sample = << >> /\ sample' \in {<<s>> : s \in Samples}
               /\ UNCHANGED vars
MCNext == \/ sample = << >> /\ Next /\ UNCHANGED sample
          \/ TrySnescape
          \/ sample # << >> /\ UNCHANGED <<vars, sample>>
MCSpec == MCInit /\ [][MCNext]_<<vars, sample>>

\* Whatever the data and however small the buffer, dns_snescape stays inside it,
\* writes neither a newline nor a NUL nor a separator a reader would split at,
\* and does not stop inside an escape.  With a visible separator a reader gets
\* back the beginning of the data, and all of it if there is room.
EscapeFaithful ==
    sample # << >> =>
        LET s == sample[1]
            str == Snescape(s.strsize, s.separator, s.data)
            size == Len(FlattenSeq([i \in 1..Len(s.data) |-> Escaped(s.data[i], s.separator)]))
        IN  /\ Len(str) <= IF s.strsize = 0 THEN 0 ELSE s.strsize - 1
            /\ \A i \in 1..Len(str) : str[i] \notin {Newline, Nul}
            /\ Splits(str, s.separator) = {}
            /\ ~Reading(str).escape
            /\ IsGraph(s.separator) =>
                 /\ IsPrefix(Unescape(str), s.data)
                 /\ size < s.strsize => Unescape(str) = s.data
=============================================================================
