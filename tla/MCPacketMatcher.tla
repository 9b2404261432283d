--------------------------- MODULE MCPacketMatcher ---------------------------
(***************************************************************************)
(* PacketMatcher for TLC.                                                  *)
(***************************************************************************)
EXTENDS PacketMatcher

CONSTANTS Times, OtherKey

\* A request with a name is as large as a frame may be, everything else small.
\* The other key is asked for by no request.
MCSize(request, qname) == IF request /\ qname # RootName THEN 2 ELSE 1
Data == {d \in [ts : Times, request : BOOLEAN, key : Keys, qname : Qnames, size : {1, 2}] :
            /\ d.size = MCSize(d.request, d.qname)
            /\ d.key = OtherKey => ~d.request /\ d.qname = RootName}

FrameOf(start, end, packets) == [NewFrame(start, end) EXCEPT !.packets = packets]

\* A frame with one packet, or with a request and its response; one with none;
\* the frame of an input that saw nothing; the last frame.
MCInputFrames ==
    {FrameOf(d.ts, d.ts, <<d>>) : d \in Data}
    \cup {FrameOf(0, 1, <<q, r>>) : q \in {d \in Data : d.request /\ d.ts = 0},
                                   r \in {d \in Data : ~d.request /\ d.ts = 1}}
    \cup {FrameOf(0, 3, << >>), FrameOf(NoTime, NoTime, << >>), FinalFrame(NoTime)}
=============================================================================
