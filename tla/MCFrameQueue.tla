----------------------------- MODULE MCFrameQueue -----------------------------
(* FrameQueue for TLC: frames of two different sizes. *)
EXTENDS FrameQueue

CONSTANTS BigFrame

MCSize == [f \in Frames |-> IF f = BigFrame THEN 3 ELSE 1]
=============================================================================
