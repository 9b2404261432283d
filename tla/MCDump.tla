------------------------------- MODULE MCDump -------------------------------
(***************************************************************************)
(* Dump for TLC.  A burst is ten bytes at the rate of one byte a second;   *)
(* packets of 6 and 11 bytes put the bucket into debt in several ways.     *)
(***************************************************************************)
EXTENDS Dump
=============================================================================
