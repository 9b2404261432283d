------------------------------- MODULE MCInput -------------------------------
(***************************************************************************)
(* Input for TLC.                                                          *)
(***************************************************************************)
EXTENDS Input
=============================================================================
