---------------------------- MODULE MCGdaThreadPipes ----------------------------
(***************************************************************************)
(* The notification pipes of the thread wrapper for TLC: two pipes, of     *)
(* which the second is the one asked for after the first.                  *)
(***************************************************************************)
EXTENDS GdaThreadPipes
=============================================================================
