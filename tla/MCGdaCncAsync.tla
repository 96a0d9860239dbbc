------------------------------ MODULE MCGdaCncAsync ------------------------------
(***************************************************************************)
(* The asynchronous statements for TLC.                                    *)
(***************************************************************************)
EXTENDS GdaCncAsync
=============================================================================
