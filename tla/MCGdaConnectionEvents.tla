------------------------ MODULE MCGdaConnectionEvents ------------------------
(***************************************************************************)
(* The events of a connection for TLC: their objects are interchangeable,  *)
(* and so are the threads.                                                 *)
(***************************************************************************)
EXTENDS GdaConnectionEvents, TLC

Symmetry == Permutations(Objects) \cup Permutations(Users)
=============================================================================
