------------------------- MODULE MCGdaConnectionLock -------------------------
(***************************************************************************)
(* The lock of a connection for TLC: one thread nests its calls of lock(). *)
(***************************************************************************)
EXTENDS GdaConnectionLock

Nester == CHOOSE t \in Threads : TRUE
Depths == [t \in Threads |-> IF t = Nester THEN 2 ELSE 1]
=============================================================================
