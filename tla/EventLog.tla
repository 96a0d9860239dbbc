-------------------------------- MODULE EventLog --------------------------------
(***************************************************************************)
(* What the events of a connection are to its users: a log of the newest   *)
(* events, no more than it has room for, which is handed out oldest first  *)
(* and begins anew when it was.                                            *)
(***************************************************************************)
EXTENDS Integers, Sequences

CONSTANT Events

VARIABLES
    log,    \* the events since it began, oldest first
    room,   \* how many of them it keeps
    list    \* the list handed out last, until the next event

vars == <<log, room, list>>

(* The last n elements of s, or all.                                       *)
Newest(s, n) == IF Len(s) <= n THEN s ELSE SubSeq(s, Len(s) - n + 1, Len(s))

Init == log = <<>> /\ room \in Nat /\ list = <<>>

Add(e) ==
    /\ log' = Newest(Append(log, e), room)
    /\ list' = <<>>
    /\ UNCHANGED room

Clear == log' = <<>> /\ UNCHANGED <<room, list>>

(* As long as a list is out that is not empty, it is all there is.         *)
Read ==
    /\ list = <<>>
    /\ list' = log /\ log' = <<>>
    /\ UNCHANGED room

Resize == room' \in Nat /\ log' = <<>> /\ UNCHANGED list

Next == (\E e \in Events : Add(e)) \/ Clear \/ Read \/ Resize

Spec == Init /\ [][Next]_vars
=============================================================================
