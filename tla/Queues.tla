--------------------------------- MODULE Queues ---------------------------------
(***************************************************************************)
(* A queue without some of its elements: SelectSeq of Sequences, but       *)
(* defined by the places that are kept, not by recursion, so that what it  *)
(* does when the queue changes can be proved (GdaThreadWrapper_proofs,     *)
(* GdaDataProxy_proofs).                                                   *)
(***************************************************************************)
EXTENDS Integers, Sequences, FiniteSets

(* The places of q that do not hold an element of C, and a function that   *)
(* lists the elements of K in order.                                       *)
Kept(q, C) == {i \in 1..Len(q) : q[i] \notin C}
Lists(f, K) ==
    /\ \A i \in K : \E k \in DOMAIN f : f[k] = i
    /\ \A k, l \in DOMAIN f : k < l => f[k] < f[l]

Without(q, C) ==
    LET K == Kept(q, C)
        f == CHOOSE g \in [1..Cardinality(K) -> K] : Lists(g, K)
    IN  [k \in DOMAIN f |-> q[f[k]]]
=============================================================================
