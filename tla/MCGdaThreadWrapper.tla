--------------------------- MODULE MCGdaThreadWrapper ---------------------------
(***************************************************************************)
(* The thread wrapper for TLC: a few interchangeable client threads and a  *)
(* bounded number of jobs.                                                 *)
(***************************************************************************)
EXTENDS GdaThreadWrapper, TLC

ClientSymmetry == Permutations(Clients)

(* Without is SelectSeq of Sequences, as the code's lists are filtered.    *)
ASSUME WithoutIsSelectSeq ==
    \A n \in 0..4 : \A q \in [1..n -> 0..2], C \in SUBSET (0..2) :
        Without(q, C) = SelectSeq(q, LAMBDA x : x \notin C)
=============================================================================
