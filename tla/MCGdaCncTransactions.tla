------------------------- MODULE MCGdaCncTransactions -------------------------
(***************************************************************************)
(* The transaction status for TLC: the names of tables and of savepoints   *)
(* are interchangeable.                                                    *)
(***************************************************************************)
EXTENDS GdaCncTransactions, TLC

Symmetry == Permutations(Tables) \cup Permutations(Names)

(* What Content counts is what one statement after the other does.         *)
ASSUME ContentIsReplayed ==
    \A n \in 0..4 : \A l \in [1..n -> Tables], b \in SUBSET Tables :
        Content(b, l) = FoldLeft(Toggle, b, l)
=============================================================================
