--------------------------- MODULE MCGdaXaTransaction ---------------------------
(***************************************************************************)
(* Instances of GdaXaTransaction for TLC.                                  *)
(***************************************************************************)
EXTENDS GdaXaTransaction

CONSTANTS c1, c2, c3, n1, n2, x1

(* Three connections with distributed transactions and two without, for    *)
(* one transaction.                                                        *)
Five == {c1, c2, c3, n1, n2}
TwoNonXa == {n1, n2}
OneXa == {x1}

SymmetryFive == Permutations({c1, c2, c3}) \cup Permutations({n1, n2})
=============================================================================
