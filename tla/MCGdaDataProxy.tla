---------------------------- MODULE MCGdaDataProxy ----------------------------
(***************************************************************************)
(* The data proxy for TLC: a model of three rows of two columns, two of    *)
(* them with the same values; a value to set in one column, while only     *)
(* NULL is set in the other.  RowModif structures are interchangeable.     *)
(***************************************************************************)
EXTENDS GdaDataProxy, TLC

CONSTANTS a, b, v1, rm1, rm2

Columns == {a, b}
Domains == [c \in {a, b} |-> IF c = a THEN {v1} ELSE {}]
Row1(v) == [c \in {a, b} |-> IF c = a THEN v ELSE Null]
Symmetry == Permutations({rm1, rm2})
TheModel == {<<Row1(v1), Row1(Null), Row1(v1)>>}
=============================================================================
