------------------------------ MODULE MCGdaHolder ------------------------------
(***************************************************************************)
(* Holders for TLC: a holder, an alias of it, and one that may be bound to *)
(* either.                                                                 *)
(***************************************************************************)
EXTENDS GdaHolder

CONSTANTS Holder, Bound, Alias, v1, v2

HasDefaults == [h \in Holders |-> IF h = Holder THEN {v1, Null} ELSE {}]
Binds == {<<Bound, Holder>>, <<Bound, Alias>>}
Aliases == {<<Alias, Holder>>}
Refusals == {<<Bound, v2>>, <<Holder, Null>>}
=============================================================================
