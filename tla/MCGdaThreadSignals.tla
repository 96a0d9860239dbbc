--------------------------- MODULE MCGdaThreadSignals ---------------------------
(***************************************************************************)
(* The signals of the thread wrapper for TLC: interchangeable clients and  *)
(* signals, a bounded number of jobs and emissions.                        *)
(***************************************************************************)
EXTENDS GdaThreadSignals, TLC

Symmetry == Permutations(Clients) \cup Permutations(Specs)
=============================================================================
