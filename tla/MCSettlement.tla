---------------------------- MODULE MCSettlement ----------------------------
(* Model-checking instance of Settlement: sessions are interchangeable. *)
EXTENDS Settlement, TLC

Symmetry == Permutations(Request)
=============================================================================
