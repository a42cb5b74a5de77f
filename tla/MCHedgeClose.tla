----------------------------- MODULE MCHedgeClose -----------------------------
(* Closing one hedge of one contract. *)
EXTENDS HedgeClose, TLC

Symmetry == Permutations(Handler) \cup Permutations(Tasker)
==============================================================================
