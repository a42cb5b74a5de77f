------------------------------ MODULE MCHedgeRun ------------------------------
(* One configuration with a cap of 2 and exposures that call for +2, -2 and 0. *)
EXTENDS HedgeRun, TLC

MCCfg == [enabled |-> TRUE, ratio |-> 1, first |-> 1, rebalance |-> 1,
          exit |-> 0, max |-> 2, min |-> 1]
MCExposures == {-3, 0, 3}
MCTwoSided == {-3, 3}
Symmetry == Permutations(Worker)
==============================================================================
