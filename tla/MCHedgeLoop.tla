----------------------------- MODULE MCHedgeLoop -----------------------------
(* Every combination of small thresholds, prices 1 and 2, exposures to 3 coins. *)
EXTENDS HedgeLoop

MCConfigs == [enabled : {TRUE}, ratio : {1}, first : {2, 4}, rebalance : {1, 3},
              exit : {0, 2}, max : {0, 4}, min : {1, 3}]
             \cup [enabled : {FALSE}, ratio : {1}, first : {2}, rebalance : {1},
                   exit : {0}, max : {0}, min : {1}]
MCRatios == {0, 1, 2}
MCExposures == -3 .. 3
MCMarks == {1, 2}
==============================================================================
