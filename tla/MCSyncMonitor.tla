---------------------------- MODULE MCSyncMonitor -----------------------------
(* Instances of SyncMonitor for TLC.                                       *)
EXTENDS SyncMonitor, TLC

MCTerms == [enabled |-> TRUE, ratio |-> 1, first |-> 1, rebalance |-> 1, exit |-> 0,
            max |-> 0, min |-> 1]
\* Two groups of one symbol on one account, each with its own target.
MCGroups == <<1, 2>>
MCTwins == <<1, 1>>
MCAccounts == <<1, 1>>
MCTargets == <<1, 2>>
MCOne == <<1>>
Callers == Permutations(ExposureCaller)
MCNets == {0, 1}
\* A short position; nothing, or both sides of a symbol in hedge mode, the short
\* one without a notional of its own.
MCShort == {<<[side |-> "SHORT", qty |-> 1, notional |-> 1, mark |-> 1]>>}
MCBooksBoth == {<<>>, <<[side |-> "LONG", qty |-> 1, notional |-> 1, mark |-> 1],
                        [side |-> "SHORT", qty |-> 2, notional |-> 0, mark |-> 1]>>}
==============================================================================
