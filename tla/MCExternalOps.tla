---------------------------- MODULE MCExternalOps ----------------------------
EXTENDS ExternalOps

\* Two tenants named their accounts alike.
const_Stored == <<[identity |-> "x", key |-> "k1"], [identity |-> "x", key |-> "k2"]>>
const_Refs == {[id |-> 0, identity |-> "x", key |-> "k1"], [id |-> 2, identity |-> "x", key |-> "k2"]}
const_Budgets ==
    {[requests |-> 2, faults |-> 1, operations |-> {"place", "reduce", "cancel", "close", "set"}],
     [requests |-> 3, faults |-> 0, operations |-> {"place", "close"}]}
==============================================================================
