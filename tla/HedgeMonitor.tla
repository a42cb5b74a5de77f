----------------------------- MODULE HedgeMonitor -----------------------------
(***************************************************************************)
(* What the dashboard says of one hedge configuration:                     *)
(* calculateHedgeMonitorSnapshot and mergeMonitorStatus of                 *)
(* internal/service/hedge_monitor_service.go.  Constant operators only.    *)
(*                                                                         *)
(* An input that may be missing (a snapshot, an execution) has a field     *)
(* known or is "none".  Reasons, labels and copied names are left out.     *)
(***************************************************************************)
EXTENDS HedgeCalculator

\* The switches, the agent's before the configuration's own.
SwitchStatus(global, enabled) ==
    IF ~global THEN "global_off" ELSE IF ~enabled THEN "symbol_off" ELSE "enabled"

\* A snapshot is missing or was observed more than maxAge before now.
Missing(snapshot, now, maxAge) == ~snapshot.known \/ now - snapshot.at > maxAge

\* Mutated: a position's age is measured with the limit of exposures.
HealthOneLimit(account, execution, expo, pos, now, expoStale, posStale) ==
    IF ~account THEN "account_unavailable"
    ELSE IF execution = "failed" THEN "execution_failed"
    ELSE IF Missing(expo, now, expoStale) \/ Missing(pos, now, expoStale) THEN "observing"
    ELSE "ok"

\* The first trouble there is.
HealthStatus(account, execution, expo, pos, now, expoStale, posStale) ==
    IF ~account THEN "account_unavailable"
    ELSE IF execution = "failed" THEN "execution_failed"
    ELSE IF Missing(expo, now, expoStale) \/ Missing(pos, now, posStale) THEN "observing"
    ELSE "ok"

\* mergeMonitorStatus: what is shown of switch, health and action.
MergeMonitorStatus(switch, health, action) ==
    IF switch # "enabled" THEN switch
    ELSE IF health \in {"account_unavailable", "execution_failed"} THEN health
    ELSE IF action # "balanced" THEN action
    ELSE IF health = "observing" THEN health
    ELSE action

\* signedPositionNotional of a snapshot stored with side NET.
SignedPositionNotional(pos) ==
    IF pos.qty # 0 THEN Sign(pos.qty) * Abs(pos.notional) ELSE pos.notional

\* calculateHedgeMonitorSnapshot: c are the thresholds of the configuration,
\* the rest is what the refresh has read.
MonitorSnapshot(c, global, enabled, account, execution, expo, pos, now, expoStale, posStale) ==
    LET net    == IF expo.known THEN expo.notional ELSE 0
        target == IF expo.known THEN MonitorTarget(c, net) ELSE 0
        actual == IF pos.known THEN SignedPositionNotional(pos) ELSE 0
        switch == SwitchStatus(global, enabled)
        health == HealthStatus(account, execution, expo, pos, now, expoStale, posStale)
        action == MonitorAction(c, net, actual)
    IN  [known |-> TRUE, net |-> net, target |-> target, actual |-> actual,
         health |-> health, status |-> MergeMonitorStatus(switch, health, action), at |-> now]
==============================================================================
