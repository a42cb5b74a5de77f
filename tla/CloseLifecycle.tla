---------------------------- MODULE CloseLifecycle ----------------------------
(***************************************************************************)
(* What the transactions of internal/db/mgmt/hedge_close.go promise        *)
(* whoever looks at a configuration and its close requests: the two rows   *)
(* change together, a request is begun while no other one is unfinished,   *)
(* and the configuration leaves "closing" only with the end of a request   *)
(* that was begun.  HedgeClose, with its handlers, tasks, restarts and     *)
(* second instance, implements this specification.                         *)
(***************************************************************************)
CONSTANT Request     \* ids of close requests

VARIABLES config,    \* hedge_configs: enabled, lifecycle_status
          status     \* of every request: none, active, completed or failed

vars == <<config, status>>

Init ==
    /\ config = [enabled |-> TRUE, lifecycle |-> "active"]
    /\ status = [r \in Request |-> "none"]

Begun(r) == status[r] # "none"

\* No request but r is active.
Alone(r) == \A q \in Request : status[q] = "active" => q = r

\* BeginHedgeCloseRequest of a request that is not there yet.
Begin(r) ==
    /\ ~Begun(r) /\ Alone(r)
    /\ status' = [status EXCEPT ![r] = "active"]
    /\ config' = [enabled |-> TRUE, lifecycle |-> "closing"]

\* CompleteHedgeClose, of a request that may be finished already.
Complete(r) ==
    /\ Begun(r)
    /\ status' = [status EXCEPT ![r] = "completed"]
    /\ config' = [enabled |-> FALSE, lifecycle |-> "disabled"]

\* FailHedgeClose: the configuration stays as enabled as it was.
Fail(r) ==
    /\ Begun(r)
    /\ status' = [status EXCEPT ![r] = "failed"]
    /\ config' = [config EXCEPT !.lifecycle = "close_failed"]

\* UpdateHedgeCloseStatus brings a finished request back.
Reopen(r) ==
    /\ Begun(r) /\ Alone(r)
    /\ status' = [status EXCEPT ![r] = "active"]
    /\ UNCHANGED config

\* The operator activates a configuration that is not closing.
Reactivate ==
    /\ config.lifecycle \in {"disabled", "close_failed"}
    /\ config' = [enabled |-> TRUE, lifecycle |-> "active"]
    /\ UNCHANGED status

Next ==
    \/ \E r \in Request : Begin(r) \/ Complete(r) \/ Fail(r) \/ Reopen(r)
    \/ Reactivate

Spec == Init /\ [][Next]_vars
==============================================================================
