------------------------------ MODULE HedgeClose ------------------------------
(***************************************************************************)
(* Closing the hedge of ONE configuration: ExitHedge, the close request    *)
(* and configuration lifecycle in PostgreSQL (internal/db/mgmt/            *)
(* hedge_close.go), the chain of reconciliation tasks that follows the     *)
(* close order (internal/tasks/reconciliation.go), the recovery when the   *)
(* service starts (cmd/hedging-bot/main.go), and what a run of RunOnce     *)
(* that has already read the configuration may still do.                   *)
(*                                                                         *)
(* A step is one call to the database or to the exchange with the          *)
(* computation that follows it; refreshFilledPosition, whose interleavings *)
(* are the subject of HedgeRun, is part of the step before it.  The hedge  *)
(* is one contract; a close order is keyed by the stamp of the position    *)
(* snapshot it was computed from, which its client order id is made of.    *)
(***************************************************************************)
EXTENDS Integers

CONSTANTS Handler,       \* HTTP or gRPC handlers that run ExitHedge
          Runner,        \* queue workers that run RunOnce
          Tasker,        \* workers of the reconciliation queue
          DryRunModes,   \* values of config.DryRun to start from
          MaxRequests,   \* bound: close requests in the table
          MaxAttempts,   \* length of closeReconciliationCheckpoints (6)
          MaxStamp,      \* bound: position snapshots orders are computed from
          MaxCrashes,    \* bound: times the service stops
          Environment    \* which of the behaviours below can happen

\* crash: the service is killed.  stop: it shuts down.  disconnect: the client goes away
\* and the handler's context is done.  resting: an order of an automatic run
\* rests on the exchange.  auto: automatic runs place orders.  failing: calls
\* to the exchange fail.  lost: a task cannot be enqueued.  replica: a second
\* instance of the service starts.  reenable: the operator reactivates the
\* configuration.
Behaviours == {"crash", "stop", "disconnect", "resting", "auto", "failing", "lost",
               "replica", "reenable"}

ASSUME CloseAssumption ==
    /\ MaxRequests \in Nat /\ MaxAttempts \in Nat \ {0} /\ MaxStamp \in Nat
    /\ MaxCrashes \in Nat
    /\ DryRunModes \subseteq BOOLEAN
    /\ Environment \subseteq Behaviours
    /\ Handler \cap Runner = {} /\ Handler \cap Tasker = {} /\ Runner \cap Tasker = {}

VARIABLES dryRun,    \* config.DryRun
          config,    \* hedge_configs: enabled, lifecycle_status
          requests,  \* hedge_close_requests, by id
          exec,      \* order_executions of close orders, by stamp
          orders,    \* the exchange's close orders, by stamp
          hedge,     \* the opening order of the automatic runs
          live,      \* contracts the account holds
          stored,    \* hedge_position_snapshots; at = 0 is a stamp no order has used
          clock,     \* the last stamp given
          holders,   \* who is inside the run lock
          tasks,     \* reconciliation tasks in the queue
          archived,  \* tasks that were being processed when the service was killed
          locked,    \* those whose unique lock has not expired
          proc,      \* local state of handlers, runners and taskers
          up,        \* the service is running
          crashes    \* how often it has stopped

vars == <<dryRun, config, requests, exec, orders, hedge, live, stored, clock,
          holders, tasks, archived, locked, proc, up, crashes>>

Lock == INSTANCE RunLock WITH Run <- Handler \cup Runner

Proc == Handler \cup Runner \cup Tasker
Request == 1 .. MaxRequests
Stamp == 1 .. MaxStamp
Can(b) == b \in Environment

\* activeHedgeCloseStatuses.
ActiveStatuses == {"requested", "submitted", "verifying"}
Active(r) == requests[r].status \in ActiveStatuses

Task == [exec : Stamp, attempt : 0 .. (MaxAttempts - 1)]
ConfigType == [enabled : BOOLEAN,
               lifecycle : {"active", "closing", "close_failed", "disabled"}]
RequestType == [status : ActiveStatuses \cup {"none", "completed", "failed"}, exec : 0 .. MaxStamp]
\* order_executions_status_check refuses "canceled".
ExecStatus == {"none", "submitted", "filled", "failed", "dry_run"}
OrderStatus == {"none", "submitted", "filled", "canceled"}
OrderType == [status : OrderStatus, qty : Nat, reduceOnly : BOOLEAN]
SnapshotType == [qty : Nat, at : 0 .. MaxStamp]
Steps == {"idle", "begin", "load", "load_stored", "place", "order", "record", "attach", "complete",
          "fail", "verify", "confirm", "unconfirmed", "fetch", "persist", "lookup", "next",
          "exhausted", "run_lock", "run_guard", "run_persist", "run_order"}
LocalType == [pc : Steps, req : 0 .. MaxRequests, qty : Nat, stamp : 0 .. MaxStamp,
              status : ExecStatus \cup OrderStatus, attempt : 0 .. (MaxAttempts - 1)]
Idle == [pc |-> "idle", req |-> 0, qty |-> 0, stamp |-> 0, status |-> "none", attempt |-> 0]

TypeOK ==
    /\ dryRun \in BOOLEAN /\ up \in BOOLEAN
    /\ config \in ConfigType
    /\ requests \in [Request -> RequestType]
    /\ exec \in [Stamp -> ExecStatus]
    /\ orders \in [Stamp -> OrderType]
    /\ hedge \in {"none", "submitted", "filled"}
    /\ live \in Int
    /\ stored \in SnapshotType
    /\ clock \in 0 .. MaxStamp
    /\ holders \subseteq Handler \cup Runner
    /\ tasks \subseteq Task /\ archived \subseteq Task /\ locked \subseteq Task
    /\ proc \in [Proc -> LocalType]
    /\ crashes \in 0 .. MaxCrashes
------------------------------------------------------------------------------
(* Steps of a process *)

At(p, step) == up /\ proc[p].pc = step

Goto(p, l) == proc' = [proc EXCEPT ![p] = l] /\ UNCHANGED holders

Step(p, step) == Goto(p, [proc[p] EXCEPT !.pc = step])

\* The end of ExitHedge or RunOnce releases the lock; a task has none.
Finish(p) ==
    /\ proc' = [proc EXCEPT ![p] = Idle]
    /\ IF p \in holders THEN Lock!Leave(p) ELSE UNCHANGED holders

\* asynq.Unique: enqueueing a task that is in the queue has no effect, and has
\* none while the task is processed either, until the lock's 30 seconds are over.
\* A task that was archived because the service was killed keeps its lock, too.
TaskOf(p) == [exec |-> proc[p].stamp, attempt |-> proc[p].attempt]

InProcess == {TaskOf(t) : t \in {t \in Tasker : proc[t].pc # "idle"}}

Enqueue(e, attempt) ==
    LET k == [exec |-> e, attempt |-> attempt]
    IN  /\ \/ k \notin locked /\ tasks' = tasks \cup {k}
           \/ (Can("lost") \/ k \in InProcess \cup locked) /\ UNCHANGED tasks
        /\ UNCHANGED <<archived, locked>>

queueVars == <<tasks, archived, locked>>
exchangeVars == <<orders, hedge, live>>
snapshotVars == <<stored, clock>>
serviceVars == <<dryRun, up, crashes>>
------------------------------------------------------------------------------
(* Transactions of hedge_close.go *)

\* finishHedgeClose, whatever the request's status is by now.
FinishRequest(r, status, lifecycle) ==
    /\ requests' = [requests EXCEPT ![r].status = status]
    /\ config' = [enabled   |-> config.enabled /\ lifecycle # "disabled",
                  lifecycle |-> lifecycle]

CompleteHedgeClose(r) == FinishRequest(r, "completed", "disabled")

\* Mutated: swapped arguments.
FailSwapped(r) == FinishRequest(r, "close_failed", "failed")

FailHedgeClose(r) == FinishRequest(r, "failed", "close_failed")

\* Mutated: no unique index.
NoIndex(r) == TRUE

\* UpdateHedgeCloseStatus to "verifying": unguarded, but the unique index on the
\* active requests of a configuration refuses a second one.
IndexAllows(r) == \A q \in Request : Active(q) => q = r

SetVerifying(r) ==
    requests' = IF IndexAllows(r) THEN [requests EXCEPT ![r].status = "verifying"] ELSE requests

\* GetHedgeCloseRequestByExecutionID: the newest request of the execution.
RequestsOf(e) == {r \in Request : requests[r].exec = e}
RequestOf(e) == IF RequestsOf(e) = {} THEN 0
                ELSE CHOOSE r \in RequestsOf(e) : \A q \in RequestsOf(e) : q <= r
------------------------------------------------------------------------------
(* ExitHedge *)

\* loadConfig and TryLock.
ExitLock(h) ==
    /\ h \in Handler
    /\ At(h, "idle")
    /\ Lock!Enter(h)
    /\ proc' = [proc EXCEPT ![h].pc = "begin"]
    /\ UNCHANGED <<config, requests, exec, exchangeVars, snapshotVars, queueVars, serviceVars>>

NewRequest == {r \in Request : requests[r].status = "none"
                                 /\ \A q \in 1 .. (r - 1) : requests[q].status # "none"}

\* BeginHedgeCloseRequest: an active request is returned as it is, and its
\* reconciliation restarted if it has an order.
BeginExisting(h) ==
    /\ At(h, "begin")
    /\ \E r \in Request :
          /\ Active(r)
          /\ IF requests[r].exec # 0 THEN Enqueue(requests[r].exec, 0) ELSE UNCHANGED queueVars
    /\ Finish(h)
    /\ UNCHANGED <<config, requests, exec, exchangeVars, snapshotVars, serviceVars>>

\* BeginHedgeCloseRequest: otherwise a request is created and the
\* configuration's lifecycle becomes closing, in one transaction.
BeginHedgeCloseRequest(h) ==
    /\ At(h, "begin")
    /\ \A r \in Request : ~Active(r)
    /\ \/ /\ NewRequest = {} \/ clock = MaxStamp      \* a bound is reached
          /\ Finish(h)
          /\ UNCHANGED <<config, requests>>
       \/ \E r \in NewRequest :
             /\ clock < MaxStamp
             /\ requests' = [requests EXCEPT ![r].status = "requested"]
             /\ config' = [enabled |-> TRUE, lifecycle |-> "closing"]
             /\ Goto(h, [proc[h] EXCEPT !.req = r,
                                        !.pc = IF dryRun THEN "load_stored" ELSE "load"])
    /\ UNCHANGED <<exec, exchangeVars, snapshotVars, queueVars, serviceVars>>

\* loadLivePosition: a position that is there is stored with a new stamp.
LoadLive(h) ==
    /\ At(h, "load")
    /\ \/ /\ live = 0
          /\ Step(h, "load_stored")
          /\ UNCHANGED snapshotVars
       \/ /\ live # 0
          /\ clock' = clock + 1
          /\ stored' = [qty |-> live, at |-> clock']
          /\ Goto(h, [proc[h] EXCEPT !.pc = "place", !.qty = live, !.stamp = clock'])
    /\ UNCHANGED <<config, requests, exec, exchangeVars, queueVars, serviceVars>>

\* loadStoredPosition, the fallback of loadExitPosition; then ClosePosition.
LoadStored(h) ==
    /\ At(h, "load_stored")
    /\ \/ /\ stored.qty = 0
          /\ Step(h, "complete")
          /\ UNCHANGED snapshotVars
       \/ /\ stored.qty # 0
          /\ \/ stored.at # 0 /\ UNCHANGED snapshotVars
             \/ /\ stored.at = 0
                /\ clock' = clock + 1
                /\ stored' = [stored EXCEPT !.at = clock']
          /\ Goto(h, [proc[h] EXCEPT !.pc = "place", !.qty = stored.qty, !.stamp = stored'.at])
    /\ UNCHANGED <<config, requests, exec, exchangeVars, queueVars, serviceVars>>

\* Mutated: the error is taken for "no position".
ExitCallIgnored(h) ==
    /\ h \in Handler
    /\ Can("failing")
    /\ At(h, "load") \/ At(h, "load_stored")
    /\ Step(h, "complete")
    /\ UNCHANGED <<config, requests, exec, exchangeVars, snapshotVars, queueVars, serviceVars>>

\* A call to the exchange failed: the request is failed before ExitHedge
\* returns the error.
ExitCallFails(h) ==
    /\ h \in Handler
    /\ Can("failing")
    /\ At(h, "load") \/ At(h, "load_stored")
    /\ Step(h, "fail")
    /\ UNCHANGED <<config, requests, exec, exchangeVars, snapshotVars, queueVars, serviceVars>>

\* createPlanAndExecute: an execution of this client order id exists, or the
\* configuration is in dry run, or the exchange is asked.
CreatePlan(h) ==
    /\ At(h, "place")
    /\ LET e == proc[h].stamp
       IN  \/ /\ exec[e] = "failed"
              /\ Step(h, "fail")
              /\ UNCHANGED exec
           \/ /\ exec[e] \notin {"none", "failed"}
              /\ Goto(h, [proc[h] EXCEPT !.pc = "attach", !.status = exec[e]])
              /\ UNCHANGED exec
           \/ /\ exec[e] = "none" /\ dryRun
              /\ exec' = [exec EXCEPT ![e] = "dry_run"]
              /\ Goto(h, [proc[h] EXCEPT !.pc = "attach", !.status = "dry_run"])
           \/ /\ exec[e] = "none" /\ ~dryRun
              /\ Step(h, "order")
              /\ UNCHANGED exec
    /\ UNCHANGED <<config, requests, exchangeVars, snapshotVars, queueVars, serviceVars>>

\* Mutated: ClosePosition without its reduce-only flag.
CloseOrderPlain(l) ==
    [status |-> "submitted", qty |-> l.qty, reduceOnly |-> FALSE]

\* The order ClosePosition asks for.
CloseOrder(l) ==
    [status |-> "submitted", qty |-> l.qty, reduceOnly |-> TRUE]

\* What the exchange fills of it.
FillOf(o) == IF o.reduceOnly /\ o.qty > live THEN live ELSE o.qty

\* An exchange compares a client order id with its open orders, with all it had,
\* or (SimulatedAdapter) with none: the repeated order of a close whose
\* execution was not recorded may be taken once the first one has ended.
Takes(e, o) == orders[e].status # "submitted" /\ FillOf(o) # 0

\* PlaceOrder: the exchange takes the order, and may fill or cancel it at once,
\* or refuses it (a reduce-only order on an empty account, always).
PlaceOrder(h) ==
    /\ At(h, "order")
    /\ LET e == proc[h].stamp
           o == CloseOrder(proc[h])
       IN  \/ /\ Takes(e, o)
              /\ \/ /\ orders' = [orders EXCEPT ![e] = o]
                    /\ live' = live
                    /\ Goto(h, [proc[h] EXCEPT !.pc = "record", !.status = "submitted"])
                 \/ /\ orders' = [orders EXCEPT ![e] = [o EXCEPT !.status = "filled",
                                                                !.qty = FillOf(o)]]
                    /\ live' = live - FillOf(o)
                    /\ Goto(h, [proc[h] EXCEPT !.pc = "record", !.status = "filled"])
                 \/ /\ Can("failing")
                    /\ orders' = [orders EXCEPT ![e] = [o EXCEPT !.status = "canceled"]]
                    /\ live' = live
                    /\ Goto(h, [proc[h] EXCEPT !.pc = "record", !.status = "canceled"])
           \/ /\ Can("failing") \/ FillOf(o) = 0 \/ orders[e].status # "none"
              /\ Goto(h, [proc[h] EXCEPT !.pc = "record", !.status = "failed"])
              /\ UNCHANGED <<orders, live>>
    /\ UNCHANGED <<config, requests, exec, hedge, snapshotVars, queueVars, serviceVars>>

\* createPlanAndExecute: CreateOrderExecution, whose table refuses the status
\* "canceled".
RecordExecution(h) ==
    /\ At(h, "record")
    /\ LET e == proc[h].stamp
           s == proc[h].status
       IN  /\ exec' = IF s \in ExecStatus THEN [exec EXCEPT ![e] = s] ELSE exec
           /\ Step(h, IF s \in {"failed", "canceled"} THEN "fail" ELSE "attach")
    /\ UNCHANGED <<config, requests, exchangeVars, snapshotVars, queueVars, serviceVars>>

\* refreshFilledPosition: the position is stored if it is what is expected.
Refreshed(previous, e) ==
    IF live = previous - orders[e].qty THEN [qty |-> live, at |-> 0] ELSE stored

\* AttachHedgeCloseExecution (only an active request is updated), then the
\* reconciliation of an order that is not filled, or its verification.
AttachHedgeCloseExecution(h) ==
    /\ At(h, "attach")
    /\ LET r == proc[h].req
           e == proc[h].stamp
           s == proc[h].status
       IN  /\ requests' = IF Active(r)
                          THEN [requests EXCEPT ![r] =
                                  [status |-> IF s = "submitted" THEN s ELSE "verifying",
                                   exec   |-> e]]
                          ELSE requests
           /\ stored' = IF s = "filled" THEN Refreshed(proc[h].qty, e) ELSE stored
           /\ IF s \in {"filled", "dry_run"}
              THEN Step(h, "verify") /\ UNCHANGED queueVars
              ELSE Finish(h) /\ Enqueue(e, 0)
    /\ UNCHANGED <<config, exec, exchangeVars, clock, serviceVars>>

\* CompleteHedgeClose of a position that was found closed.
ExitComplete(h) ==
    /\ At(h, "complete")
    /\ CompleteHedgeClose(proc[h].req)
    /\ Finish(h)
    /\ UNCHANGED <<exec, exchangeVars, snapshotVars, queueVars, serviceVars>>

\* FailHedgeClose on ExitHedge's error paths, and in a task whose order failed.
Fail(p) ==
    /\ At(p, "fail")
    /\ FailHedgeClose(proc[p].req)
    /\ Finish(p)
    /\ UNCHANGED <<exec, exchangeVars, snapshotVars, queueVars, serviceVars>>
------------------------------------------------------------------------------
(* finalizeHedgeClose, in ExitHedge and in the tasks *)

\* What follows a close that is not confirmed: ExitHedge schedules the
\* reconciliation of its order, a task schedules the next attempt.
NotConfirmed(p) ==
    IF p \in Handler THEN Finish(p) /\ Enqueue(proc[p].stamp, 0)
                     ELSE Step(p, "next") /\ UNCHANGED queueVars

\* loadLivePosition.  In dry run the exchange is not asked.
VerifyFetch(p) ==
    /\ At(p, "verify")
    /\ \/ /\ dryRun \/ live = 0
          /\ Step(p, "confirm")
          /\ UNCHANGED snapshotVars
       \/ /\ ~dryRun /\ live # 0
          /\ stored' = [qty |-> live, at |-> 0]
          /\ Step(p, "unconfirmed")
          /\ UNCHANGED clock
    /\ UNCHANGED <<config, requests, exec, exchangeVars, queueVars, serviceVars>>

\* loadLivePosition failed.
VerifyError(p) ==
    /\ Can("failing")
    /\ At(p, "verify")
    /\ ~dryRun
    /\ Step(p, "unconfirmed")
    /\ UNCHANGED <<config, requests, exec, exchangeVars, snapshotVars, queueVars, serviceVars>>

\* CompleteHedgeClose: the close is confirmed.
Confirm(p) ==
    /\ At(p, "confirm")
    /\ CompleteHedgeClose(proc[p].req)
    /\ Finish(p)
    /\ UNCHANGED <<exec, exchangeVars, snapshotVars, queueVars, serviceVars>>

\* UpdateHedgeCloseStatus.
KeepVerifying(p) ==
    /\ At(p, "unconfirmed")
    /\ SetVerifying(proc[p].req)
    /\ NotConfirmed(p)
    /\ UNCHANGED <<config, exec, exchangeVars, snapshotVars, serviceVars>>
------------------------------------------------------------------------------
(* Reconciliation tasks: handleOrder and ReconcileOrderExecution *)

\* The execution's state is read.
TaskBegin(t, k) ==
    /\ At(t, "idle")
    /\ k \in tasks
    /\ tasks' = tasks \ {k} /\ UNCHANGED <<archived, locked>>
    /\ Goto(t, [Idle EXCEPT !.pc = IF exec[k.exec] = "submitted" THEN "fetch" ELSE "lookup",
                            !.stamp = k.exec, !.status = exec[k.exec], !.attempt = k.attempt])
    /\ UNCHANGED <<config, requests, exec, exchangeVars, snapshotVars, serviceVars>>

\* reconcileSubmittedOrder: FetchOrder.
FetchOrder(t) ==
    /\ At(t, "fetch")
    /\ \/ Goto(t, [proc[t] EXCEPT !.pc = "persist", !.status = orders[proc[t].stamp].status])
       \/ Can("failing") /\ Step(t, "next")
    /\ UNCHANGED <<config, requests, exec, exchangeVars, snapshotVars, queueVars, serviceVars>>

\* persistedExecutionStatus.
PersistedStatus(p) == IF proc[p].status = "canceled" THEN "failed" ELSE proc[p].status

\* reconcileSubmittedOrder: UpdateOrderExecutionStatus; a fill is looked up in
\* the position, which is stored if it is what the fill should leave.
PersistStatus(p) ==
    /\ At(p, "persist") \/ At(p, "run_persist")
    /\ LET e == proc[p].stamp
           s == PersistedStatus(p)
       IN  /\ exec' = [exec EXCEPT ![e] = s]
           /\ stored' = IF s = "filled" THEN Refreshed(stored.qty, e) ELSE stored
           /\ IF p \in Tasker THEN Goto(p, [proc[p] EXCEPT !.pc = "lookup", !.status = s])
              ELSE IF s = "submitted" THEN Finish(p)
              ELSE Goto(p, [Idle EXCEPT !.pc = "run_guard"])
    /\ UNCHANGED <<config, requests, exchangeVars, clock, queueVars, serviceVars>>

\* GetHedgeCloseRequestByExecutionID, and what the execution's status means.
LookupRequest(t) ==
    /\ At(t, "lookup")
    /\ LET r == RequestOf(proc[t].stamp)
           s == proc[t].status
       IN  IF s = "submitted" \/ (s = "dry_run" /\ r = 0) THEN Step(t, "next")
           ELSE IF r = 0 THEN Finish(t)
           ELSE Goto(t, [proc[t] EXCEPT !.req = r,
                           !.pc = IF s \in {"filled", "dry_run"} THEN "verify" ELSE "fail"])
    /\ UNCHANGED <<config, requests, exec, exchangeVars, snapshotVars, queueVars, serviceVars>>

\* Mutated: the chain just ends.
ScheduleNextOrNothing(t) ==
    /\ At(t, "next")
    /\ Finish(t)
    /\ IF proc[t].attempt + 1 < MaxAttempts
       THEN Enqueue(proc[t].stamp, proc[t].attempt + 1) ELSE UNCHANGED queueVars
    /\ UNCHANGED <<config, requests, exec, exchangeVars, snapshotVars, serviceVars>>

\* scheduleNextOrder: the next attempt, or none is left.
ScheduleNext(t) ==
    /\ At(t, "next")
    /\ IF proc[t].attempt + 1 < MaxAttempts
       THEN Finish(t) /\ Enqueue(proc[t].stamp, proc[t].attempt + 1)
       ELSE Step(t, "exhausted") /\ UNCHANGED queueVars
    /\ UNCHANGED <<config, requests, exec, exchangeVars, snapshotVars, serviceVars>>

\* FailCloseReconciliation: an unfinished request fails.
FailCloseReconciliation(t) ==
    /\ At(t, "exhausted")
    /\ LET r == RequestOf(proc[t].stamp)
       IN  IF r # 0 /\ Active(r)
           THEN Goto(t, [proc[t] EXCEPT !.req = r, !.pc = "fail"])
           ELSE Finish(t)
    /\ UNCHANGED <<config, requests, exec, exchangeVars, snapshotVars, queueVars, serviceVars>>
------------------------------------------------------------------------------
(* RunOnce, as far as it matters to a close; HedgeRun has the rest *)

\* loadConfig, before the lock is taken.
RunLoad(w) ==
    /\ w \in Runner
    /\ Can("auto")
    /\ At(w, "idle")
    /\ config = [enabled |-> TRUE, lifecycle |-> "active"]
    /\ Step(w, "run_lock")
    /\ UNCHANGED <<config, requests, exec, exchangeVars, snapshotVars, queueVars, serviceVars>>

\* TryLock; ErrRunLocked ends the run.
RunTryLock(w) ==
    /\ At(w, "run_lock")
    /\ IF holders = {}
       THEN Lock!Enter(w) /\ proc' = [proc EXCEPT ![w].pc = "run_guard"]
       ELSE Finish(w)
    /\ UNCHANGED <<config, requests, exec, exchangeVars, snapshotVars, queueVars, serviceVars>>

\* automaticRunBlockReason: a submitted execution is looked up first.
RunFetch(w) ==
    /\ At(w, "run_guard")
    /\ \E e \in Stamp :
          /\ exec[e] = "submitted"
          /\ Goto(w, [proc[w] EXCEPT !.pc = "run_persist", !.stamp = e,
                                     !.status = orders[e].status])
    /\ UNCHANGED <<config, requests, exec, exchangeVars, snapshotVars, queueVars, serviceVars>>

\* The cooldown, the wait for a newer snapshot or the thresholds end the run, or
\* it is to open a hedge.  One opening order is placed.
RunGuard(w) ==
    /\ At(w, "run_guard")
    /\ \/ Finish(w)
       \/ /\ hedge = "none" /\ stored.qty = 0 /\ \A e \in Stamp : exec[e] # "submitted"
          /\ Step(w, "run_order")
    /\ UNCHANGED <<config, requests, exec, exchangeVars, snapshotVars, queueVars, serviceVars>>

\* createPlanAndExecute and refreshFilledPosition.
RunOrder(w) ==
    /\ At(w, "run_order")
    /\ \/ hedge' = "submitted" /\ UNCHANGED <<live, stored>>
       \/ /\ hedge' = "filled"
          /\ live' = live + 1
          /\ stored' \in {stored, [qty |-> live', at |-> 0]}
    /\ Finish(w)
    /\ UNCHANGED <<config, requests, exec, orders, clock, queueVars, serviceVars>>

ProcStep(p) ==
    \/ BeginExisting(p) \/ BeginHedgeCloseRequest(p) \/ LoadLive(p) \/ LoadStored(p)
    \/ ExitCallFails(p) \/ CreatePlan(p) \/ PlaceOrder(p) \/ RecordExecution(p)
    \/ AttachHedgeCloseExecution(p) \/ ExitComplete(p) \/ Fail(p)
    \/ VerifyFetch(p) \/ VerifyError(p) \/ Confirm(p) \/ KeepVerifying(p)
    \/ FetchOrder(p) \/ PersistStatus(p) \/ LookupRequest(p)
    \/ ScheduleNext(p) \/ FailCloseReconciliation(p)
    \/ RunTryLock(p) \/ RunFetch(p) \/ RunGuard(p) \/ RunOrder(p)
------------------------------------------------------------------------------
(* The service, the exchange and the operator *)

\* The handler's context is done: every further call with it fails, FailHedgeClose
\* included.  Only the reconciliation of an unconfirmed close is still
\* scheduled, with a background context.
Disconnect(h) ==
    /\ h \in Handler
    /\ Can("disconnect")
    /\ up /\ proc[h].pc # "idle"
    /\ Finish(h)
    /\ IF proc[h].pc \in {"verify", "confirm", "unconfirmed"}
       THEN Enqueue(proc[h].stamp, 0) ELSE UNCHANGED queueVars
    /\ UNCHANGED <<config, requests, exec, exchangeVars, snapshotVars, serviceVars>>

\* The service stops; the run lock's key expires.
Halt ==
    /\ up /\ crashes < MaxCrashes
    /\ up' = FALSE
    /\ crashes' = crashes + 1
    /\ proc' = [p \in Proc |-> Idle]
    /\ holders' = {}
    /\ UNCHANGED <<dryRun, config, requests, exec, exchangeVars, snapshotVars>>

\* It is killed: tasks that are being processed are archived (MaxRetry 0).
Crash ==
    /\ Can("crash")
    /\ Halt
    /\ archived' = archived \cup InProcess
    /\ locked' = locked \cup InProcess
    /\ UNCHANGED tasks

\* It is told to stop: asynqServer.Shutdown puts them back into the queue.
Shutdown ==
    /\ Can("stop")
    /\ Halt
    /\ tasks' = tasks \cup InProcess
    /\ UNCHANGED <<archived, locked>>

\* The unique locks' time to live ends.
LocksExpire ==
    /\ locked # {}
    /\ locked' = {}
    /\ UNCHANGED <<config, requests, exec, exchangeVars, snapshotVars, holders, tasks, archived,
                   proc, serviceVars>>

\* main: an active request without an order is failed, the order of one that
\* has it is reconciled from the first checkpoint on.
Recover ==
    \/ /\ \A r \in Request : ~Active(r)
       /\ UNCHANGED <<config, requests, queueVars>>
    \/ \E r \in Request :
          /\ Active(r)
          /\ \/ /\ requests[r].exec = 0
                /\ FailHedgeClose(r)
                /\ UNCHANGED queueVars
             \/ /\ requests[r].exec # 0
                /\ Enqueue(requests[r].exec, 0)
                /\ UNCHANGED <<config, requests>>

Restart ==
    /\ ~up
    /\ up' = TRUE
    /\ Recover
    /\ UNCHANGED <<dryRun, crashes, exec, exchangeVars, snapshotVars, holders, proc>>

\* Another instance starts while this one is running.
ReplicaStarts ==
    /\ Can("replica")
    /\ up
    /\ Recover
    /\ UNCHANGED <<dryRun, up, crashes, exec, exchangeVars, snapshotVars, holders, proc>>

\* A resting order is filled, or ends without a fill.
ExchangeFill(e) ==
    LET f == FillOf(orders[e])
    IN  /\ orders[e].status = "submitted" /\ f # 0
        /\ orders' = [orders EXCEPT ![e].status = "filled", ![e].qty = f]
        /\ live' = live - f
        /\ UNCHANGED <<config, requests, exec, hedge, snapshotVars, holders, queueVars, proc, serviceVars>>

ExchangeCancel(e) ==
    /\ orders[e].status = "submitted"
    /\ Can("failing") \/ FillOf(orders[e]) = 0
    /\ orders' = [orders EXCEPT ![e].status = "canceled"]
    /\ UNCHANGED <<config, requests, exec, hedge, live, snapshotVars, holders, queueVars, proc, serviceVars>>

HedgeFill ==
    /\ hedge = "submitted"
    /\ hedge' = "filled"
    /\ live' = live + 1
    /\ UNCHANGED <<config, requests, exec, orders, snapshotVars, holders, queueVars, proc, serviceVars>>

\* PositionSyncService.
PositionSync ==
    /\ up
    /\ ~dryRun
    /\ stored.qty # live
    /\ stored' = [qty |-> live, at |-> 0]
    /\ UNCHANGED <<config, requests, exec, exchangeVars, clock, holders, queueVars, proc, serviceVars>>

\* The management application makes the configuration active again.
Reenable ==
    /\ Can("reenable")
    /\ config.lifecycle \in {"disabled", "close_failed"}
    /\ config' = [enabled |-> TRUE, lifecycle |-> "active"]
    /\ UNCHANGED <<requests, exec, exchangeVars, snapshotVars, holders, queueVars, proc, serviceVars>>

Init ==
    /\ dryRun \in DryRunModes
    /\ config = [enabled |-> TRUE, lifecycle |-> "active"]
    /\ requests = [r \in Request |-> [status |-> "none", exec |-> 0]]
    /\ exec = [e \in Stamp |-> "none"]
    /\ orders = [e \in Stamp |-> [status |-> "none", qty |-> 0, reduceOnly |-> FALSE]]
    /\ live \in {0, 1}
    /\ stored = [qty |-> live, at |-> 0]
    /\ hedge \in {"none"} \cup {h \in {"submitted"} : Can("resting") /\ live = 0}
    /\ clock = 0
    /\ Lock!Init
    /\ tasks = {} /\ archived = {} /\ locked = {}
    /\ proc = [p \in Proc |-> Idle]
    /\ up = TRUE /\ crashes = 0

Next ==
    \/ \E h \in Handler : ExitLock(h) \/ Disconnect(h)
    \/ \E w \in Runner : RunLoad(w)
    \/ \E t \in Tasker, k \in Task : TaskBegin(t, k)
    \/ \E p \in Proc : ProcStep(p)
    \/ Crash \/ Shutdown \/ LocksExpire \/ Restart \/ ReplicaStarts
    \/ \E e \in Stamp : ExchangeFill(e) \/ ExchangeCancel(e)
    \/ HedgeFill \/ PositionSync \/ Reenable

Spec == Init /\ [][Next]_vars

\* Handlers and tasks that have begun go on, the queue hands out every task in
\* the end, a service that stopped is started again, and the time to live of a
\* task's lock ends.
FairSpec ==
    /\ Spec
    /\ \A p \in Proc : WF_vars(ProcStep(p))
    /\ \A k \in Task : SF_vars(\E t \in Tasker : TaskBegin(t, k))
    /\ WF_vars(Restart)
    /\ WF_vars(LocksExpire)
------------------------------------------------------------------------------
(* Properties *)

\* A configuration that is closing has one request somebody can still finish,
\* and only one, although tasks, handlers, a restart and a second instance begin,
\* finish and reopen requests in any order.
ClosingHasRequest ==
    config.lifecycle = "closing" => \E r \in Request : Active(r) /\ \A q \in Request : Active(q) => q = r

\* Closing never opens a position on the other side, however many close orders
\* are sent and however old the snapshot they were computed from.
CloseNeverFlips == live >= 0

\* A hedge whose close was confirmed is gone from the exchange:
\* "disabled" is "closed" (000014_add_hedge_close_lifecycle.up.sql).
DisabledMeansFlat == config.lifecycle = "disabled" /\ ~dryRun => live = 0

\* The requests as their table shows them: unfinished, or ended in some way.
Shown == [r \in Request |-> IF Active(r) THEN "active" ELSE requests[r].status]

Lifecycle == INSTANCE CloseLifecycle WITH status <- Shown

\* Handlers, tasks, restarts and a second instance change the configuration and
\* its requests only by the transactions of hedge_close.go, each for a request that
\* was begun: a request is begun when none is unfinished, none is ever forgotten,
\* and closing ends only with the end of one.
ImplementsLifecycle == Lifecycle!Spec

\* Nobody works on a close that was begun, because the task of its order was
\* archived and its unique lock has made another enqueue of it void.
Orphaned ==
    /\ tasks = {} /\ \A p \in Proc : proc[p].pc = "idle"
    /\ \E r \in Request, k \in archived : Active(r) /\ k.exec = requests[r].exec

\* A close comes to an end, "close reconciliation exhausted after 60 seconds"
\* (reconciliation.go) at the latest, or the configuration is disabled: shutdowns,
\* crashes, a second instance and failing calls notwithstanding.  The exception is
\* a service that is killed during a task and restarted before the task's unique
\* lock expires.
ClosingResolves == config.lifecycle = "closing" ~> config.lifecycle # "closing" \/ Orphaned
==============================================================================
