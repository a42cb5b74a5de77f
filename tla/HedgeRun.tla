------------------------------- MODULE HedgeRun -------------------------------
(***************************************************************************)
(* The automatic runs of ONE hedge configuration: RunOnce of               *)
(* internal/service/hedge_service.go step by step, as queue workers        *)
(* execute it, against the exchange, the PostgreSQL tables it shares with  *)
(* the reconciliation tasks and the position sync, and the run lock.       *)
(*                                                                         *)
(* A step is one call to the database or to the exchange together with the *)
(* computation that follows it.  Between two steps anything else may       *)
(* happen, and a worker may stop: it crashed, its context expired or the   *)
(* call failed.  The lock is RunLock, which RedisLock implements.          *)
(*                                                                         *)
(* The mark price is 1, so a quantity is its notional.  Times are stamps:  *)
(* every write of an execution is a fresh instant, and a snapshot has the  *)
(* stamp of the last of them: that is all the guard compares.              *)
(***************************************************************************)
EXTENDS HedgeCalculator, Sequences, FiniteSets

CONSTANTS Worker,       \* queue workers that run RunOnce
          Reconciler,   \* workers of the reconciliation queue
          Cfg,          \* the hedge configuration (ConfigType)
          DryRunModes,  \* values of config.DryRun to start from
          Exposures,    \* net platform exposures, in USDT
          MaxPlans,     \* bound: order plans in the table
          MaxExposures, \* bound: exposure snapshots taken
          MaxRepeats,   \* bound: orders under a client order id that was in use
          MaxTime,      \* bound: no run, task or sync begins after this stamp
          Environment   \* which of the behaviours below can happen

\* crash: a run stops between two steps.      reply_lost: the exchange accepts
\* an order but PlaceOrder returns an error.  cancel: an order is cancelled,
\* perhaps partly filled.                     task: reconciliation tasks run.
\* sync: the position sync runs.              manual: runs with a reason.
Behaviours == {"crash", "reply_lost", "cancel", "task", "sync", "manual"}

ASSUME RunAssumption ==
    /\ Cfg \in ConfigType
    /\ Cfg.enabled /\ Cfg.ratio >= 0 /\ Cfg.min > 0
    /\ DryRunModes \subseteq BOOLEAN
    /\ Exposures \subseteq Int
    /\ MaxPlans \in Nat /\ MaxExposures \in Nat
    /\ MaxRepeats \in Nat /\ MaxTime \in Nat
    /\ Environment \subseteq Behaviours
    /\ Worker \cap Reconciler = {}

VARIABLES now,        \* the last timestamp given
          dryRun,     \* config.DryRun
          holders,    \* who is inside the run lock (RunLock)
          exposure,   \* exposure_snapshots row
          stored,     \* hedge_position_snapshots row
          plans,      \* order_plans: the client order ids, by plan
          exec,       \* order_executions, by plan
          orders,     \* the exchange's orders, by client order id: the latest under it
          strays,     \* the earlier orders under the same client order id
          live,       \* the position the account really has
          visible,    \* the position FetchPositions reports
          proc,       \* local state of every worker
          sync        \* local state of the position sync

dbVars == <<exposure, stored, plans, exec>>
exchangeVars == <<orders, strays, live, visible>>
vars == <<now, dryRun, holders, dbVars, exchangeVars, proc, sync>>

Lock == INSTANCE RunLock WITH Run <- Worker

Proc == Worker \cup Reconciler
Plan == 1 .. MaxPlans
Can(b) == b \in Environment

\* order_executions_status_check, and no row.
ExecStatus == {"none", "submitted", "filled", "failed", "dry_run"}
OrderStatus == {"none", "submitted", "filled", "canceled"}
Step == {"idle", "guard", "fetch", "persist", "previous", "refresh", "write", "position_guard",
         "exposure", "position", "plan", "place", "record", "record_failed"}

SnapshotType == [known : BOOLEAN, qty : Int, at : Nat]
NoSnapshot == [known |-> FALSE, qty |-> 0, at |-> 0]
\* late (history): was written by a reconciliation that found it submitted
\* before another one had recorded its end.
ExecType == [status : ExecStatus, at : Nat, filled : Int, late : BOOLEAN]
NoExec == [status |-> "none", at |-> 0, filled |-> 0, late |-> FALSE]
OrderType == [status : OrderStatus, qty : Int, filled : Int, reduceOnly : BOOLEAN]
NoOrderYet == [status |-> "none", qty |-> 0, filled |-> 0, reduceOnly |-> FALSE]
ExposureType == [notional : Exposures \cup {0}, at : Nat]
PlanType == [exposureAt : Nat, action : {"none", "open", "rebalance", "exit"},
             target : Int, current : Int, adjustment : Int]
ProcType == [pc : Step, plan : 0 .. MaxPlans, status : OrderStatus, filled : Int, ordered : Int,
             prev : SnapshotType, expo : ExposureType, read : SnapshotType,
             guarding : BOOLEAN, since : Nat]
Idle == [pc |-> "idle", plan |-> 0, status |-> "none", filled |-> 0, ordered |-> 0,
         prev |-> NoSnapshot, expo |-> [notional |-> 0, at |-> 0], read |-> NoSnapshot,
         guarding |-> FALSE, since |-> 0]

TypeOK ==
    /\ now \in Nat
    /\ dryRun \in BOOLEAN
    /\ holders \subseteq Worker
    /\ exposure \in ExposureType
    /\ stored \in SnapshotType
    /\ plans \in [Plan -> PlanType]
    /\ exec \in [Plan -> ExecType]
    /\ orders \in [Plan -> OrderType]
    /\ strays \in [Plan -> Seq(OrderType)]
    /\ live \in Int /\ visible \in Int
    /\ proc \in [Proc -> ProcType]
    /\ sync \in [pc : {"idle", "fetched"}, qty : Int]
------------------------------------------------------------------------------
(* What the database and the exchange compute *)

NoPlan == [exposureAt |-> 0, action |-> "none", target |-> 0, current |-> 0, adjustment |-> 0]

\* ORDER BY updated_at DESC LIMIT 1: 0 when there is no execution.
NewestOf(S) == IF S = {} THEN 0 ELSE CHOOSE p \in S : \A q \in S : exec[q].at <= exec[p].at

\* Mutated: a query that leaves submitted executions out.
LatestFinal == NewestOf({p \in Plan : exec[p].status \notin {"none", "submitted"}})

\* GetLatestOrderExecutionStateByConfigID.
Latest == NewestOf({p \in Plan : exec[p].status # "none"})

\* CreateOrderExecution: one row per plan; on a conflict only its updated_at
\* changes.
CreateOrderExecution(p, status, filled, at) ==
    [exec EXCEPT ![p] = IF @.status = "none"
                        THEN [status |-> status, at |-> at, filled |-> filled, late |-> FALSE]
                        ELSE [@ EXCEPT !.at = at]]

\* UpdateOrderExecutionStatus: whatever the row says by now, and a trigger
\* stamps it anew.
UpdateOrderExecutionStatus(p, status, filled, at) ==
    [exec EXCEPT ![p] = [status |-> status, at |-> at, filled |-> filled,
                         late |-> @.late \/ @.status # "submitted"]]

\* The decision RunOnce takes from an exposure and a position snapshot.
DecisionOn(expo, pos) ==
    Calculate(Cfg, expo.notional, 1, [quantity |-> pos.qty, notional |-> pos.qty])

\* makeClientOrderID: what the hash is taken of.
ClientOrderID(expo, pos) ==
    LET d == DecisionOn(expo, pos)
    IN  [exposureAt |-> expo.at, action |-> d.action,
         target |-> Goal(Cfg, expo.notional, pos.qty), current |-> pos.qty,
         adjustment |-> d.adjustment]

\* The signed quantity of a decision's order (mark price 1).
OrderQuantity(d) == IF d.side = "BUY" THEN d.quantity.num ELSE -d.quantity.num

\* How much of order o fills on an account holding q.
FillOf(o, q) ==
    IF ~o.reduceOnly THEN o.qty
    ELSE IF Sign(o.qty) = Sign(q) THEN 0
    ELSE IF Abs(o.qty) <= Abs(q) THEN o.qty ELSE -q

\* Mutated: a status no reader knows; and everything that did not fail is filled.
PersistedMisspelt(s) == IF s = "canceled" THEN "cancelled" ELSE s
PersistedAsFilled(s) == IF s = "canceled" THEN "failed" ELSE "filled"

\* persistedExecutionStatus.
PersistedStatus(s) == IF s = "canceled" THEN "failed" ELSE s

\* expectedPositionQuantity: an execution without a filled quantity counts as
\* filled to the quantity that was ordered.
Expected(prev, filled, ordered) == prev.qty + (IF filled = 0 THEN ordered ELSE filled)
------------------------------------------------------------------------------
(* Helpers of the workers *)

At(w, step) == proc[w].pc = step

Goto(w, l) == proc' = [proc EXCEPT ![w] = l]

\* Mutated: a return that is not followed by the release.
FinishLocked(w) == Goto(w, Idle) /\ UNCHANGED holders

\* The deferred release ends a run of RunOnce; a reconciliation has no lock.
Finish(w) ==
    /\ Goto(w, Idle)
    /\ IF w \in Worker THEN Lock!Leave(w) ELSE UNCHANGED holders

\* The step goes on: still inside the lock.
Continue(w, l) == Goto(w, l) /\ UNCHANGED holders
------------------------------------------------------------------------------
(* Runs *)

\* loadConfig and TryLock of an automatic run.
Begin(w) ==
    /\ w \in Worker
    /\ At(w, "idle")
    /\ now < MaxTime
    /\ Lock!Enter(w)
    /\ Goto(w, [Idle EXCEPT !.pc = "guard", !.guarding = TRUE])
    /\ UNCHANGED <<now, dryRun, dbVars, exchangeVars, sync>>

\* The same of a run with a reason, which skips the guard.
BeginManual(w) ==
    /\ w \in Worker
    /\ Can("manual")
    /\ At(w, "idle")
    /\ now < MaxTime
    /\ Lock!Enter(w)
    /\ Goto(w, [Idle EXCEPT !.pc = "exposure"])
    /\ UNCHANGED <<now, dryRun, dbVars, exchangeVars, sync>>

\* automaticRunBlockReason: the latest execution.  A filled one blocks for the
\* cooldown, however long the run has taken to get here, so either may happen.
Guard(w) ==
    /\ At(w, "guard")
    /\ LET p == Latest
           s == IF p = 0 THEN "none" ELSE exec[p].status
       IN  \/ /\ s \in {"none", "failed", "dry_run"}
              /\ Continue(w, [proc[w] EXCEPT !.pc = "exposure"])
           \/ /\ s = "submitted"
              /\ Continue(w, [proc[w] EXCEPT !.pc = "fetch", !.plan = p])
           \/ /\ s = "filled"
              /\ \/ Finish(w)
                 \/ Continue(w, [proc[w] EXCEPT !.pc = "position_guard", !.since = exec[p].at])
    /\ UNCHANGED <<now, dryRun, dbVars, exchangeVars, sync>>

\* A reconciliation task finds its execution submitted (ReconcileOrderExecution).
TaskBegin(t) ==
    /\ t \in Reconciler
    /\ Can("task")
    /\ At(t, "idle")
    /\ now < MaxTime
    /\ \E p \in Plan :
          /\ exec[p].status = "submitted"
          /\ Continue(t, [Idle EXCEPT !.pc = "fetch", !.plan = p])
    /\ UNCHANGED <<now, dryRun, dbVars, exchangeVars, sync>>

\* Mutated: a lookup that finds open orders only.
FetchOpen(w) ==
    /\ At(w, "fetch")
    /\ orders[proc[w].plan].status = "submitted"
    /\ Continue(w, [proc[w] EXCEPT !.pc = "persist", !.status = "submitted"])
    /\ UNCHANGED <<now, dryRun, dbVars, exchangeVars, sync>>

\* reconcileSubmittedOrder: FetchOrder.
FetchSubmitted(w) ==
    /\ At(w, "fetch")
    /\ LET o == orders[proc[w].plan]
       IN  Continue(w, [proc[w] EXCEPT !.pc = "persist", !.status = o.status,
                                      !.filled = o.filled])
    /\ UNCHANGED <<now, dryRun, dbVars, exchangeVars, sync>>

\* reconcileSubmittedOrder: FetchOrder failed and the order stays pending.
FetchError(w) ==
    /\ At(w, "fetch")
    /\ Finish(w)
    /\ UNCHANGED <<now, dryRun, dbVars, exchangeVars, sync>>

\* reconcileSubmittedOrder: UpdateOrderExecutionStatus (and the plan's), then
\* on with the guard, whose next question depends on the new status.
PersistReconciled(w) ==
    /\ At(w, "persist")
    /\ LET s == PersistedStatus(proc[w].status)
       IN  /\ now' = now + 1
           /\ exec' = UpdateOrderExecutionStatus(proc[w].plan, s, proc[w].filled, now')
           /\ \/ /\ s = "filled"
                 /\ Continue(w, [proc[w] EXCEPT !.pc = "previous", !.since = now'])
              \/ /\ s = "submitted"
                 /\ Finish(w)
              \/ /\ s \notin {"filled", "submitted"}
                 /\ IF proc[w].guarding
                    THEN Continue(w, [Idle EXCEPT !.pc = "exposure"])
                    ELSE Finish(w)
    /\ UNCHANGED <<dryRun, exposure, stored, plans, exchangeVars, sync>>

\* reconcileSubmittedOrder: loadStoredPosition, which the fill is added to.
LoadPrevious(w) ==
    /\ At(w, "previous")
    /\ Continue(w, [proc[w] EXCEPT !.pc = "refresh", !.prev = stored,
                                   !.ordered = proc[w].filled])
    /\ UNCHANGED <<now, dryRun, dbVars, exchangeVars, sync>>

\* refreshFilledPosition: FetchPositions, stamped when it answers.  A failing
\* call leaves the snapshot alone.
RefreshFetch(w) ==
    /\ At(w, "refresh")
    /\ Continue(w, [proc[w] EXCEPT !.pc = "write",
                       !.read = [known |-> TRUE, qty |-> visible, at |-> now]])
    /\ UNCHANGED <<now, dryRun, dbVars, exchangeVars, sync>>

\* Where a run goes when the refresh is over: the guard goes on to ask about
\* the cooldown and the snapshot; a run that placed the order is done.
AfterRefresh(w) ==
    \/ Finish(w)
    \/ proc[w].guarding /\ Continue(w, [proc[w] EXCEPT !.pc = "position_guard"])

\* Mutated: any snapshot will do.
ReflectsAnything(l) == TRUE

\* refreshFilledPosition: the snapshot shows the fill.
ReflectsFill(l) == l.read.qty = Expected(l.prev, l.filled, l.ordered)

\* refreshFilledPosition: only such a snapshot is stored.
RefreshWrite(w) ==
    /\ At(w, "write")
    /\ stored' = IF ReflectsFill(proc[w]) THEN proc[w].read ELSE stored
    /\ AfterRefresh(w)
    /\ UNCHANGED <<now, dryRun, exposure, plans, exec, exchangeVars, sync>>

\* refreshFilledPosition: the query, FetchPositions or the upsert failed.
RefreshError(w) ==
    /\ proc[w].pc \in {"previous", "refresh", "write"}
    /\ AfterRefresh(w)
    /\ UNCHANGED <<now, dryRun, dbVars, exchangeVars, sync>>

\* automaticRunBlockReason: wait until the snapshot is as new as the fill.
GuardPosition(w) ==
    /\ At(w, "position_guard")
    /\ IF stored.known /\ stored.at >= proc[w].since
       THEN Continue(w, [Idle EXCEPT !.pc = "exposure"])
       ELSE Finish(w)
    /\ UNCHANGED <<now, dryRun, dbVars, exchangeVars, sync>>

\* GetExposureSnapshot; there is none before the first exposure sync.
ReadExposure(w) ==
    /\ At(w, "exposure")
    /\ IF exposure.at = 0 THEN Finish(w)
       ELSE Continue(w, [Idle EXCEPT !.pc = "position", !.expo = exposure])
    /\ UNCHANGED <<now, dryRun, dbVars, exchangeVars, sync>>

\* loadPosition and Calculate.
ReadPosition(w) ==
    /\ At(w, "position")
    /\ IF DecisionOn(proc[w].expo, stored).action \in {"hold", "skip", "error"}
       THEN Finish(w)
       ELSE Continue(w, [proc[w] EXCEPT !.pc = "plan", !.prev = stored,
                            !.ordered = OrderQuantity(DecisionOn(proc[w].expo, stored))])
    /\ UNCHANGED <<now, dryRun, dbVars, exchangeVars, sync>>

\* CreateOrderPlan: the row of this client order id, inserted if missing.
PlanFor(id) ==
    {p \in Plan : plans[p] = id \/ /\ plans[p] = NoPlan
                                   /\ \A q \in Plan : plans[q] # id
                                   /\ \A q \in 1 .. (p - 1) : plans[q] # NoPlan}

\* createPlanAndExecute up to the order: plan, existing execution, dry run.
CreatePlan(w) ==
    /\ At(w, "plan")
    /\ LET id == ClientOrderID(proc[w].expo, proc[w].prev)
       IN  \/ /\ PlanFor(id) = {}          \* bound MaxPlans reached
              /\ Finish(w)
              /\ UNCHANGED <<now, plans, exec>>
           \/ \E p \in PlanFor(id) :
                /\ plans' = [plans EXCEPT ![p] = id]
                /\ \/ /\ exec[p].status = "none" /\ ~dryRun
                      /\ Continue(w, [proc[w] EXCEPT !.pc = "place", !.plan = p])
                      /\ UNCHANGED <<now, exec>>
                   \/ /\ exec[p].status = "none" /\ dryRun
                      /\ now' = now + 1
                      /\ exec' = CreateOrderExecution(p, "dry_run", 0, now')
                      /\ Finish(w)
                   \/ /\ exec[p].status = "filled" /\ ~dryRun
                      /\ Continue(w, [proc[w] EXCEPT !.pc = "refresh", !.plan = p,
                                                     !.filled = exec[p].filled])
                      /\ UNCHANGED <<now, exec>>
                   \/ /\ exec[p].status # "none"
                      /\ ~(exec[p].status = "filled" /\ ~dryRun)
                      /\ Finish(w)
                      /\ UNCHANGED <<now, exec>>
    /\ UNCHANGED <<dryRun, exposure, stored, exchangeVars, sync>>

\* The order a decision asks for.
OrderOf(w) ==
    LET d == DecisionOn(proc[w].expo, proc[w].prev)
    IN  [status |-> "submitted", qty |-> proc[w].ordered, filled |-> 0,
         reduceOnly |-> d.reduceOnly]

\* The order under plan p's client order id never came to anything.
Void(p) == orders[p].status \in {"none", "canceled"} /\ orders[p].filled = 0

\* The exchange takes order o under plan p's client order id.  A crash between
\* PlaceOrder and CreateOrderExecution makes the next run ask for the same order
\* again, and SimulatedAdapter takes it: it only hashes the id with the time.
Take(p, o) ==
    /\ orders' = [orders EXCEPT ![p] = o]
    /\ \/ Void(p) /\ strays' = strays
       \/ /\ ~Void(p)
          /\ Len(strays[p]) < MaxRepeats
          /\ strays' = [strays EXCEPT ![p] = Append(@, orders[p])]

\* PlaceOrder.  The exchange takes an order (and may fill or cancel it before
\* answering), rejects it, as many do when they have seen its client order id,
\* or takes it and the answer is lost.
PlaceOrder(w) ==
    /\ At(w, "place")
    /\ LET p == proc[w].plan
           o == OrderOf(w)
           f == FillOf(o, live)
           full == [o EXCEPT !.status = "filled", !.filled = f]
       IN  \/ /\ Take(p, o)
              /\ live' = live
              /\ \/ Continue(w, [proc[w] EXCEPT !.pc = "record", !.status = "submitted"])
                 \/ Can("reply_lost") /\ Continue(w, [proc[w] EXCEPT !.pc = "record_failed"])
           \/ /\ Take(p, full)
              /\ live' = live + f
              /\ Continue(w, [proc[w] EXCEPT !.pc = "record", !.status = "filled", !.filled = f])
           \/ /\ Can("cancel")
              /\ Take(p, [o EXCEPT !.status = "canceled"])
              /\ live' = live
              /\ Continue(w, [proc[w] EXCEPT !.pc = "record", !.status = "canceled"])
           \/ /\ Continue(w, [proc[w] EXCEPT !.pc = "record_failed"])
              /\ UNCHANGED <<orders, strays, live>>
    /\ UNCHANGED <<now, dryRun, dbVars, visible, sync>>

\* createPlanAndExecute: the exchange's answer is recorded (CreateOrderExecution,
\* UpdateOrderPlanStatus); a fill is then looked up.  The table has no status for
\* an order that was cancelled at once: the insert fails and no row is left.
RecordExecution(w) ==
    /\ At(w, "record")
    /\ \/ /\ proc[w].status # "canceled"
          /\ now' = now + 1
          /\ exec' = CreateOrderExecution(proc[w].plan, proc[w].status, proc[w].filled, now')
          /\ IF proc[w].status = "filled"
             THEN Continue(w, [proc[w] EXCEPT !.pc = "refresh"])
             ELSE Finish(w)
       \/ /\ proc[w].status = "canceled"
          /\ Finish(w)
          /\ UNCHANGED <<now, exec>>
    /\ UNCHANGED <<dryRun, exposure, stored, plans, exchangeVars, sync>>

\* createPlanAndExecute: PlaceOrder returned an error.
RecordFailed(w) ==
    /\ At(w, "record_failed")
    /\ now' = now + 1
    /\ exec' = CreateOrderExecution(proc[w].plan, "failed", 0, now')
    /\ Finish(w)
    /\ UNCHANGED <<dryRun, exposure, stored, plans, exchangeVars, sync>>

\* A run stops where it is: the process died, the context expired, or a call
\* to the database failed and RunOnce returned its error.
Abort(w) ==
    /\ Can("crash")
    /\ ~At(w, "idle")
    /\ Finish(w)
    /\ UNCHANGED <<now, dryRun, dbVars, exchangeVars, sync>>

ProcStep(w) ==
    \/ Guard(w) \/ FetchSubmitted(w) \/ FetchError(w) \/ PersistReconciled(w)
    \/ LoadPrevious(w) \/ RefreshFetch(w) \/ RefreshWrite(w) \/ RefreshError(w) \/ GuardPosition(w)
    \/ ReadExposure(w) \/ ReadPosition(w) \/ CreatePlan(w)
    \/ PlaceOrder(w) \/ RecordExecution(w) \/ RecordFailed(w)
------------------------------------------------------------------------------
(* Everything else *)

\* The exposure sync writes a new snapshot (UpsertExposureSnapshot).
ExposureSync ==
    /\ exposure.at < MaxExposures
    /\ \E e \in Exposures : exposure' = [notional |-> e, at |-> exposure.at + 1]
    /\ UNCHANGED <<now, dryRun, holders, stored, plans, exec, exchangeVars, proc, sync>>

\* PositionSyncService.syncAccount: FetchPositions, then the stamp and the upsert.
SyncFetch ==
    /\ Can("sync")
    /\ sync.pc = "idle"
    /\ sync' = [pc |-> "fetched", qty |-> visible]
    /\ UNCHANGED <<now, dryRun, holders, dbVars, exchangeVars, proc>>

\* Mutated: no zero snapshot is written for a missing position.
SyncWriteNonZero ==
    /\ sync.pc = "fetched"
    /\ stored' = IF sync.qty = 0 THEN stored ELSE [known |-> TRUE, qty |-> sync.qty, at |-> now]
    /\ sync' = [pc |-> "idle", qty |-> 0]
    /\ UNCHANGED <<now, dryRun, holders, exposure, plans, exec, exchangeVars, proc>>

SyncWrite ==
    /\ sync.pc = "fetched"
    /\ stored' = [known |-> TRUE, qty |-> sync.qty, at |-> now]
    /\ sync' = [pc |-> "idle", qty |-> 0]
    /\ UNCHANGED <<now, dryRun, holders, exposure, plans, exec, exchangeVars, proc>>

\* The exchange fills a resting order.
ExchangeFill(p) ==
    LET f == FillOf(orders[p], live)
    IN  /\ orders[p].status = "submitted"
        /\ orders' = [orders EXCEPT ![p].status = "filled", ![p].filled = f]
        /\ live' = live + f
        /\ UNCHANGED <<now, dryRun, holders, dbVars, strays, visible, proc, sync>>

\* An order ends unfilled or partly filled.
ExchangeCancel(p) ==
    /\ Can("cancel")
    /\ orders[p].status = "submitted"
    /\ \E f \in {0, Sign(FillOf(orders[p], live))} :
          /\ orders' = [orders EXCEPT ![p].status = "canceled", ![p].filled = f]
          /\ live' = live + f
    /\ UNCHANGED <<now, dryRun, holders, dbVars, strays, visible, proc, sync>>

\* What can become of the resting order o.
EndsOf(o) ==
    {[o EXCEPT !.status = "filled", !.filled = FillOf(o, live)]} \cup
    {[o EXCEPT !.status = "canceled", !.filled = f] :
        f \in IF Can("cancel") THEN {0, Sign(FillOf(o, live))} ELSE {}}

\* An earlier order under plan p's client order id ends.
StrayEnds(p) ==
    /\ \E i \in DOMAIN strays[p] :
          /\ strays[p][i].status = "submitted"
          /\ \E o \in EndsOf(strays[p][i]) :
                /\ strays' = [strays EXCEPT ![p][i] = o]
                /\ live' = live + o.filled
    /\ UNCHANGED <<now, dryRun, holders, dbVars, orders, visible, proc, sync>>

\* The position endpoint catches up with the fills.
ExchangePublish ==
    /\ visible # live
    /\ visible' = live
    /\ UNCHANGED <<now, dryRun, holders, dbVars, orders, strays, live, proc, sync>>

Init ==
    /\ now = 0
    /\ dryRun \in DryRunModes
    /\ Lock!Init
    /\ exposure = [notional |-> 0, at |-> 0]
    /\ stored = NoSnapshot
    /\ plans = [p \in Plan |-> NoPlan]
    /\ exec = [p \in Plan |-> NoExec]
    /\ orders = [p \in Plan |-> NoOrderYet]
    /\ strays = [p \in Plan |-> <<>>]
    /\ live = 0 /\ visible = 0
    /\ proc = [w \in Proc |-> Idle]
    /\ sync = [pc |-> "idle", qty |-> 0]

Next ==
    \/ \E w \in Proc : Begin(w) \/ BeginManual(w) \/ TaskBegin(w) \/ ProcStep(w) \/ Abort(w)
    \/ ExposureSync \/ SyncFetch \/ SyncWrite
    \/ \E p \in Plan : ExchangeFill(p) \/ ExchangeCancel(p) \/ StrayEnds(p)
    \/ ExchangePublish

Spec == Init /\ [][Next]_vars

\* A run that holds the lock keeps executing until it ends: its context has a
\* deadline, so every call returns, with a result or an error.
FairSpec == Spec /\ \A w \in Proc : WF_vars(ProcStep(w))

\* Moreover automatic runs and position syncs start again and again (the
\* schedulers of internal/scheduler), also when runs with a reason compete for
\* the lock, and the exchange does not fail to answer for ever.
ScheduledSpec ==
    /\ FairSpec
    /\ \A w \in Worker : SF_vars(Begin(w)) /\ SF_vars(FetchSubmitted(w))
    /\ WF_vars(SyncFetch) /\ WF_vars(SyncWrite)
------------------------------------------------------------------------------
(* Properties *)

\* Some run knows of plan p's order and is about to record it.
BeingRecorded(p) == \E w \in Worker : At(w, "record") /\ proc[w].plan = p

\* The exchange has, or has filled, plan p's order, and the database does not know
\* of it or believes it failed; or the order ended partly filled, which
\* persistedExecutionStatus records as a failure.
Misrecorded(p) ==
    \/ /\ orders[p].status \in {"submitted", "filled"}
       /\ exec[p].status \notin {"submitted", "filled"}
       /\ ~BeingRecorded(p)
    \/ orders[p].status = "canceled" /\ orders[p].filled # 0

\* The database has no truthful record of an order of plan p: the latest one, or
\* an earlier one under the same client order id.
Unaccounted(p) == Misrecorded(p) \/ strays[p] # <<>>

\* The hedge is, and after the fill of any resting order would be, within the
\* configured MaxNotionalUSDT.
WithinCap ==
    /\ Abs(live) <= Cfg.max
    /\ \A p \in Plan : orders[p].status = "submitted"
                          => Abs(live + FillOf(orders[p], live)) <= Cfg.max

\* No reconciliation has rewritten an execution another one had finished.
NothingLate == \A p \in Plan : ~exec[p].late

\* Duplicate orders are the one way a hedge can outgrow MaxNotionalUSDT, and
\* lock, guard and idempotent plans exclude them, across crashes, retries, late
\* fills and a lagging position endpoint, as long as the database has a truthful
\* record of every order the exchange took and no slow task rewrites an old one.
CapUnlessUnaccounted == (NothingLate /\ \A p \in Plan : ~Unaccounted(p)) => WithinCap

\* The orders the database has no truthful record of.
Unrecorded ==
    ({0} \X {p \in Plan : Misrecorded(p)}) \cup UNION {(DOMAIN strays[p]) \X {p} : p \in Plan}

\* A lost answer, a crash between placing and recording, and an order that ends
\* partly filled do let the hedge outgrow its cap, but by one order each: what
\* comes after such an order is guarded and computed as ever.
ExcessBounded == NothingLate => Abs(live) <= (1 + Cardinality(Unrecorded)) * Cfg.max

\* "Submitted orders and fills newer than the latest position snapshot are
\* skipped rather than risk a duplicate order" (README.md), with nothing assumed
\* about records.
NoDuplicateOrder == WithinCap

\* The same where the database's records are true, however slow the tasks are
\* that made them.
NoDuplicateIfRecorded == (\A p \in Plan : ~Unaccounted(p)) => WithinCap

\* The database has recorded what became of every order.
Settled == \A p \in Plan : orders[p].status # "none"
                    => PersistedStatus(exec[p].status) = PersistedStatus(orders[p].status)

\* "stale position must not be marked as synchronized"
\* (hedge_service_test.go): once the guard accepts the snapshot as newer than
\* the latest fill, the snapshot shows the position the account has.
FreshMeansReflected ==
    LET p == Latest
    IN  /\ p # 0 /\ Settled /\ NothingLate /\ \A q \in Plan : ~Unaccounted(q)
        /\ exec[p].status = "filled" /\ stored.known /\ stored.at >= exec[p].at
        => stored.qty = live

\* At most one execution of the configuration is waiting for the exchange, so
\* looking at the latest execution is enough for the guard, unless a slow task
\* rewrote an old one.
OnePendingExecution ==
    NothingLate => \A p, q \in Plan :
        exec[p].status = "submitted" /\ exec[q].status = "submitted" => p = q

\* The database never shows an order the exchange does not have, nor a fill
\* other than the one the exchange made, whoever wrote it last.
RecordsAreTrue ==
    \A p \in Plan :
        /\ exec[p].status \in {"submitted", "filled"} => orders[p].status # "none"
        /\ exec[p].status = "filled" => /\ orders[p].status = "filled"
                                       /\ exec[p].filled = orders[p].filled

\* A run that takes the lock ends and gives it back.
LockComesFree == holders # {} ~> holders = {}

\* An order that has ended does not block the configuration for ever: some run
\* learns of its end, or a later order takes its place at the guard (one of a run
\* with a reason, which does not ask the guard).  Or the model's clock stops first.
PendingResolved ==
    \A p \in Plan :
        (Latest = p /\ exec[p].status = "submitted" /\ orders[p].status \in {"filled", "canceled"})
            ~> (Latest # p \/ exec[p].status # "submitted" \/ now >= MaxTime)

\* The guard keeps automatic runs waiting for a newer position snapshot.
WaitingForPosition ==
    LET p == Latest
    IN  p # 0 /\ exec[p].status = "filled" /\ ~(stored.known /\ stored.at >= exec[p].at)

\* That wait ends, even if no refresh ever sees the position it expects.
GuardReopens == WaitingForPosition ~> ~WaitingForPosition \/ now >= MaxTime
==============================================================================
