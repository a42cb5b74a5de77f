----------------------------- MODULE ExternalOps -----------------------------
(***************************************************************************)
(* Orders and position settings that callers of the HTTP API bring about   *)
(* with accounts they describe themselves                                  *)
(* (internal/httpapi/exchange_adapter.go), and the tasks that follow them  *)
(* (internal/tasks/reconciliation.go,                                      *)
(* internal/service/exchange_reconciliation_service.go).  A handler calls  *)
(* the adapter, then finds the stored account and enqueues the first of up *)
(* to Attempts lookups; every lookup enqueues the next one itself.         *)
(***************************************************************************)
EXTENDS ExchangeAdapter

CONSTANTS Handler,     \* requests in flight
          Account,     \* stored exchange accounts
          Stored,      \* [Account -> [identity, key]]
          Refs,        \* how requests describe an account: [id (0: none), identity, key]
          Quantities,  \* signed quantities of orders
          Leverages,   \* values of settings
          Attempts,    \* len(reconciliationCheckpoints)
          Budgets      \* bounds of a behaviour: requests; faults (failed calls, lost tasks
                       \* and answers, restarts); operations that callers use

ASSUME OpsAssumption ==
    /\ Attempts \in Nat \ {0}
    /\ Quantities \subseteq Int
    /\ Budgets \subseteq [requests : Nat, faults : Nat,
                         operations : SUBSET {"place", "reduce", "cancel", "close", "set"}]
    /\ 0 \notin Account

VARIABLES status,   \* status of every stored account
          http,     \* local state of every handler
          queue,    \* tasks, waiting and running
          requests, faults, operations,  \* bounds: what may still happen
          acked,    \* history: orders whose acceptance a handler was told of
          audited, exhausted, lost, \* history: orders given up, and how
          unaudited, \* history: orders given up, and nothing is recorded of it
          lookups   \* history: lookups of every order, up to Attempts

opsVars == <<status, http, queue, requests, faults, operations, acked, audited, exhausted,
             lost, unaudited, lookups>>
vars == <<adapterVars, opsVars>>

Idle == [pc |-> "idle"]
SettingKinds == {"leverage", "margin_mode"}
Subject == [kind : {"order"}, o : 1 .. MaxOrders]
           \cup [kind : SettingKinds, symbol : Symbols, expected : Leverages]
Task == [acct : Account, subject : Subject, attempt : 0 .. Attempts - 1,
         state : {"waiting", "again", "done"}]

Faulty == faults > 0 /\ faults' = faults - 1
OrdersOf(subjects) == {x.o : x \in {y \in subjects : y.kind = "order"}}
------------------------------------------------------------------------------
(* Accounts and queue *)

\* Mutated: the key is not compared.
KeyMatchesAlways(ref, a) == TRUE

\* A key in the request has to be the stored one.
KeyMatches(ref, a) == ref.key \in {"", Stored[a].key}

\* ResolveAccountID: the account with the number, or the only active one with
\* the identity; it has to be active.
Candidates(ref) ==
    IF ref.id # 0 THEN {ref.id} \cap Account
    ELSE {a \in Account : status[a] = "active" /\ Stored[a].identity = ref.identity}
Resolved(ref) ==
    {a \in Candidates(ref) : /\ Cardinality(Candidates(ref)) = 1
                             /\ status[a] = "active"
                             /\ KeyMatches(ref, a)}

\* Mutated: the attempt is not part of the task's identity.
SameTaskAnyAttempt(t, acct, subject, attempt) == t.acct = acct /\ t.subject = subject

\* asynq.Unique compares the payloads.
SameTask(t, acct, subject, attempt) ==
    t.acct = acct /\ t.subject = subject /\ t.attempt = attempt

\* enqueueReconciliationTask: a duplicate is no error.  The lock of a running
\* task may have expired (30 seconds).
Enqueued(q, acct, subject, attempt) ==
    LET new == q \cup {[acct |-> acct, subject |-> subject, attempt |-> attempt, state |-> "waiting"]}
        same == {t \in queue : SameTask(t, acct, subject, attempt)}
    IN  IF same = {} THEN {new}
        ELSE IF \A t \in same : t.state # "waiting" THEN {new, q} ELSE {q}

\* Mutated: one checkpoint less.
HasDelayShort(attempt) == attempt < Attempts - 1

\* reconciliationDelay.
HasDelay(attempt) == attempt < Attempts
------------------------------------------------------------------------------
(* Handlers *)

Arrives(h, op) ==
    /\ op \in operations
    /\ http[h] = Idle
    /\ requests > 0
    /\ requests' = requests - 1

Goto(h, l) == http' = [http EXCEPT ![h] = l]
Scheduling(ref, subject, todo) == [pc |-> "schedule", ref |-> ref, subject |-> subject, todo |-> todo]
NoPositions == [s \in Symbols |-> 0]

\* reduce_only of a request.
ReduceOnly == {FALSE, "reduce" \in operations}

\* placeAdapterOrder.
PlaceAdapterOrder(h) ==
    /\ Arrives(h, "place")
    /\ \E ref \in Refs, cid \in ClientIds, s \in Symbols, q \in Quantities,
          reduceOnly \in ReduceOnly, st \in {"filled", "submitted"} :
          /\ PlaceOrder(ref, cid, s, q, reduceOnly, st)
          /\ Goto(h, Scheduling(ref, [kind |-> "order", o |-> placed'], NoPositions))
    /\ acked' = acked \cup {placed'}
    /\ UNCHANGED <<status, queue, faults, audited, exhausted, lost, unaudited, lookups>>

\* The exchange takes the order and the answer is lost: to the caller an error.
PlaceAnswerLost(h) ==
    /\ Arrives(h, "place")
    /\ adapter = "ccxt"
    /\ Faulty
    /\ \E ref \in Refs, s \in Symbols, q \in Quantities, reduceOnly \in ReduceOnly :
          PlaceOrder(ref, "", s, q, reduceOnly, "submitted")
    /\ UNCHANGED <<status, http, queue, acked, audited, exhausted, lost, unaudited, lookups>>

\* scheduleOrderReconciliation: the request has no client order id and the
\* exchange's answer names no order.  There is nothing to look up, and nothing
\* is recorded.
PlaceAnswerNamesNoOrder(h) ==
    /\ Arrives(h, "place")
    /\ adapter = "ccxt"
    /\ Faulty
    /\ \E ref \in Refs, s \in Symbols, q \in Quantities, reduceOnly \in ReduceOnly :
          /\ Resolved(ref) # {}
          /\ PlaceOrder(ref, "", s, q, reduceOnly, "submitted")
    /\ acked' = acked \cup {placed'}
    /\ unaudited' = unaudited \cup {placed'}
    /\ UNCHANGED <<status, http, queue, audited, exhausted, lost, lookups>>

\* cancelAdapterOrder, by order id or by client order id.
CancelAdapterOrder(h) ==
    /\ Arrives(h, "cancel")
    /\ \E ref \in Refs, o \in 0 .. MaxOrders, cid \in ClientIds :
          /\ o = 0 \/ cid = ""
          /\ CancelOrder(FindOrder(Owner(ref), o, cid))
          /\ Goto(h, Scheduling(ref, [kind |-> "order", o |-> FindOrder(Owner(ref), o, cid)], NoPositions))
    /\ UNCHANGED <<status, queue, faults, acked, audited, exhausted, lost, unaudited, lookups>>

\* closeAdapterPositions: FetchPositions ...
CloseFetch(h) ==
    /\ Arrives(h, "close")
    /\ \E ref \in Refs :
          Goto(h, [pc |-> "close", ref |-> ref, todo |-> [s \in Symbols |-> Position(Owner(ref), s)]])
    /\ UNCHANGED <<adapterVars, status, queue, faults, acked, audited, exhausted, lost, unaudited, lookups>>

\* Mutated: the side follows the position.
CloseQuantityUnsigned(q) == Abs(q)

\* buildCloseAdapterOrderRequest: the opposite side, all of it.
CloseQuantity(q) == -q

\* ... then a reduce-only market order for every position that is not zero, in
\* any order; each is scheduled before the next.
ClosePlace(h) ==
    /\ http[h].pc = "close"
    /\ \E s \in Symbols, st \in {"filled", "submitted"} :
          /\ http[h].todo[s] # 0
          /\ PlaceOrder(http[h].ref, "", s, CloseQuantity(http[h].todo[s]), TRUE, st)
          /\ Goto(h, Scheduling(http[h].ref, [kind |-> "order", o |-> placed'],
                                [http[h].todo EXCEPT ![s] = 0]))
    /\ acked' = acked \cup {placed'}
    /\ UNCHANGED <<status, queue, requests, faults, audited, exhausted, lost, unaudited, lookups>>

\* An order that fails does not end the request.
ClosePlaceFails(h) ==
    /\ http[h].pc = "close"
    /\ Faulty
    /\ \E s \in Symbols : /\ http[h].todo[s] # 0
                          /\ Goto(h, [http[h] EXCEPT !.todo[s] = 0])
    /\ UNCHANGED <<adapterVars, status, queue, requests, acked, audited, exhausted, lost, unaudited, lookups>>

\* The exchange takes the order of a close and the answer is lost: for the
\* request it failed, and nothing follows it.
CloseAnswerLost(h) ==
    /\ http[h].pc = "close"
    /\ adapter = "ccxt"
    /\ Faulty
    /\ \E s \in Symbols :
          /\ http[h].todo[s] # 0
          /\ PlaceOrder(http[h].ref, "", s, CloseQuantity(http[h].todo[s]), TRUE, "submitted")
          /\ Goto(h, [http[h] EXCEPT !.todo[s] = 0])
    /\ UNCHANGED <<status, queue, requests, acked, audited, exhausted, lost, unaudited, lookups>>

CloseEnds(h) ==
    /\ http[h].pc = "close"
    /\ http[h].todo = NoPositions
    /\ Goto(h, Idle)
    /\ UNCHANGED <<adapterVars, status, queue, requests, faults, acked, audited, exhausted, lost, unaudited, lookups>>

\* setAdapterLeverage, setAdapterMarginMode.
SetAdapterSetting(h, kind) ==
    /\ Arrives(h, "set")
    /\ \E ref \in Refs, s \in Symbols, v \in Leverages :
          /\ SetSetting(ref, s, kind, v)
          /\ Goto(h, Scheduling(ref, [kind |-> kind, symbol |-> s, expected |-> v], NoPositions))
    /\ UNCHANGED <<status, queue, faults, acked, audited, exhausted, lost, unaudited, lookups>>

\* Back to the loop of a close, or the end.
Scheduled(h) == Goto(h, IF http[h].todo = NoPositions THEN Idle
                        ELSE [pc |-> "close", ref |-> http[h].ref, todo |-> http[h].todo])

\* scheduleOrderReconciliation, schedulePositionSettingVerification.
Schedule(h) ==
    /\ http[h].pc = "schedule"
    /\ \E a \in Resolved(http[h].ref) : queue' \in Enqueued(queue, a, http[h].subject, 0)
    /\ Scheduled(h)
    /\ UNCHANGED <<adapterVars, status, requests, faults, acked, audited, exhausted, lost, unaudited, lookups>>

\* RecordScheduleFailure: there is no account to follow the order with, or the
\* queue fails.
ScheduleFails(h) ==
    /\ http[h].pc = "schedule"
    /\ \/ Resolved(http[h].ref) = {} /\ UNCHANGED faults
       \/ Resolved(http[h].ref) # {} /\ Faulty
    /\ audited' = audited \cup OrdersOf({http[h].subject})
    /\ Scheduled(h)
    /\ UNCHANGED <<adapterVars, status, queue, requests, acked, exhausted, lost, unaudited, lookups>>
\* writeAudit drops the error of CreateAuditEvent: where the schedule fails, the
\* event may be lost too.  An outage of PostgreSQL does both.
ScheduleFailsUnaudited(h) ==
    /\ http[h].pc = "schedule"
    /\ Faulty
    /\ unaudited' = unaudited \cup OrdersOf({http[h].subject})
    /\ Scheduled(h)
    /\ UNCHANGED <<adapterVars, status, queue, requests, acked, audited, exhausted, lost, lookups>>
------------------------------------------------------------------------------
(* Tasks *)

\* ReconcileExternalOrder: the status the stored account sees; "" for an error.
\* A disabled account is used, a deleted one is not found.
SeenStatus(t) ==
    LET o == FindOrder(Owner(Stored[t.acct]), t.subject.o, "")
    IN  IF status[t.acct] = "deleted" \/ o = 0 THEN "" ELSE orders[o].status

\* VerifyPositionSetting: the setting is shown with a position only.
SeenSetting(t) ==
    /\ status[t.acct] # "deleted"
    /\ Position(Owner(Stored[t.acct]), t.subject.symbol) # 0
    /\ Observed(Stored[t.acct].key, t.subject.symbol, t.subject.kind) = t.subject.expected

Settles(t) == IF t.subject.kind = "order" THEN SeenStatus(t) \in FinalStatuses ELSE SeenSetting(t)

\* A worker takes the task and asks the exchange, which may fail.
Handle(t) ==
    /\ t.state = "waiting"
    /\ \E state \in {"done", "again"} :
          /\ \/ (state = "done") = Settles(t) /\ UNCHANGED faults
             \/ state = "again" /\ Settles(t) /\ Faulty
          /\ queue' = (queue \ {t}) \cup {[t EXCEPT !.state = state]}
    /\ lookups' = [o \in 1 .. MaxOrders |->
                     IF o \in OrdersOf({t.subject}) /\ lookups[o] < Attempts
                     THEN lookups[o] + 1 ELSE lookups[o]]
    /\ UNCHANGED <<adapterVars, status, http, requests, acked, audited, exhausted, lost, unaudited>>

Done(t) ==
    /\ t.state = "done"
    /\ queue' = queue \ {t}
    /\ UNCHANGED <<adapterVars, status, http, requests, faults, acked, audited, exhausted, lost, unaudited, lookups>>

\* Mutated: the attempt is not counted.
NextAttemptSame(t) == t.attempt

NextAttempt(t) == t.attempt + 1

\* scheduleNextOrder, scheduleNextPositionSetting.
Again(t) ==
    /\ t.state = "again"
    /\ HasDelay(NextAttempt(t))
    /\ queue' \in Enqueued(queue \ {t}, t.acct, t.subject, NextAttempt(t))
    /\ UNCHANGED <<adapterVars, status, http, requests, faults, acked, audited, exhausted, lost, unaudited, lookups>>

Exhausted(t) ==
    /\ t.state = "again"
    /\ ~HasDelay(NextAttempt(t))
    /\ queue' = queue \ {t}
    /\ exhausted' = exhausted \cup OrdersOf({t.subject})
    /\ UNCHANGED <<adapterVars, status, http, requests, faults, acked, audited, lost, unaudited, lookups>>

\* MaxRetry(0): a task whose worker dies or which cannot enqueue the next one
\* is not tried again.
LoseTask(t) ==
    /\ t.state # "waiting"
    /\ Faulty
    /\ queue' = queue \ {t}
    /\ lost' = lost \cup OrdersOf({t.subject})
    /\ UNCHANGED <<adapterVars, status, http, requests, acked, audited, exhausted, unaudited, lookups>>
------------------------------------------------------------------------------
(* The environment *)

\* Requests and running tasks die with the process; the queue is in Redis.
Restart ==
    /\ Faulty
    /\ AdapterRestart
    /\ http' = [h \in Handler |-> Idle]
    /\ queue' = {t \in queue : t.state = "waiting"}
    /\ lost' = lost \cup OrdersOf({t.subject : t \in queue \ queue'})
                    \cup OrdersOf({http[h].subject : h \in {g \in Handler : http[g].pc = "schedule"}})
    /\ UNCHANGED <<status, requests, acked, audited, exhausted, unaudited, lookups>>

\* An account is disabled or deleted.
AccountChanges ==
    /\ Faulty
    /\ \E a \in Account, st \in {"disabled", "deleted"} :
          status[a] = "active" /\ status' = [status EXCEPT ![a] = st]
    /\ UNCHANGED <<adapterVars, http, queue, requests, acked, audited, exhausted, lost, unaudited, lookups>>

Init ==
    /\ AdapterInit
    /\ status = [a \in Account |-> "active"]
    /\ http = [h \in Handler |-> Idle]
    /\ queue = {}
    /\ \E b \in Budgets : requests = b.requests /\ faults = b.faults /\ operations = b.operations
    /\ acked = {} /\ audited = {} /\ exhausted = {} /\ lost = {} /\ unaudited = {}
    /\ lookups = [o \in 1 .. MaxOrders |-> 0]

HandlerStep(h) ==
    \/ PlaceAdapterOrder(h) \/ PlaceAnswerLost(h) \/ PlaceAnswerNamesNoOrder(h)
    \/ CancelAdapterOrder(h) \/ CloseFetch(h)
    \/ \E kind \in SettingKinds : SetAdapterSetting(h, kind)
    \/ ClosePlace(h) \/ ClosePlaceFails(h) \/ CloseAnswerLost(h) \/ CloseEnds(h)
    \/ Schedule(h) \/ ScheduleFails(h) \/ ScheduleFailsUnaudited(h)

TaskStep == \E t \in queue : Handle(t) \/ Done(t) \/ Again(t) \/ Exhausted(t)

Next ==
    /\ UNCHANGED operations
    /\ \/ \E h \in Handler : HandlerStep(h)
       \/ TaskStep
       \/ \E t \in queue : LoseTask(t)
       \/ (\E o \in Known : ExchangeFill(o)) /\ UNCHANGED opsVars
       \/ Restart \/ AccountChanges

\* The workers go on as long as there are tasks.
Spec == Init /\ [][Next]_vars /\ WF_vars(TaskStep /\ UNCHANGED operations)
------------------------------------------------------------------------------
(* Properties *)

TypeOK ==
    /\ \A o \in 1 .. MaxOrders : orders[o].status \in FinalStatuses \cup {"none", "submitted"}
    /\ queue \subseteq Task
    /\ \A h \in Handler : http[h].pc \in {"idle", "close", "schedule"}
    /\ acked \cup audited \cup exhausted \cup lost \cup unaudited \subseteq 1 .. MaxOrders

Followed(o) ==
    \/ \E t \in queue : t.subject.kind = "order" /\ t.subject.o = o
    \/ \E h \in Handler : http[h].pc = "schedule" /\ o \in OrdersOf({http[h].subject})

\* An order that a handler was told is accepted and that is still open is
\* followed by a task, unless the audit log says that it could not be, its
\* lookups are used up, a fault took its task away, or the answer named no order
\* or the audit event was lost as well (unaudited): no chain of lookups breaks off
\* by itself, although the attempts of several chains for one order are taken
\* for duplicates of each other.
OpenOrderFollowed ==
    \A o \in acked \cap Known :
       Final(o) \/ Followed(o) \/ o \in audited \cup exhausted \cup lost \cup unaudited

\* An order is given up as exhausted only after every checkpoint has looked it
\* up.
ExhaustedAfterAll == \A o \in exhausted : lookups[o] = Attempts

\* On an exchange the order of a request that shows its key is never followed
\* with the credentials of another stored account, although names are unique per tenant only and an
\* account may be disabled meanwhile.
FollowedWithOwnKey ==
    \A t \in queue : adapter = "ccxt" /\ t.subject.kind = "order" =>
       orders[t.subject.o].key \in {"", Stored[t.acct].key}

\* The order of a close neither opens nor reverses a position when the position
\* is the one the close has read; on an exchange, which knows reduce-only, not
\* even when it has changed since.
CloseNeverOpens ==
    [][\A h \in Handler, s \in Symbols :
          LET owner == Owner(http[h].ref)
              before == Position(owner, s)
              after == Position(owner, s)'
          IN  http[h].pc = "close" /\ http'[h].pc = "schedule" /\ http'[h].todo[s] # http[h].todo[s]
              /\ (adapter = "ccxt" \/ http[h].todo[s] = before)
              => Abs(after) <= Abs(before) /\ before * after >= 0]_vars

\* The queue runs empty when no more requests come: every chain of lookups has
\* an end, with unreachable exchanges and vanished accounts too.
ChainsEnd == <>[](\A h \in Handler : http[h].pc # "schedule") => <>[](queue = {})
==============================================================================
