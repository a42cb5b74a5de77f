-------------------------- MODULE HedgeClose_proofs --------------------------
(***************************************************************************)
(* Proofs about closing a hedge, for any number of handlers, runs, tasks,  *)
(* requests and close orders, and in every environment of the model.       *)
(***************************************************************************)
EXTENDS HedgeClose, TLAPS, WellFoundedInduction
------------------------------------------------------------------------------
(* The inductive invariant *)

\* Where ExitHedge is inside the lock and has not computed its order.
Held == {"begin", "load", "load_stored"}

\* Where a handler, a run or a task works on an execution.
Stamped == {"place", "order", "record", "attach", "verify", "confirm", "unconfirmed",
            "fetch", "persist", "run_persist", "lookup", "next", "exhausted"}

\* The local state l is one process p can be in, with these holders of the lock
\* and at this time.
Sound(p, l, inside, time) ==
    /\ l.pc \in Held => p \in inside
    /\ l.pc \in {"load", "load_stored"} => time < MaxStamp
    /\ l.pc \in Stamped => l.stamp \in Stamp
    /\ l.pc \in {"persist", "run_persist"} => l.status \in OrderStatus
    /\ l.pc = "run_lock" => p \in Runner
    /\ p \in Tasker /\ l.pc # "idle" => l.stamp \in Stamp

\* The processes: one is inside the lock.
ProcPart ==
    /\ proc \in [Proc -> LocalType]
    /\ holders \subseteq Handler \cup Runner
    /\ \A v, w \in holders : v = w
    /\ \A p \in Proc : Sound(p, proc[p], holders, clock)

\* The requests: one is active, and there is one while the configuration closes.
RequestPart ==
    /\ config \in ConfigType /\ requests \in [Request -> RequestType]
    /\ \A q, r \in Request : Active(q) /\ Active(r) => q = r
    /\ config.lifecycle = "closing" => \E r \in Request : Active(r)

\* The exchange: every close order it has is reduce-only.
ExchangePart ==
    /\ exec \in [Stamp -> ExecStatus]
    /\ orders \in [Stamp -> OrderType]
    /\ hedge \in {"none", "submitted", "filled"}
    /\ live \in Nat
    /\ stored \in SnapshotType
    /\ clock \in 0 .. MaxStamp
    /\ \A e \in Stamp : orders[e].status # "none" => orders[e].reduceOnly

\* The queue of reconciliation tasks.
QueueOK == tasks \subseteq Task /\ archived \subseteq Task /\ locked \subseteq Task

\* The service.
ServicePart ==
    /\ dryRun \in BOOLEAN /\ up \in BOOLEAN
    /\ QueueOK
    /\ crashes \in 0 .. MaxCrashes

IInv == ProcPart /\ RequestPart /\ ExchangePart /\ ServicePart

\* What is assumed of the bounds.
LEMMA Bounds ==
    /\ MaxRequests \in Nat /\ MaxAttempts \in Nat \ {0} /\ MaxStamp \in Nat /\ MaxCrashes \in Nat
    /\ Handler \cap Runner = {} /\ Handler \cap Tasker = {} /\ Runner \cap Tasker = {}
BY CloseAssumption

\* The idle state.
LEMMA IdleOK == Idle \in LocalType /\ Idle.pc = "idle"
BY Bounds DEF Idle, LocalType, Steps, ExecStatus, OrderStatus

\* The invariant is the type invariant and more.
LEMMA InvType == ASSUME IInv PROVE TypeOK /\ ClosingHasRequest /\ CloseNeverFlips
BY DEF IInv, ProcPart, RequestPart, ExchangePart, ServicePart, QueueOK, TypeOK, ClosingHasRequest,
   CloseNeverFlips

\* An enqueued task is one for an execution and a checkpoint that exist.
LEMMA EnqueueType ==
    ASSUME ServicePart, NEW e \in Stamp, NEW a \in 0 .. (MaxAttempts - 1), Enqueue(e, a)
    PROVE  QueueOK'
BY DEF ServicePart, QueueOK, Enqueue, Task

\* A set of requests that is not empty has a newest one.
LEMMA NewestOf ==
    ASSUME NEW S \in SUBSET Request, S # {}
    PROVE  \E r \in S : \A q \in S : q <= r
<1>1. S \subseteq 1 .. MaxRequests /\ MaxRequests \in Nat
  BY Bounds DEF Request
<1> DEFINE T == {MaxRequests - r : r \in S}
<1>2. T \subseteq Nat /\ T # {}
  <2>1. PICK r \in S : TRUE
    OBVIOUS
  <2>2. MaxRequests - r \in T
    BY <2>1
  <2>3. \A k \in S : MaxRequests - k \in Nat
    BY <1>1
  <2> QED BY <2>2, <2>3
<1> HIDE DEF T
<1>3. PICK x \in T : \A y \in T : ~(<<y, x>> \in OpToRel(<, Nat))
  BY <1>2, NatLessThanWellFounded, WFMin
<1>4. \A y \in T : ~(y < x)
  BY <1>2, <1>3 DEF OpToRel
<1>5. PICK r \in S : x = MaxRequests - r
  BY DEF T
<1>6. ASSUME NEW q \in S PROVE q <= r
  <2>1. MaxRequests - q \in T
    BY DEF T
  <2> QED BY <1>1, <1>4, <1>5, <2>1
<1> QED BY <1>6

\* The newest request of an execution is one of its requests.
LEMMA RequestOfHas ==
    ASSUME NEW e
    PROVE  RequestOf(e) = 0 \/ RequestOf(e) \in RequestsOf(e)
<1> DEFINE S == RequestsOf(e)
<1>1. S \in SUBSET Request
  BY DEF RequestsOf
<1> HIDE DEF S
<1>2. CASE S = {}
  BY <1>2 DEF RequestOf, S
<1>3. CASE S # {}
  <2>1. PICK r \in S : \A q \in S : q <= r
    BY <1>1, <1>3, NewestOf
  <2>2. (CHOOSE q \in S : \A k \in S : k <= q) \in S
    BY <2>1
  <2> QED BY <1>3, <2>2 DEF RequestOf, S
<1> QED BY <1>2, <1>3

\* So it is a request, or 0.
LEMMA RequestOfType ==
    ASSUME NEW e
    PROVE  RequestOf(e) \in 0 .. MaxRequests
<1>1. RequestOf(e) = 0 \/ RequestOf(e) \in 1 .. MaxRequests
  BY RequestOfHas DEF RequestsOf, Request
<1> QED BY <1>1, Bounds
------------------------------------------------------------------------------
(* A step of one process *)

\* A process moves on, with the lock or to its end, and the others do not.
LEMMA Moves ==
    ASSUME ProcPart, NEW p \in Proc, NEW l \in LocalType, proc' = [proc EXCEPT ![p] = l],
           holders' \subseteq Handler \cup Runner, \A v, w \in holders' : v = w,
           \A x \in holders : x # p => x \in holders',
           clock' = clock \/ p \in holders,
           Sound(p, l, holders', clock')
    PROVE  ProcPart'
<1>1. proc' \in [Proc -> LocalType] /\ proc'[p] = l /\ \A x \in Proc : x # p => proc'[x] = proc[x]
  BY DEF ProcPart
<1>2. ASSUME NEW x \in Proc PROVE Sound(x, proc'[x], holders', clock')
  <2>1. CASE x = p
    BY <1>1, <2>1 DEF Sound
  <2>2. CASE x # p
    BY <1>1, <2>2 DEF Sound, ProcPart, Held
  <2> QED BY <2>1, <2>2
<1> QED BY <1>1, <1>2 DEF ProcPart

\* It goes on and keeps what it has.
LEMMA GotoMoves ==
    ASSUME ProcPart, NEW p \in Proc, NEW l \in LocalType, Goto(p, l),
           clock' = clock \/ p \in holders,
           Sound(p, l, holders', clock')
    PROVE  ProcPart'
<1>1. proc' = [proc EXCEPT ![p] = l] /\ holders' = holders
  BY DEF Goto
<1>2. holders' \subseteq Handler \cup Runner /\ \A v, w \in holders' : v = w
  BY <1>1 DEF ProcPart
<1> QED BY <1>1, <1>2, Moves

\* It ends.
LEMMA FinishMoves ==
    ASSUME ProcPart, NEW p \in Proc, Finish(p), clock' = clock
    PROVE  ProcPart'
<1>1. proc' = [proc EXCEPT ![p] = Idle] /\ holders' = holders \ {p}
  BY DEF Finish, Lock!Leave
<1>2. holders' \subseteq Handler \cup Runner /\ \A v, w \in holders' : v = w
  BY <1>1 DEF ProcPart
<1>3. Sound(p, Idle, holders', clock')
  BY IdleOK DEF Sound, Held, Stamped
<1> QED BY <1>1, <1>2, <1>3, IdleOK, Moves

\* It takes the next step of its procedure.
LEMMA StepMoves ==
    ASSUME ProcPart, NEW p \in Proc, NEW s \in Steps, Step(p, s), clock' = clock,
           s \notin {"begin", "load", "persist", "run_persist"},
           s = "load_stored" => proc[p].pc = "load",
           s \in Stamped => proc[p].pc \in Stamped,
           s = "run_lock" => p \in Runner,
           proc[p].pc = "idle" => p \notin Tasker
    PROVE  ProcPart'
<1> DEFINE l == [proc[p] EXCEPT !.pc = s]
<1>1. proc[p] \in LocalType /\ Sound(p, proc[p], holders, clock)
  BY DEF ProcPart
<1>2. l \in LocalType /\ l.pc = s /\ l.stamp = proc[p].stamp
  BY <1>1 DEF LocalType
<1>3. Goto(p, l)
  BY DEF Step
<1> HIDE DEF l
<1>4. holders' = holders
  BY <1>3 DEF Goto
<1>5. Sound(p, l, holders', clock')
  BY <1>1, <1>2, <1>4 DEF Sound, Held
<1> QED BY <1>2, <1>3, <1>5, GotoMoves
------------------------------------------------------------------------------
(* The steps, one by one *)

\* Parts that a step leaves alone.
LEMMA SameParts ==
    ASSUME IInv
    PROVE  /\ UNCHANGED <<config, requests>> => RequestPart'
           /\ UNCHANGED <<exec, exchangeVars, snapshotVars>> => ExchangePart'
           /\ UNCHANGED serviceVars /\ QueueOK' => ServicePart'
           /\ QueueOK /\ (UNCHANGED queueVars => QueueOK')
BY DEF IInv, RequestPart, Active, ExchangePart, ServicePart, QueueOK, queueVars, exchangeVars,
   snapshotVars, serviceVars

\* A process that ends, or takes its next step, and changes nothing else.
LEMMA QuietStep ==
    ASSUME IInv, NEW p \in Proc, NEW s \in Steps,
           Finish(p) \/ (Step(p, s)
                         /\ s \notin Held \cup {"persist", "run_persist"}
                         /\ (s \in Stamped => proc[p].pc \in Stamped)
                         /\ (s = "run_lock" => p \in Runner)
                         /\ (proc[p].pc = "idle" => p \notin Tasker)),
           QueueOK',
           UNCHANGED <<config, requests, exec, exchangeVars, snapshotVars, serviceVars>>
    PROVE  IInv'
<1>1. clock' = clock /\ ProcPart
  BY DEF snapshotVars, IInv
<1>2. ProcPart'
  BY <1>1, FinishMoves, StepMoves DEF Held
<1> QED BY <1>2, SameParts DEF IInv

\* Facts every step may use.
LEMMA ProcFacts ==
    ASSUME IInv, NEW p \in Proc
    PROVE  /\ ProcPart /\ ServicePart
           /\ proc[p] \in LocalType /\ Sound(p, proc[p], holders, clock)
           /\ exec \in [Stamp -> ExecStatus] /\ orders \in [Stamp -> OrderType]
           /\ live \in Nat /\ stored \in SnapshotType /\ clock \in 0 .. MaxStamp
           /\ requests \in [Request -> RequestType]
           /\ 0 \in 0 .. (MaxAttempts - 1)
BY Bounds DEF IInv, ProcPart, ExchangePart, RequestPart

\* BeginHedgeCloseRequest finds a request.
LEMMA BeginExistingInv == ASSUME IInv, NEW p \in Proc, BeginExisting(p) PROVE IInv'
<1>1. PICK r \in Request : IF requests[r].exec # 0 THEN Enqueue(requests[r].exec, 0)
                           ELSE UNCHANGED queueVars
  BY DEF BeginExisting
<1>2. requests[r].exec \in 0 .. MaxStamp
  BY ProcFacts DEF RequestType
<1>3. QueueOK'
  <2>1. CASE requests[r].exec = 0
    BY <1>1, <2>1, SameParts
  <2>2. CASE requests[r].exec # 0
    <3>1. requests[r].exec \in Stamp
      BY <1>2, <2>2, Bounds DEF Stamp
    <3> QED BY <1>1, <2>2, <3>1, EnqueueType, ProcFacts
  <2> QED BY <2>1, <2>2
<1> QED BY <1>3, QuietStep DEF BeginExisting, Steps

\* BeginHedgeCloseRequest creates one: none was active, so it is the only one.
LEMMA BeginRequestInv == ASSUME IInv, NEW p \in Proc, BeginHedgeCloseRequest(p) PROVE IInv'
<1>1. /\ proc[p].pc = "begin" /\ \A r \in Request : ~Active(r)
      /\ UNCHANGED <<exec, exchangeVars, snapshotVars, queueVars, serviceVars>>
  BY DEF BeginHedgeCloseRequest, At
<1>2. CASE Finish(p) /\ UNCHANGED <<config, requests>>
  BY <1>1, <1>2, QuietStep, SameParts DEF Steps
<1>3. ASSUME NEW r \in NewRequest, clock < MaxStamp,
             requests' = [requests EXCEPT ![r].status = "requested"],
             config' = [enabled |-> TRUE, lifecycle |-> "closing"],
             Goto(p, [proc[p] EXCEPT !.req = r, !.pc = IF dryRun THEN "load_stored" ELSE "load"])
      PROVE  IInv'
  <2> DEFINE s == IF dryRun THEN "load_stored" ELSE "load"
             l == [proc[p] EXCEPT !.req = r, !.pc = s]
  <2>1. r \in Request /\ r \in 0 .. MaxRequests
    BY Bounds DEF NewRequest, Request
  <2>2. s \in {"load", "load_stored"}
    OBVIOUS
  <2> HIDE DEF s
  <2>3. l \in LocalType /\ l.pc = s /\ Goto(p, l)
    BY <1>3, <2>1, <2>2, ProcFacts DEF LocalType, Steps, s
  <2> HIDE DEF l
  <2>4. clock' = clock /\ holders' = holders
    BY <1>1, <2>3 DEF snapshotVars, Goto
  <2>5. Sound(p, l, holders', clock')
    <3>1. p \notin Tasker
      BY <1>1, Bounds, ProcFacts DEF Sound, Held, ProcPart
    <3> QED BY <1>1, <1>3, <2>2, <2>3, <2>4, <3>1, ProcFacts DEF Sound, Held, Stamped
  <2>6. ProcPart'
    BY <2>3, <2>4, <2>5, GotoMoves, ProcFacts
  <2>7. /\ requests' \in [Request -> RequestType] /\ requests'[r].status = "requested"
        /\ \A q \in Request : q # r => requests'[q] = requests[q]
    BY <1>3, <2>1, ProcFacts DEF RequestType, ActiveStatuses
  <2>8. config' \in ConfigType
    BY <1>3 DEF ConfigType
  <2>9. RequestPart'
    BY <1>1, <2>1, <2>7, <2>8 DEF RequestPart, Active, ActiveStatuses
  <2> QED BY <1>1, <2>6, <2>9, SameParts DEF IInv
<1> QED BY <1>2, <1>3 DEF BeginHedgeCloseRequest

\* Only the holder of the lock takes a stamp.
LEMMA LoadLiveInv == ASSUME IInv, NEW p \in Proc, LoadLive(p) PROVE IInv'
<1>1. proc[p].pc = "load" /\ UNCHANGED <<config, requests, exec, exchangeVars, queueVars, serviceVars>>
  BY DEF LoadLive, At
<1>2. p \in holders /\ clock < MaxStamp
  BY <1>1, ProcFacts DEF Sound, Held
<1>3. CASE Step(p, "load_stored") /\ UNCHANGED snapshotVars
  <2>1. ProcPart'
    BY <1>1, <1>3, StepMoves, ProcFacts DEF Steps, snapshotVars, Stamped
  <2> QED BY <1>1, <1>3, <2>1, SameParts DEF IInv
<1>4. CASE /\ clock' = clock + 1 /\ stored' = [qty |-> live, at |-> clock']
           /\ Goto(p, [proc[p] EXCEPT !.pc = "place", !.qty = live, !.stamp = clock'])
  <2> DEFINE n == clock'
             l == [proc[p] EXCEPT !.pc = "place", !.qty = live, !.stamp = n]
  <2>1. n \in Stamp /\ n \in 0 .. MaxStamp /\ n = clock'
    BY <1>2, <1>4, ProcFacts, Bounds DEF Stamp
  <2>2. Goto(p, l)
    BY <1>4
  <2> HIDE DEF n
  <2>3. l \in LocalType /\ l.pc = "place" /\ l.stamp = n
    BY <2>1, ProcFacts DEF LocalType, Steps
  <2> HIDE DEF l
  <2>4. Sound(p, l, holders', clock')
    BY <2>1, <2>3 DEF Sound, Held
  <2>5. ProcPart'
    BY <1>2, <2>2, <2>3, <2>4, GotoMoves, ProcFacts
  <2>6. stored' \in SnapshotType
    BY <1>4, <2>1, ProcFacts DEF SnapshotType
  <2>7. ExchangePart'
    BY <1>1, <2>1, <2>6 DEF IInv, ExchangePart, exchangeVars
  <2> QED BY <1>1, <2>5, <2>7, SameParts DEF IInv
<1> QED BY <1>3, <1>4 DEF LoadLive

\* The fallback, which gives a snapshot without a stamp one.
LEMMA LoadStoredInv == ASSUME IInv, NEW p \in Proc, LoadStored(p) PROVE IInv'
<1>1. /\ proc[p].pc = "load_stored"
      /\ UNCHANGED <<config, requests, exec, exchangeVars, queueVars, serviceVars>>
  BY DEF LoadStored, At
<1>2. p \in holders /\ clock < MaxStamp
  BY <1>1, ProcFacts DEF Sound, Held
<1>3. CASE Step(p, "complete") /\ UNCHANGED snapshotVars
  BY <1>1, <1>3, QuietStep, SameParts DEF Steps, Held, Stamped
<1>4. CASE /\ \/ stored.at # 0 /\ UNCHANGED snapshotVars
              \/ /\ stored.at = 0 /\ clock' = clock + 1
                 /\ stored' = [stored EXCEPT !.at = clock']
           /\ Goto(p, [proc[p] EXCEPT !.pc = "place", !.qty = stored.qty, !.stamp = stored'.at])
  <2> DEFINE n == stored'.at
             l == [proc[p] EXCEPT !.pc = "place", !.qty = stored.qty, !.stamp = n]
  <2>1. clock' \in 0 .. MaxStamp /\ stored' \in SnapshotType /\ stored'.at # 0
    <3>1. CASE stored.at # 0 /\ UNCHANGED snapshotVars
      BY <3>1, ProcFacts DEF snapshotVars
    <3>2. CASE /\ stored.at = 0 /\ clock' = clock + 1
               /\ stored' = [stored EXCEPT !.at = clock']
      <4>1. clock' \in 0 .. MaxStamp /\ clock' # 0
        BY <1>2, <3>2, ProcFacts, Bounds
      <4> QED BY <3>2, <4>1, ProcFacts DEF SnapshotType
    <3> QED BY <1>4, <3>1, <3>2
  <2>2. n \in Stamp /\ n \in 0 .. MaxStamp
    BY <2>1, Bounds DEF SnapshotType, Stamp
  <2>3. Goto(p, l)
    BY <1>4
  <2> HIDE DEF n
  <2>4. l \in LocalType /\ l.pc = "place" /\ l.stamp = n
    BY <2>2, ProcFacts DEF LocalType, Steps, SnapshotType
  <2> HIDE DEF l
  <2>5. Sound(p, l, holders', clock')
    BY <2>2, <2>4 DEF Sound, Held
  <2>6. ProcPart'
    BY <1>2, <2>3, <2>4, <2>5, GotoMoves, ProcFacts
  <2>7. ExchangePart'
    BY <1>1, <2>1 DEF IInv, ExchangePart, exchangeVars
  <2> QED BY <1>1, <2>6, <2>7, SameParts DEF IInv
<1> QED BY <1>3, <1>4 DEF LoadStored

\* createPlanAndExecute.
LEMMA CreatePlanInv == ASSUME IInv, NEW p \in Proc, CreatePlan(p) PROVE IInv'
<1> DEFINE e == proc[p].stamp
<1>1. /\ proc[p].pc = "place"
      /\ UNCHANGED <<config, requests, exchangeVars, snapshotVars, queueVars, serviceVars>>
      /\ \/ (Step(p, "fail") \/ Step(p, "order")) /\ exec' = exec
         \/ /\ Goto(p, [proc[p] EXCEPT !.pc = "attach", !.status = exec[e]])
            /\ exec' = exec
         \/ /\ Goto(p, [proc[p] EXCEPT !.pc = "attach", !.status = "dry_run"])
            /\ exec' = [exec EXCEPT ![e] = "dry_run"]
  BY DEF CreatePlan, At
<1>2. e \in Stamp /\ exec[e] \in ExecStatus /\ proc[p] \in LocalType
  BY <1>1, ProcFacts DEF Sound, Stamped
<1>3. CASE (Step(p, "fail") \/ Step(p, "order")) /\ exec' = exec
  BY <1>1, <1>3, QuietStep, SameParts DEF Steps, Held, Stamped
<1>4. ASSUME NEW st \in ExecStatus, Goto(p, [proc[p] EXCEPT !.pc = "attach", !.status = st])
      PROVE  ProcPart'
  <2> DEFINE l == [proc[p] EXCEPT !.pc = "attach", !.status = st]
  <2>1. l \in LocalType /\ l.pc = "attach" /\ l.stamp = e
    BY <1>2 DEF LocalType, Steps
  <2>2. clock' = clock
    BY <1>1 DEF snapshotVars
  <2> HIDE DEF l
  <2>3. Sound(p, l, holders', clock')
    BY <1>2, <2>1 DEF Sound, Held
  <2> QED BY <1>4, <2>1, <2>2, <2>3, GotoMoves, ProcFacts DEF l
<1>5. CASE /\ Goto(p, [proc[p] EXCEPT !.pc = "attach", !.status = exec[e]])
           /\ exec' = exec
  BY <1>1, <1>2, <1>4, <1>5, SameParts DEF IInv
<1>6. CASE /\ Goto(p, [proc[p] EXCEPT !.pc = "attach", !.status = "dry_run"])
           /\ exec' = [exec EXCEPT ![e] = "dry_run"]
  <2>1. exec' \in [Stamp -> ExecStatus]
    BY <1>2, <1>6, ProcFacts DEF ExecStatus
  <2>2. ExchangePart'
    BY <1>1, <2>1 DEF IInv, ExchangePart, exchangeVars, snapshotVars
  <2>3. ProcPart'
    BY <1>4, <1>6 DEF ExecStatus
  <2> QED BY <1>1, <2>2, <2>3, SameParts DEF IInv
<1> QED BY <1>1, <1>3, <1>5, <1>6

\* What a reduce-only order fills leaves no position on the other side.
LEMMA FillBounded ==
    ASSUME live \in Nat, NEW o, o.qty \in Nat, o.reduceOnly
    PROVE  FillOf(o) \in Nat /\ live - FillOf(o) \in Nat /\ (live = 0 => FillOf(o) = 0)
BY DEF FillOf

\* The exchange's answer to PlaceOrder.
LEMMA PlaceOrderInv == ASSUME IInv, NEW p \in Proc, PlaceOrder(p) PROVE IInv'
<1> DEFINE e == proc[p].stamp
           o == CloseOrder(proc[p])
           f == FillOf(o)
           full == [o EXCEPT !.status = "filled", !.qty = f]
           none == [o EXCEPT !.status = "canceled"]
<1>1. /\ proc[p].pc = "order"
      /\ UNCHANGED <<config, requests, exec, hedge, snapshotVars, queueVars, serviceVars>>
      /\ \/ orders' = [orders EXCEPT ![e] = o] /\ live' = live
         \/ orders' = [orders EXCEPT ![e] = full] /\ live' = live - f
         \/ orders' = [orders EXCEPT ![e] = none] /\ live' = live
         \/ orders' = orders /\ live' = live
      /\ \E st \in {"submitted", "filled", "canceled", "failed"} :
            Goto(p, [proc[p] EXCEPT !.pc = "record", !.status = st])
  BY DEF PlaceOrder, At
<1>2. e \in Stamp /\ proc[p] \in LocalType /\ proc[p].qty \in Nat
  BY <1>1, ProcFacts DEF Sound, Stamped, LocalType
<1>3. o = [status |-> "submitted", qty |-> proc[p].qty, reduceOnly |-> TRUE]
  BY DEF CloseOrder
<1> HIDE DEF o
<1>4. o \in OrderType /\ o.reduceOnly = TRUE /\ o.qty \in Nat
  BY <1>2, <1>3 DEF OrderType, OrderStatus
<1>5. f \in Nat /\ live - f \in Nat
  BY <1>4, FillBounded, ProcFacts
<1> HIDE DEF f
<1>6. /\ full \in OrderType /\ full.reduceOnly = TRUE
      /\ none \in OrderType /\ none.reduceOnly = TRUE
  BY <1>4, <1>5 DEF OrderType, OrderStatus
<1> HIDE DEF full, none
<1>7. /\ orders' \in [Stamp -> OrderType] /\ live' \in Nat
      /\ \A k \in Stamp : orders'[k] = orders[k] \/ orders'[k].reduceOnly = TRUE
  BY <1>1, <1>2, <1>4, <1>5, <1>6, ProcFacts
<1>8. \A k \in Stamp : orders'[k].status # "none" => orders'[k].reduceOnly
  BY <1>7 DEF IInv, ExchangePart
<1>9. ExchangePart'
  BY <1>1, <1>7, <1>8 DEF IInv, ExchangePart, snapshotVars
<1>10. PICK st \in {"submitted", "filled", "canceled", "failed"} :
            Goto(p, [proc[p] EXCEPT !.pc = "record", !.status = st])
  BY <1>1
<1> DEFINE l == [proc[p] EXCEPT !.pc = "record", !.status = st]
<1>11. l \in LocalType /\ l.pc = "record" /\ l.stamp = e /\ Goto(p, l)
  BY <1>2, <1>10 DEF LocalType, Steps, ExecStatus, OrderStatus
<1> HIDE DEF l
<1>12. Sound(p, l, holders', clock') /\ clock' = clock
  BY <1>1, <1>2, <1>11 DEF Sound, Held, snapshotVars
<1>13. ProcPart'
  BY <1>11, <1>12, GotoMoves, ProcFacts
<1> QED BY <1>1, <1>9, <1>13, SameParts DEF IInv

\* CreateOrderExecution.
LEMMA RecordExecutionInv == ASSUME IInv, NEW p \in Proc, RecordExecution(p) PROVE IInv'
<1> DEFINE e == proc[p].stamp
           s == proc[p].status
<1>1. /\ proc[p].pc = "record" /\ (Step(p, "fail") \/ Step(p, "attach"))
      /\ exec' = IF s \in ExecStatus THEN [exec EXCEPT ![e] = s] ELSE exec
      /\ UNCHANGED <<config, requests, exchangeVars, snapshotVars, queueVars, serviceVars>>
  BY DEF RecordExecution, At
<1>2. exec' \in [Stamp -> ExecStatus]
  BY <1>1, ProcFacts
<1>3. ExchangePart'
  BY <1>1, <1>2 DEF IInv, ExchangePart, exchangeVars, snapshotVars
<1>4. ProcPart'
  BY <1>1, StepMoves, ProcFacts DEF Steps, Stamped, snapshotVars
<1> QED BY <1>1, <1>3, <1>4, SameParts DEF IInv

\* A refreshed snapshot is a snapshot.
LEMMA RefreshedType ==
    ASSUME IInv, NEW previous, NEW e
    PROVE  Refreshed(previous, e) \in SnapshotType
<1>1. 0 \in 0 .. MaxStamp
  BY Bounds
<1> QED BY <1>1 DEF Refreshed, SnapshotType, IInv, ExchangePart

\* AttachHedgeCloseExecution updates an active request only, and it stays active.
LEMMA AttachInv == ASSUME IInv, NEW p \in Proc, AttachHedgeCloseExecution(p) PROVE IInv'
<1> DEFINE r == proc[p].req
           e == proc[p].stamp
           s == proc[p].status
           new == [status |-> IF s = "submitted" THEN s ELSE "verifying", exec |-> e]
<1>1. /\ proc[p].pc = "attach"
      /\ requests' = IF Active(r) THEN [requests EXCEPT ![r] = new] ELSE requests
      /\ stored' \in {Refreshed(proc[p].qty, e), stored}
      /\ \/ Step(p, "verify") /\ UNCHANGED queueVars
         \/ Finish(p) /\ Enqueue(e, 0)
      /\ UNCHANGED <<config, exec, exchangeVars, clock, serviceVars>>
  BY DEF AttachHedgeCloseExecution, At
<1>2. e \in Stamp /\ proc[p] \in LocalType /\ e \in 0 .. MaxStamp
  BY <1>1, ProcFacts DEF Sound, Stamped, LocalType
<1>3. ProcPart'
  BY <1>1, StepMoves, FinishMoves, ProcFacts DEF Steps, Stamped
<1>4. QueueOK'
  BY <1>1, <1>2, EnqueueType, ProcFacts, SameParts
<1>5. stored' \in SnapshotType
  BY <1>1, RefreshedType, ProcFacts
<1>6. ExchangePart'
  BY <1>1, <1>5 DEF IInv, ExchangePart, exchangeVars
<1>7. new \in RequestType /\ new.status \in ActiveStatuses
  BY <1>2 DEF RequestType, ActiveStatuses
<1> HIDE DEF new
<1>8. CASE Active(r) /\ r \in Request
  <2>1. /\ requests' \in [Request -> RequestType] /\ requests'[r] = new
        /\ \A q \in Request : q # r => requests'[q] = requests[q]
    BY <1>1, <1>7, <1>8, ProcFacts
  <2>2. \A q \in Request : Active(q)' <=> Active(q)
    BY <1>7, <1>8, <2>1 DEF Active
  <2> HIDE DEF r
  <2>3. RequestPart'
    BY <1>1, <2>1, <2>2 DEF IInv, RequestPart
  <2> QED BY <1>1, <1>3, <1>4, <1>6, <2>3, SameParts DEF IInv
<1>9. CASE ~(Active(r) /\ r \in Request)
  <2>1. requests' = requests
    BY <1>1, <1>9, ProcFacts
  <2> QED BY <1>1, <1>3, <1>4, <1>6, <2>1, SameParts DEF IInv
<1> QED BY <1>8, <1>9

\* finishHedgeClose: the configuration is not closing any more, and no request
\* becomes active.
LEMMA FinishRequestPart ==
    ASSUME RequestPart, NEW r, NEW status \in {"completed", "failed"},
           NEW lifecycle \in {"disabled", "close_failed"}, FinishRequest(r, status, lifecycle)
    PROVE  RequestPart'
<1>1. requests' \in [Request -> RequestType]
  BY DEF FinishRequest, RequestPart, RequestType
<1>2. \A q \in Request : Active(q)' => Active(q)
  BY DEF FinishRequest, RequestPart, RequestType, Active, ActiveStatuses
<1> DEFINE b == config.enabled /\ lifecycle # "disabled"
<1>3. b \in BOOLEAN
  OBVIOUS
<1>4. config' = [enabled |-> b, lifecycle |-> lifecycle]
  BY DEF FinishRequest
<1> HIDE DEF b
<1>5. config' \in ConfigType /\ config'.lifecycle # "closing"
  BY <1>3, <1>4 DEF ConfigType
<1> QED BY <1>1, <1>2, <1>5 DEF RequestPart

\* The steps that finish a request.
LEMMA FinishRequestInv ==
    ASSUME IInv, NEW p \in Proc, ExitComplete(p) \/ Fail(p) \/ Confirm(p)
    PROVE  IInv'
<1>1. /\ Finish(p) /\ UNCHANGED <<exec, exchangeVars, snapshotVars, queueVars, serviceVars>>
      /\ \/ FinishRequest(proc[p].req, "completed", "disabled")
         \/ FinishRequest(proc[p].req, "failed", "close_failed")
  BY DEF ExitComplete, Fail, Confirm, CompleteHedgeClose, FailHedgeClose
<1>2. RequestPart'
  BY <1>1, FinishRequestPart DEF IInv
<1>3. ProcPart'
  BY <1>1, FinishMoves, ProcFacts DEF snapshotVars
<1> QED BY <1>1, <1>2, <1>3, SameParts DEF IInv

\* loadLivePosition in finalizeHedgeClose.
LEMMA VerifyInv == ASSUME IInv, NEW p \in Proc, VerifyFetch(p) \/ VerifyError(p) PROVE IInv'
<1>1. /\ proc[p].pc = "verify" /\ (Step(p, "confirm") \/ Step(p, "unconfirmed"))
      /\ stored' \in {stored, [qty |-> live, at |-> 0]} /\ clock' = clock
      /\ UNCHANGED <<config, requests, exec, exchangeVars, queueVars, serviceVars>>
  BY DEF VerifyFetch, VerifyError, At, snapshotVars
<1>2. stored' \in SnapshotType
  BY <1>1, ProcFacts, Bounds DEF SnapshotType
<1>3. ExchangePart'
  BY <1>1, <1>2 DEF IInv, ExchangePart, exchangeVars
<1>4. ProcPart'
  BY <1>1, StepMoves, ProcFacts DEF Steps, Stamped
<1> QED BY <1>1, <1>3, <1>4, SameParts DEF IInv

\* UpdateHedgeCloseStatus may make a finished request active again; the unique
\* index refuses it while another one is.
LEMMA KeepVerifyingInv == ASSUME IInv, NEW p \in Proc, KeepVerifying(p) PROVE IInv'
<1> DEFINE r == proc[p].req
<1>1. /\ proc[p].pc = "unconfirmed"
      /\ requests' = IF IndexAllows(r) THEN [requests EXCEPT ![r].status = "verifying"] ELSE requests
      /\ \/ Finish(p) /\ Enqueue(proc[p].stamp, 0)
         \/ Step(p, "next") /\ UNCHANGED queueVars
      /\ UNCHANGED <<config, exec, exchangeVars, snapshotVars, serviceVars>>
  BY DEF KeepVerifying, SetVerifying, NotConfirmed, At
<1>2. ProcPart'
  BY <1>1, StepMoves, FinishMoves, ProcFacts DEF Steps, Stamped, snapshotVars
<1>3. proc[p].stamp \in Stamp
  BY <1>1, ProcFacts DEF Sound, Stamped
<1>4. QueueOK'
  BY <1>1, <1>3, EnqueueType, ProcFacts, SameParts
<1>5. CASE IndexAllows(r) /\ r \in Request
  <2>1. /\ requests' \in [Request -> RequestType] /\ requests'[r].status = "verifying"
        /\ \A q \in Request : q # r => requests'[q] = requests[q]
    BY <1>1, <1>5, ProcFacts DEF RequestType, ActiveStatuses
  <2>2. \A q \in Request : Active(q)' <=> q = r
    BY <1>5, <2>1 DEF Active, ActiveStatuses, IndexAllows
  <2> HIDE DEF r
  <2>3. RequestPart'
    BY <1>1, <1>5, <2>1, <2>2 DEF IInv, RequestPart
  <2> QED BY <1>1, <1>2, <1>4, <2>3, SameParts DEF IInv
<1>6. CASE ~(IndexAllows(r) /\ r \in Request)
  <2>1. requests' = requests
    BY <1>1, <1>6, ProcFacts
  <2> QED BY <1>1, <1>2, <1>4, <2>1, SameParts DEF IInv
<1> QED BY <1>5, <1>6

\* Steps that only move a process on.
LEMMA QuietInv ==
    ASSUME IInv, NEW p \in Proc, ExitCallFails(p) \/ RunGuard(p) \/ RunLoad(p)
    PROVE  IInv'
<1>1. /\ \/ Step(p, "fail") \/ Finish(p) \/ Step(p, "run_order")
         \/ Step(p, "run_lock") /\ p \in Runner
      /\ proc[p].pc = "idle" => p \notin Tasker
  BY Bounds DEF ExitCallFails, RunGuard, RunLoad, At
<1>2. /\ UNCHANGED queueVars
      /\ UNCHANGED <<config, requests, exec, exchangeVars, snapshotVars, serviceVars>>
  BY DEF ExitCallFails, RunGuard, RunLoad
<1> QED BY <1>1, <1>2, QuietStep, SameParts DEF Steps, Held, Stamped

\* A process goes to a local state that is sound whoever holds the lock.
LEMMA GotoInv ==
    ASSUME IInv, NEW p \in Proc, NEW l \in LocalType, Goto(p, l),
           l.pc \notin Held, l.pc # "run_lock", l.pc \in Stamped => l.stamp \in Stamp,
           l.pc \in {"persist", "run_persist"} => l.status \in OrderStatus,
           p \in Tasker => l.stamp \in Stamp,
           QueueOK',
           UNCHANGED <<config, requests, exec, exchangeVars, snapshotVars, serviceVars>>
    PROVE  IInv'
<1>1. Sound(p, l, holders', clock') /\ clock' = clock
  BY DEF Sound, Held, snapshotVars
<1>2. ProcPart'
  BY <1>1, GotoMoves, ProcFacts
<1> QED BY <1>2, SameParts DEF IInv

\* FetchOrder, by a task or by a run.
LEMMA FetchInv == ASSUME IInv, NEW p \in Proc, FetchOrder(p) \/ RunFetch(p) PROVE IInv'
<1>1. UNCHANGED queueVars /\ UNCHANGED <<config, requests, exec, exchangeVars, snapshotVars, serviceVars>>
  BY DEF FetchOrder, RunFetch
<1>2. ASSUME NEW e \in Stamp, NEW s \in {"persist", "run_persist"},
             Goto(p, [proc[p] EXCEPT !.pc = s, !.stamp = e, !.status = orders[e].status])
      PROVE  IInv'
  <2> DEFINE l == [proc[p] EXCEPT !.pc = s, !.stamp = e, !.status = orders[e].status]
  <2>1. /\ orders[e].status \in OrderStatus /\ orders[e].status \in ExecStatus \cup OrderStatus
        /\ e \in 0 .. MaxStamp /\ s \in Steps
    BY ProcFacts, Bounds DEF OrderType, OrderStatus, ExecStatus, Stamp, Steps
  <2>2. l \in LocalType /\ l.pc = s /\ l.stamp = e /\ l.status \in OrderStatus
    BY <2>1, ProcFacts DEF LocalType
  <2>3. Goto(p, l)
    BY <1>2
  <2> HIDE DEF l
  <2> QED BY <1>1, <1>2, <2>2, <2>3, GotoInv, SameParts DEF Held
<1>3. CASE FetchOrder(p)
  <2>1. proc[p].pc = "fetch"
    BY <1>3 DEF FetchOrder, At
  <2>2. proc[p].stamp \in Stamp /\ proc[p] \in LocalType
    BY <2>1, ProcFacts DEF Sound, Stamped
  <2>3. CASE Step(p, "next")
    BY <1>1, <2>1, <2>3, QuietStep, SameParts DEF Steps, Held, Stamped
  <2>4. CASE Goto(p, [proc[p] EXCEPT !.pc = "persist", !.status = orders[proc[p].stamp].status])
    <3>1. [proc[p] EXCEPT !.pc = "persist", !.status = orders[proc[p].stamp].status]
            = [proc[p] EXCEPT !.pc = "persist", !.stamp = proc[p].stamp,
                              !.status = orders[proc[p].stamp].status]
      BY <2>2 DEF LocalType
    <3> QED BY <1>2, <2>2, <2>4, <3>1
  <2> QED BY <1>3, <2>3, <2>4 DEF FetchOrder
<1>4. CASE RunFetch(p)
  BY <1>2, <1>4 DEF RunFetch
<1> QED BY <1>3, <1>4

\* UpdateOrderExecutionStatus.
LEMMA PersistInv == ASSUME IInv, NEW p \in Proc, PersistStatus(p) PROVE IInv'
<1> DEFINE e == proc[p].stamp
           s == PersistedStatus(p)
           l == [proc[p] EXCEPT !.pc = "lookup", !.status = s]
           k == [Idle EXCEPT !.pc = "run_guard"]
<1>1. /\ proc[p].pc \in {"persist", "run_persist"}
      /\ exec' = [exec EXCEPT ![e] = s]
      /\ stored' \in {Refreshed(stored.qty, e), stored}
      /\ Goto(p, l) \/ Finish(p) \/ (Goto(p, k) /\ p \notin Tasker)
      /\ UNCHANGED <<config, requests, exchangeVars, clock, queueVars, serviceVars>>
  BY DEF PersistStatus, At
<1>2. /\ proc[p] \in LocalType /\ e \in Stamp /\ s \in ExecStatus
  BY <1>1, ProcFacts DEF Sound, Stamped, PersistedStatus, LocalType, ExecStatus,
                           OrderStatus
<1>3. l \in LocalType /\ l.pc = "lookup" /\ l.stamp = e
  BY <1>2 DEF LocalType, Steps
<1>4. k \in LocalType /\ k.pc = "run_guard"
  BY IdleOK DEF LocalType, Steps
<1> HIDE DEF l, k
<1>5. Sound(p, l, holders', clock') /\ (p \notin Tasker => Sound(p, k, holders', clock'))
  BY <1>2, <1>3, <1>4 DEF Sound, Held, Stamped
<1>6. ProcPart'
  BY <1>1, <1>3, <1>4, <1>5, GotoMoves, FinishMoves, ProcFacts
<1>7. exec' \in [Stamp -> ExecStatus]
  BY <1>1, <1>2, ProcFacts
<1>8. stored' \in SnapshotType
  BY <1>1, RefreshedType, ProcFacts
<1>9. ExchangePart'
  BY <1>1, <1>7, <1>8 DEF IInv, ExchangePart, exchangeVars
<1> QED BY <1>1, <1>6, <1>9, SameParts DEF IInv

\* GetHedgeCloseRequestByExecutionID.
LEMMA LookupInv ==
    ASSUME IInv, NEW p \in Proc, LookupRequest(p) \/ FailCloseReconciliation(p)
    PROVE  IInv'
<1> DEFINE r == RequestOf(proc[p].stamp)
<1>1. /\ proc[p].pc \in {"lookup", "exhausted"} /\ UNCHANGED queueVars
      /\ UNCHANGED <<config, requests, exec, exchangeVars, snapshotVars, serviceVars>>
      /\ \/ Step(p, "next") \/ Finish(p)
         \/ \E s \in {"verify", "fail"} : Goto(p, [proc[p] EXCEPT !.req = r, !.pc = s])
  BY DEF LookupRequest, FailCloseReconciliation, At
<1>2. proc[p] \in LocalType /\ proc[p].stamp \in Stamp
  BY <1>1, ProcFacts DEF Sound, Stamped
<1>3. r \in 0 .. MaxRequests
  BY RequestOfType
<1> HIDE DEF r
<1>4. CASE Step(p, "next") \/ Finish(p)
  BY <1>1, <1>4, QuietStep, SameParts DEF Steps, Held, Stamped
<1>5. ASSUME NEW s \in {"verify", "fail"}, Goto(p, [proc[p] EXCEPT !.req = r, !.pc = s])
      PROVE  IInv'
  <2> DEFINE l == [proc[p] EXCEPT !.req = r, !.pc = s]
  <2>1. l \in LocalType /\ l.pc = s /\ l.stamp = proc[p].stamp
    BY <1>2, <1>3 DEF LocalType, Steps
  <2>2. Goto(p, l)
    BY <1>5
  <2> HIDE DEF l
  <2> QED BY <1>1, <1>2, <2>1, <2>2, GotoInv, SameParts DEF Held
<1> QED BY <1>1, <1>4, <1>5

\* scheduleNextOrder.
LEMMA ScheduleNextInv == ASSUME IInv, NEW p \in Proc, ScheduleNext(p) PROVE IInv'
<1>1. /\ proc[p].pc = "next"
      /\ UNCHANGED <<config, requests, exec, exchangeVars, snapshotVars, serviceVars>>
      /\ \/ /\ proc[p].attempt + 1 < MaxAttempts
            /\ Finish(p) /\ Enqueue(proc[p].stamp, proc[p].attempt + 1)
         \/ Step(p, "exhausted") /\ UNCHANGED queueVars
  BY DEF ScheduleNext, At
<1>2. proc[p].stamp \in Stamp /\ proc[p].attempt \in 0 .. (MaxAttempts - 1)
  BY <1>1, ProcFacts DEF Sound, Stamped, LocalType
<1>3. QueueOK'
  <2>1. CASE Step(p, "exhausted") /\ UNCHANGED queueVars
    BY <2>1, SameParts
  <2>2. CASE proc[p].attempt + 1 < MaxAttempts /\ Enqueue(proc[p].stamp, proc[p].attempt + 1)
    <3>1. proc[p].attempt + 1 \in 0 .. (MaxAttempts - 1)
      BY <1>2, <2>2, Bounds
    <3> QED BY <1>2, <2>2, <3>1, EnqueueType, ProcFacts
  <2> QED BY <1>1, <2>1, <2>2
<1> QED BY <1>1, <1>3, QuietStep DEF Steps, Held, Stamped

\* TryLock, by a run and by ExitHedge: nobody else is inside.
LEMMA LockInv ==
    ASSUME IInv, NEW p \in Handler \cup Runner, NEW s \in {"begin", "run_guard"},
           Lock!Enter(p), proc' = [proc EXCEPT ![p].pc = s],
           UNCHANGED <<config, requests, exec, exchangeVars, snapshotVars, queueVars, serviceVars>>
    PROVE  IInv'
<1> DEFINE l == [proc[p] EXCEPT !.pc = s]
<1>1. p \in Proc
  BY DEF Proc
<1>2. holders = {} /\ holders' = {p}
  BY DEF Lock!Enter
<1>3. l \in LocalType /\ l.pc = s
  BY <1>1, ProcFacts DEF LocalType, Steps
<1>4. proc' = [proc EXCEPT ![p] = l]
  BY <1>1, ProcFacts DEF ProcPart
<1> HIDE DEF l
<1>5. Sound(p, l, holders', clock')
  <2>1. p \notin Tasker
    BY <1>1, Bounds, ProcFacts DEF Sound
  <2> QED BY <1>2, <1>3, <2>1 DEF Sound, Held, Stamped
<1>6. clock' = clock
  BY DEF snapshotVars
<1>7. /\ holders' \subseteq Handler \cup Runner /\ \A v, w \in holders' : v = w
      /\ \A x \in holders : x # p => x \in holders'
  BY <1>2
<1>8. ProcPart'
  BY <1>1, <1>3, <1>4, <1>5, <1>6, <1>7, Moves, ProcFacts
<1> QED BY <1>8, SameParts DEF IInv

\* A run that gets the lock goes on; one that does not is over.
LEMMA RunTryLockInv == ASSUME IInv, NEW p \in Proc, RunTryLock(p) PROVE IInv'
<1>1. /\ proc[p].pc = "run_lock"
      /\ UNCHANGED <<config, requests, exec, exchangeVars, snapshotVars, queueVars, serviceVars>>
      /\ (Lock!Enter(p) /\ proc' = [proc EXCEPT ![p].pc = "run_guard"]) \/ Finish(p)
  BY DEF RunTryLock, At
<1>2. p \in Runner
  BY <1>1, ProcFacts DEF Sound
<1>3. CASE Lock!Enter(p) /\ proc' = [proc EXCEPT ![p].pc = "run_guard"]
  BY <1>1, <1>2, <1>3, LockInv
<1>4. CASE Finish(p)
  BY <1>1, <1>4, QuietStep, SameParts DEF Steps
<1> QED BY <1>1, <1>3, <1>4

\* ExitHedge begins inside the lock.
LEMMA ExitLockInv == ASSUME IInv, NEW h \in Handler, ExitLock(h) PROVE IInv'
BY LockInv DEF ExitLock

\* A run's opening order.
LEMMA RunOrderInv == ASSUME IInv, NEW p \in Proc, RunOrder(p) PROVE IInv'
<1>1. /\ hedge' \in {"none", "submitted", "filled"}
      /\ live' \in {live, live + 1}
      /\ stored' \in {stored, [qty |-> live', at |-> 0]}
      /\ Finish(p)
      /\ UNCHANGED <<config, requests, exec, orders, clock, queueVars, serviceVars>>
  BY DEF RunOrder
<1>2. live' \in Nat
  BY <1>1, ProcFacts
<1>3. stored' \in SnapshotType
  BY <1>1, <1>2, ProcFacts, Bounds DEF SnapshotType
<1>4. ExchangePart'
  BY <1>1, <1>2, <1>3 DEF IInv, ExchangePart
<1>5. ProcPart'
  BY <1>1, FinishMoves, ProcFacts
<1> QED BY <1>1, <1>4, <1>5, SameParts DEF IInv

\* A handler whose client goes away.
LEMMA DisconnectInv == ASSUME IInv, NEW p \in Handler, Disconnect(p) PROVE IInv'
<1>1. p \in Proc
  BY DEF Proc
<1>2. /\ Finish(p)
      /\ UNCHANGED <<config, requests, exec, exchangeVars, snapshotVars, serviceVars>>
      /\ \/ proc[p].pc \in {"verify", "confirm", "unconfirmed"} /\ Enqueue(proc[p].stamp, 0)
         \/ UNCHANGED queueVars
  BY DEF Disconnect
<1>3. QueueOK'
  <2>1. CASE UNCHANGED queueVars
    BY <2>1, SameParts
  <2>2. CASE proc[p].pc \in {"verify", "confirm", "unconfirmed"} /\ Enqueue(proc[p].stamp, 0)
    <3>1. proc[p].stamp \in Stamp
      BY <1>1, <2>2, ProcFacts DEF Sound, Stamped
    <3> QED BY <1>1, <2>2, <3>1, EnqueueType, ProcFacts
  <2> QED BY <1>2, <2>1, <2>2
<1> QED BY <1>1, <1>2, <1>3, QuietStep DEF Steps

\* A task is taken from the queue.
LEMMA TaskBeginInv ==
    ASSUME IInv, NEW t \in Tasker, NEW k \in Task, TaskBegin(t, k)
    PROVE  IInv'
<1> DEFINE s == IF exec[k.exec] = "submitted" THEN "fetch" ELSE "lookup"
           l == [Idle EXCEPT !.pc = s, !.stamp = k.exec, !.status = exec[k.exec],
                             !.attempt = k.attempt]
<1>1. t \in Proc
  BY DEF Proc
<1>2. k.exec \in Stamp /\ k.exec \in 0 .. MaxStamp /\ k.attempt \in 0 .. (MaxAttempts - 1)
  BY Bounds DEF Task, Stamp
<1>3. exec[k.exec] \in ExecStatus
  BY <1>1, <1>2, ProcFacts
<1>4. s \in {"fetch", "lookup"}
  OBVIOUS
<1>5. Goto(t, l) /\ QueueOK'
      /\ UNCHANGED <<config, requests, exec, exchangeVars, snapshotVars, serviceVars>>
  BY SameParts DEF TaskBegin, QueueOK
<1> HIDE DEF s
<1>6. l \in LocalType /\ l.pc = s /\ l.stamp = k.exec
  BY <1>2, <1>3, <1>4, IdleOK DEF LocalType, Steps
<1> HIDE DEF l
<1> QED BY <1>1, <1>2, <1>4, <1>5, <1>6, GotoInv DEF Held

\* A task that is being processed is one for an execution and a checkpoint.
LEMMA InProcessType == ASSUME IInv PROVE InProcess \subseteq Task
<1>1. ASSUME NEW t \in Tasker, proc[t].pc # "idle" PROVE TaskOf(t) \in Task
  <2>1. t \in Proc
    BY DEF Proc
  <2>2. proc[t].stamp \in Stamp /\ proc[t].attempt \in 0 .. (MaxAttempts - 1)
    BY <1>1, <2>1 DEF IInv, ProcPart, Sound, LocalType
  <2> QED BY <2>2 DEF TaskOf, Task
<1> QED BY <1>1 DEF InProcess

\* The service stops, in one way or the other.
LEMMA HaltInv == ASSUME IInv, Crash \/ Shutdown PROVE IInv'
<1>1. /\ proc' = [p \in Proc |-> Idle] /\ holders' = {}
      /\ UNCHANGED <<dryRun, config, requests, exec, exchangeVars, snapshotVars>>
      /\ up' = FALSE /\ crashes < MaxCrashes /\ crashes' = crashes + 1
  BY DEF Crash, Shutdown, Halt
<1>2. \A p \in Proc : Sound(p, proc'[p], holders', clock')
  BY <1>1, IdleOK DEF Sound, Held, Stamped
<1>3. ProcPart'
  BY <1>1, <1>2, IdleOK DEF ProcPart
<1>4. crashes' \in 0 .. MaxCrashes
  BY <1>1, Bounds DEF IInv, ServicePart
<1>5. QueueOK'
  BY InProcessType DEF Crash, Shutdown, IInv, ServicePart, QueueOK
<1>6. ServicePart'
  BY <1>1, <1>4, <1>5 DEF IInv, ServicePart
<1> QED BY <1>1, <1>3, <1>6, SameParts DEF IInv

\* Recovery at start-up, of the service or of another instance.
LEMMA RecoverInv == ASSUME IInv, Restart \/ ReplicaStarts PROVE IInv'
<1>1. /\ Recover /\ up' \in {up, TRUE}
      /\ UNCHANGED <<dryRun, crashes, exec, exchangeVars, snapshotVars, holders, proc>>
  BY DEF Restart, ReplicaStarts
<1>2. RequestPart' /\ QueueOK'
  <2>1. CASE UNCHANGED <<config, requests, queueVars>>
    BY <2>1, SameParts
  <2>2. ASSUME NEW r \in Request, FailHedgeClose(r), UNCHANGED queueVars
        PROVE  RequestPart' /\ QueueOK'
    BY <2>2, FinishRequestPart, SameParts DEF FailHedgeClose, IInv
  <2>3. ASSUME NEW r \in Request, requests[r].exec # 0, Enqueue(requests[r].exec, 0),
               UNCHANGED <<config, requests>>
        PROVE  RequestPart' /\ QueueOK'
    <3>1. requests[r].exec \in Stamp
      BY <2>3, Bounds DEF IInv, RequestPart, RequestType, Stamp
    <3>2. ServicePart /\ 0 \in 0 .. (MaxAttempts - 1)
      BY Bounds DEF IInv
    <3> QED BY <2>3, <3>1, <3>2, EnqueueType, SameParts
  <2> QED BY <1>1, <2>1, <2>2, <2>3 DEF Recover
<1>3. ProcPart'
  BY <1>1 DEF IInv, ProcPart, snapshotVars
<1>4. ServicePart'
  BY <1>1, <1>2 DEF IInv, ServicePart
<1> QED BY <1>1, <1>2, <1>3, <1>4, SameParts DEF IInv

\* The exchange fills an order that rests there, or ends it.
LEMMA ExchangeInv ==
    ASSUME IInv, NEW e \in Stamp, ExchangeFill(e) \/ ExchangeCancel(e)
    PROVE  IInv'
<1> DEFINE o == orders[e]
           f == FillOf(o)
           full == [o EXCEPT !.status = "filled", !.qty = f]
           none == [o EXCEPT !.status = "canceled"]
<1>1. /\ o \in OrderType /\ live \in Nat /\ orders \in [Stamp -> OrderType]
      /\ o.status # "none" => o.reduceOnly
  BY DEF IInv, ExchangePart
<1>2. /\ o.status = "submitted"
      /\ \/ orders' = [orders EXCEPT ![e] = full] /\ live' = live - f
         \/ orders' = [orders EXCEPT ![e] = none] /\ live' = live
      /\ UNCHANGED <<config, requests, exec, hedge, snapshotVars, holders, queueVars, proc, serviceVars>>
  <2>1. CASE ExchangeFill(e)
    BY <1>1, <2>1 DEF ExchangeFill, OrderType
  <2>2. CASE ExchangeCancel(e)
    BY <1>1, <2>2 DEF ExchangeCancel, OrderType
  <2> QED BY <2>1, <2>2
<1>3. f \in Nat /\ live - f \in Nat
  BY <1>1, <1>2, FillBounded DEF OrderType
<1> HIDE DEF f
<1>4. /\ full \in OrderType /\ full.reduceOnly = o.reduceOnly
      /\ none \in OrderType /\ none.reduceOnly = o.reduceOnly
  BY <1>1, <1>3 DEF OrderType, OrderStatus
<1> HIDE DEF full, none
<1>5. orders' \in [Stamp -> OrderType] /\ live' \in Nat
  BY <1>1, <1>2, <1>3, <1>4
<1>6. orders'[e].reduceOnly = o.reduceOnly /\ \A k \in Stamp : k # e => orders'[k] = orders[k]
  BY <1>1, <1>2, <1>4
<1>7. \A k \in Stamp : orders'[k].status # "none" => orders'[k].reduceOnly
  BY <1>1, <1>2, <1>6 DEF IInv, ExchangePart
<1>8. ExchangePart'
  BY <1>2, <1>5, <1>7 DEF IInv, ExchangePart, snapshotVars
<1>9. ProcPart'
  BY <1>2 DEF IInv, ProcPart, snapshotVars
<1> QED BY <1>2, <1>8, <1>9, SameParts DEF IInv

\* A run's resting order is filled, the position is read, the configuration is
\* made active.
LEMMA WorldInv == ASSUME IInv, HedgeFill \/ PositionSync \/ Reenable PROVE IInv'
<1>1. UNCHANGED <<requests, exec, orders, clock, holders, queueVars, proc, serviceVars>>
  BY DEF HedgeFill, PositionSync, Reenable, exchangeVars, snapshotVars
<1>2. ProcPart'
  BY <1>1 DEF IInv, ProcPart
<1>3. /\ hedge' \in {hedge, "filled"} /\ live' \in {live, live + 1}
      /\ stored' \in {stored, [qty |-> live, at |-> 0]}
      /\ config' \in {config, [enabled |-> TRUE, lifecycle |-> "active"]}
  BY DEF HedgeFill, PositionSync, Reenable, exchangeVars, snapshotVars
<1>4. live' \in Nat /\ stored' \in SnapshotType /\ hedge' \in {"none", "submitted", "filled"}
  BY <1>3, Bounds DEF IInv, ExchangePart, SnapshotType
<1>5. ExchangePart'
  BY <1>1, <1>4 DEF IInv, ExchangePart
<1>6. config' \in ConfigType /\ (config'.lifecycle = "closing" => config.lifecycle = "closing")
  <2>1. [enabled |-> TRUE, lifecycle |-> "active"] \in ConfigType
    BY DEF ConfigType
  <2>2. CASE config' = [enabled |-> TRUE, lifecycle |-> "active"]
    BY <2>1, <2>2
  <2>3. CASE config' = config
    BY <2>3 DEF IInv, RequestPart
  <2> QED BY <1>3, <2>2, <2>3
<1>7. RequestPart'
  BY <1>1, <1>6 DEF IInv, RequestPart, Active
<1> QED BY <1>1, <1>2, <1>5, <1>7, SameParts DEF IInv

\* The unique locks of archived tasks expire.
LEMMA LocksExpireInv == ASSUME IInv, LocksExpire PROVE IInv'
<1>1. /\ UNCHANGED <<config, requests, exec, exchangeVars, snapshotVars, holders, proc, serviceVars>>
      /\ tasks' = tasks /\ archived' = archived /\ locked' = {}
  BY DEF LocksExpire
<1>2. ProcPart'
  BY <1>1 DEF IInv, ProcPart, snapshotVars
<1>3. QueueOK'
  BY <1>1, SameParts DEF QueueOK
<1> QED BY <1>1, <1>2, <1>3, SameParts DEF IInv
------------------------------------------------------------------------------
(* Every step, and the theorems *)

\* The invariant holds at the start.
LEMMA InitInv == ASSUME Init PROVE IInv
<1>1. ProcPart
  BY IdleOK DEF Init, Lock!Init, ProcPart, Sound, Held, Stamped
<1>2. RequestPart
  BY Bounds DEF Init, RequestPart, RequestType, ConfigType, Active, ActiveStatuses
<1>3. live \in {0, 1} /\ stored \in SnapshotType
  BY Bounds DEF Init, SnapshotType
<1>4. orders \in [Stamp -> OrderType] /\ \A e \in Stamp : orders[e].status = "none"
  BY DEF Init, OrderType, OrderStatus
<1>5. ExchangePart
  BY <1>3, <1>4, Bounds DEF Init, ExchangePart, ExecStatus
<1>6. ServicePart
  BY CloseAssumption DEF Init, ServicePart, QueueOK
<1> QED BY <1>1, <1>2, <1>5, <1>6 DEF IInv

\* Every step keeps it.
LEMMA NextInv == ASSUME IInv, [Next]_vars PROVE IInv'
<1>1. CASE UNCHANGED vars
  BY <1>1 DEF vars, IInv, ProcPart, RequestPart, Active, ExchangePart, ServicePart, QueueOK
<1>2. ASSUME NEW p \in Proc, ProcStep(p) PROVE IInv'
  BY <1>2, BeginExistingInv, BeginRequestInv, LoadLiveInv, LoadStoredInv, QuietInv, CreatePlanInv,
     PlaceOrderInv, RecordExecutionInv, AttachInv, FinishRequestInv, VerifyInv, KeepVerifyingInv,
     FetchInv, PersistInv, LookupInv, ScheduleNextInv, RunTryLockInv, RunOrderInv DEF ProcStep
<1>3. ASSUME NEW h \in Handler, ExitLock(h) \/ Disconnect(h) PROVE IInv'
  BY <1>3, ExitLockInv, DisconnectInv
<1>4. ASSUME NEW w \in Runner, RunLoad(w) PROVE IInv'
  BY <1>4, QuietInv DEF Proc
<1>5. ASSUME NEW t \in Tasker, NEW k \in Task, TaskBegin(t, k) PROVE IInv'
  BY <1>5, TaskBeginInv
<1>6. CASE Crash \/ Shutdown \/ Restart \/ ReplicaStarts
  BY <1>6, HaltInv, RecoverInv
<1>7. ASSUME NEW e \in Stamp, ExchangeFill(e) \/ ExchangeCancel(e) PROVE IInv'
  BY <1>7, ExchangeInv
<1>8. CASE HedgeFill \/ PositionSync \/ Reenable \/ LocksExpire
  BY <1>8, WorldInv, LocksExpireInv
<1> QED BY <1>1, <1>2, <1>3, <1>4, <1>5, <1>6, <1>7, <1>8 DEF Next

\* The invariant, in every environment.
THEOREM CloseInvariant == Spec => []IInv
<1>1. Init => IInv
  BY InitInv
<1>2. IInv /\ [Next]_vars => IInv'
  BY NextInv
<1> QED BY <1>1, <1>2, PTL DEF Spec

\* Every table, order, task and local state keeps its type, through crashes,
\* restarts, lost tasks and a second instance.
THEOREM CloseTypeCorrect == Spec => []TypeOK
<1>1. IInv => TypeOK
  BY InvType
<1> QED BY <1>1, CloseInvariant, PTL

\* A configuration that is closing has exactly one active request, although
\* handlers, tasks, a restart and a second instance begin, finish and reopen
\* requests in any order.
THEOREM ClosingIsOwned == Spec => []ClosingHasRequest
<1>1. IInv => ClosingHasRequest
  BY InvType
<1> QED BY <1>1, CloseInvariant, PTL

\* However many close orders are sent, and from however old a snapshot, the
\* account never gets to the other side.
THEOREM ClosingNeverFlips == Spec => []CloseNeverFlips
<1>1. IInv => CloseNeverFlips
  BY InvType
<1> QED BY <1>1, CloseInvariant, PTL
------------------------------------------------------------------------------
(* What "disabled" means when no automatic run interferes *)

\* The steps of a run of RunOnce.
RunSteps == {"run_lock", "run_guard", "run_persist", "run_order"}

\* Where a close has found the position gone.
FoundFlat == {"load_stored", "complete", "confirm"}

\* Nobody opens a hedge; a close that found the position gone is right for good,
\* and so is a configuration it has disabled.
FlatInv ==
    /\ hedge = "none"
    /\ \A p \in Proc : /\ proc[p].pc \notin RunSteps
                       /\ proc[p].pc \in {"fetch", "persist"} => p \in Tasker
                       /\ proc[p].pc \in FoundFlat /\ ~dryRun => live = 0
    /\ config.lifecycle = "disabled" /\ ~dryRun => live = 0

\* Where a step takes a process.
LEMMA PcAfter ==
    ASSUME IInv, NEW p \in Proc
    PROVE  /\ \A l : Goto(p, l) =>
                 proc'[p] = l /\ \A x \in Proc : x # p => proc'[x] = proc[x]
           /\ \A s : Step(p, s) =>
                 proc'[p].pc = s /\ \A x \in Proc : x # p => proc'[x] = proc[x]
           /\ Finish(p) => proc'[p].pc = "idle" /\ \A x \in Proc : x # p => proc'[x] = proc[x]
<1>1. proc \in [Proc -> LocalType]
  BY DEF IInv, ProcPart
<1>2. \A s : [proc[p] EXCEPT !.pc = s].pc = s
  BY <1>1 DEF LocalType
<1> QED BY <1>1, <1>2, IdleOK DEF Goto, Step, Finish

\* The close orders do not open a position.
LEMMA StaysFlat ==
    ASSUME IInv, live = 0
    PROVE  /\ \A p \in Proc : PlaceOrder(p) => live' = 0
           /\ \A e \in Stamp : ExchangeFill(e) => live' = 0
<1>1. ASSUME NEW p \in Proc, PlaceOrder(p) PROVE live' = 0
  <2> DEFINE o == CloseOrder(proc[p])
  <2>1. live' = live \/ live' = live - FillOf(o)
    BY <1>1 DEF PlaceOrder
  <2>2. o.qty \in Nat /\ o.reduceOnly = TRUE
    BY ProcFacts DEF CloseOrder, LocalType
  <2> HIDE DEF o
  <2> QED BY <2>1, <2>2, FillBounded
<1>2. ASSUME NEW e \in Stamp, ExchangeFill(e) PROVE live' = 0
  <2>1. orders[e].qty \in Nat /\ orders[e].reduceOnly
    BY <1>2 DEF ExchangeFill, IInv, ExchangePart, OrderType
  <2>2. live' = live - FillOf(orders[e])
    BY <1>2 DEF ExchangeFill
  <2> QED BY <2>1, <2>2, FillBounded
<1> QED BY <1>1, <1>2

\* A step of one process that opens nothing, and disables nothing that is open.
LEMMA FlatStep ==
    ASSUME FlatInv, NEW p \in Proc, \A x \in Proc : x # p => proc'[x] = proc[x],
           proc'[p].pc \notin RunSteps,
           proc'[p].pc \in {"fetch", "persist"} => p \in Tasker,
           proc'[p].pc \in FoundFlat /\ ~dryRun => live = 0,
           hedge' = hedge, dryRun' = dryRun, live = 0 => live' = 0,
           config'.lifecycle = "disabled" /\ ~dryRun => live = 0
    PROVE  FlatInv'
BY DEF FlatInv

\* Such a step, when it also leaves the account and the configuration alone.
LEMMA FlatQuiet ==
    ASSUME IInv, FlatInv, NEW p \in Proc, NEW s,
           UNCHANGED <<config, hedge, live, dryRun>>,
           \/ Finish(p) /\ s = "idle"
           \/ Step(p, s)
           \/ \E l : Goto(p, l) /\ l.pc = s,
           s \notin RunSteps, s \in {"fetch", "persist"} => p \in Tasker,
           s \in FoundFlat /\ ~dryRun => live = 0
    PROVE  FlatInv'
<1>1. proc'[p].pc = s /\ \A x \in Proc : x # p => proc'[x] = proc[x]
  BY PcAfter
<1>2. config'.lifecycle = "disabled" /\ ~dryRun => live = 0
  BY DEF FlatInv
<1> QED BY <1>1, <1>2, FlatStep

\* The steps of ExitHedge up to the order.
LEMMA FlatExit ==
    ASSUME IInv, FlatInv, NEW p \in Proc,
           \/ BeginExisting(p) \/ BeginHedgeCloseRequest(p) \/ LoadLive(p) \/ LoadStored(p)
           \/ ExitCallFails(p) \/ CreatePlan(p)
    PROVE  FlatInv'
<1> USE DEF exchangeVars, serviceVars, RunSteps, FoundFlat
<1>1. proc[p] \in LocalType
  BY ProcFacts
<1>2. CASE BeginExisting(p)
  BY <1>2, FlatQuiet DEF BeginExisting
<1>3. CASE BeginHedgeCloseRequest(p)
  <2>1. UNCHANGED <<hedge, live, dryRun>>
    BY <1>3 DEF BeginHedgeCloseRequest
  <2>2. CASE Finish(p) /\ UNCHANGED <<config, requests>>
    BY <2>1, <2>2, FlatQuiet
  <2>3. ASSUME NEW r, config' = [enabled |-> TRUE, lifecycle |-> "closing"],
               Goto(p, [proc[p] EXCEPT !.req = r, !.pc = IF dryRun THEN "load_stored" ELSE "load"])
        PROVE  FlatInv'
    <3>1. /\ proc'[p] = [proc[p] EXCEPT !.req = r,
                                        !.pc = IF dryRun THEN "load_stored" ELSE "load"]
          /\ \A x \in Proc : x # p => proc'[x] = proc[x]
      BY <2>3, PcAfter
    <3>2. proc'[p].pc = IF dryRun THEN "load_stored" ELSE "load"
      BY <1>1, <3>1 DEF LocalType
    <3> QED BY <2>1, <2>3, <3>1, <3>2, FlatStep
  <2> QED BY <1>3, <2>2, <2>3 DEF BeginHedgeCloseRequest
<1>4. CASE LoadLive(p)
  <2>1. UNCHANGED <<config, hedge, live, dryRun>>
    BY <1>4 DEF LoadLive
  <2>2. CASE live = 0 /\ Step(p, "load_stored")
    BY <2>1, <2>2, FlatQuiet
  <2>3. CASE Goto(p, [proc[p] EXCEPT !.pc = "place", !.qty = live, !.stamp = clock'])
    <3>1. [proc[p] EXCEPT !.pc = "place", !.qty = live, !.stamp = clock'].pc = "place"
      BY <1>1 DEF LocalType
    <3> QED BY <2>1, <2>3, <3>1, FlatQuiet
  <2> QED BY <1>4, <2>2, <2>3 DEF LoadLive
<1>5. CASE LoadStored(p)
  <2>1. UNCHANGED <<config, hedge, live, dryRun>> /\ (~dryRun => live = 0)
    BY <1>5 DEF LoadStored, At, FlatInv
  <2>2. CASE Step(p, "complete")
    BY <2>1, <2>2, FlatQuiet
  <2>3. CASE Goto(p, [proc[p] EXCEPT !.pc = "place", !.qty = stored.qty, !.stamp = stored'.at])
    <3>1. [proc[p] EXCEPT !.pc = "place", !.qty = stored.qty, !.stamp = stored'.at].pc = "place"
      BY <1>1 DEF LocalType
    <3> QED BY <2>1, <2>3, <3>1, FlatQuiet
  <2> QED BY <1>5, <2>2, <2>3 DEF LoadStored
<1>6. CASE ExitCallFails(p)
  BY <1>6, FlatQuiet DEF ExitCallFails
<1>7. CASE CreatePlan(p)
  <2>1. UNCHANGED <<config, hedge, live, dryRun>>
    BY <1>7 DEF CreatePlan
  <2>2. CASE Step(p, "fail") \/ Step(p, "order")
    BY <2>1, <2>2, FlatQuiet
  <2>3. ASSUME NEW st, Goto(p, [proc[p] EXCEPT !.pc = "attach", !.status = st])
        PROVE  FlatInv'
    <3>1. [proc[p] EXCEPT !.pc = "attach", !.status = st].pc = "attach"
      BY <1>1 DEF LocalType
    <3> QED BY <2>1, <2>3, <3>1, FlatQuiet
  <2> QED BY <1>7, <2>2, <2>3 DEF CreatePlan
<1> QED BY <1>2, <1>3, <1>4, <1>5, <1>6, <1>7

\* The order, its execution and its verification.
LEMMA FlatOrder ==
    ASSUME IInv, FlatInv, NEW p \in Proc,
           \/ PlaceOrder(p) \/ RecordExecution(p) \/ AttachHedgeCloseExecution(p)
           \/ VerifyFetch(p) \/ VerifyError(p) \/ KeepVerifying(p)
    PROVE  FlatInv'
<1> USE DEF exchangeVars, serviceVars, RunSteps, FoundFlat
<1>1. proc[p] \in LocalType
  BY ProcFacts
<1>2. CASE PlaceOrder(p)
  <2>1. UNCHANGED <<config, hedge, dryRun>> /\ (live = 0 => live' = 0)
    BY <1>2, StaysFlat DEF PlaceOrder
  <2>2. PICK st : Goto(p, [proc[p] EXCEPT !.pc = "record", !.status = st])
    BY <1>2 DEF PlaceOrder
  <2>3. [proc[p] EXCEPT !.pc = "record", !.status = st].pc = "record"
    BY <1>1 DEF LocalType
  <2>4. proc'[p].pc = "record" /\ \A x \in Proc : x # p => proc'[x] = proc[x]
    BY <2>2, <2>3, PcAfter
  <2>5. config'.lifecycle = "disabled" /\ ~dryRun => live = 0
    BY <2>1 DEF FlatInv
  <2> QED BY <2>1, <2>4, <2>5, FlatStep
<1>3. CASE RecordExecution(p)
  <2>1. UNCHANGED <<config, hedge, live, dryRun>> /\ (Step(p, "fail") \/ Step(p, "attach"))
    BY <1>3 DEF RecordExecution
  <2> QED BY <2>1, FlatQuiet
<1>4. CASE AttachHedgeCloseExecution(p)
  <2>1. UNCHANGED <<config, hedge, live, dryRun>> /\ (Step(p, "verify") \/ Finish(p))
    BY <1>4 DEF AttachHedgeCloseExecution
  <2> QED BY <2>1, FlatQuiet
<1>5. CASE VerifyFetch(p)
  <2>1. /\ UNCHANGED <<config, hedge, live, dryRun>>
        /\ ((dryRun \/ live = 0) /\ Step(p, "confirm")) \/ Step(p, "unconfirmed")
    BY <1>5 DEF VerifyFetch
  <2> QED BY <2>1, FlatQuiet
<1>6. CASE VerifyError(p)
  BY <1>6, FlatQuiet DEF VerifyError
<1>7. CASE KeepVerifying(p)
  <2>1. UNCHANGED <<config, hedge, live, dryRun>> /\ (Step(p, "next") \/ Finish(p))
    BY <1>7 DEF KeepVerifying, NotConfirmed
  <2> QED BY <2>1, FlatQuiet
<1> QED BY <1>2, <1>3, <1>4, <1>5, <1>6, <1>7

\* The ends of a close: it disables the configuration where it has found the
\* position gone.
LEMMA FlatEnds ==
    ASSUME IInv, FlatInv, NEW p \in Proc, ExitComplete(p) \/ Fail(p) \/ Confirm(p)
    PROVE  FlatInv'
<1>1. /\ Finish(p) /\ UNCHANGED <<hedge, live, dryRun>>
      /\ config'.lifecycle = "disabled" => proc[p].pc \in FoundFlat
  BY DEF ExitComplete, Fail, Confirm, CompleteHedgeClose, FailHedgeClose, FinishRequest, At,
     exchangeVars, serviceVars, FoundFlat
<1>2. proc'[p].pc = "idle" /\ \A x \in Proc : x # p => proc'[x] = proc[x]
  BY <1>1, PcAfter
<1>3. config'.lifecycle = "disabled" /\ ~dryRun => live = 0
  BY <1>1 DEF FlatInv
<1> QED BY <1>1, <1>2, <1>3, FlatStep DEF RunSteps, FoundFlat

\* The steps of a reconciliation task.
LEMMA FlatTask ==
    ASSUME IInv, FlatInv, NEW p \in Proc,
           \/ FetchOrder(p) \/ PersistStatus(p) \/ LookupRequest(p)
           \/ ScheduleNext(p) \/ FailCloseReconciliation(p)
    PROVE  FlatInv'
<1> USE DEF exchangeVars, serviceVars, RunSteps, FoundFlat
<1>1. proc[p] \in LocalType
  BY ProcFacts
<1>2. CASE FetchOrder(p)
  <2> DEFINE l == [proc[p] EXCEPT !.pc = "persist", !.status = orders[proc[p].stamp].status]
  <2>1. UNCHANGED <<config, hedge, live, dryRun>> /\ p \in Tasker
    BY <1>2 DEF FetchOrder, At, FlatInv
  <2>2. l.pc = "persist"
    BY <1>1 DEF LocalType
  <2>3. Goto(p, l) \/ Step(p, "next")
    BY <1>2 DEF FetchOrder
  <2> HIDE DEF l
  <2> QED BY <2>1, <2>2, <2>3, FlatQuiet
<1>3. CASE PersistStatus(p)
  <2> DEFINE l == [proc[p] EXCEPT !.pc = "lookup", !.status = PersistedStatus(p)]
  <2>1. UNCHANGED <<config, hedge, live, dryRun>> /\ p \in Tasker
    BY <1>3 DEF PersistStatus, At, FlatInv
  <2>2. l.pc = "lookup"
    BY <1>1 DEF LocalType
  <2>3. Goto(p, l)
    BY <1>3, <2>1 DEF PersistStatus
  <2> HIDE DEF l
  <2> QED BY <2>1, <2>2, <2>3, FlatQuiet
<1>4. CASE LookupRequest(p) \/ FailCloseReconciliation(p)
  <2>1. UNCHANGED <<config, hedge, live, dryRun>>
    BY <1>4 DEF LookupRequest, FailCloseReconciliation
  <2>2. \/ Step(p, "next") \/ Finish(p)
        \/ \E r, s : s \in {"verify", "fail"} /\ Goto(p, [proc[p] EXCEPT !.req = r, !.pc = s])
    BY <1>4 DEF LookupRequest, FailCloseReconciliation
  <2>3. ASSUME NEW r, NEW s \in {"verify", "fail"}, Goto(p, [proc[p] EXCEPT !.req = r, !.pc = s])
        PROVE  FlatInv'
    <3>1. [proc[p] EXCEPT !.req = r, !.pc = s].pc = s
      BY <1>1 DEF LocalType
    <3> QED BY <2>1, <2>3, <3>1, FlatQuiet
  <2>4. CASE Step(p, "next") \/ Finish(p)
    BY <2>1, <2>4, FlatQuiet
  <2> QED BY <2>2, <2>3, <2>4
<1>5. CASE ScheduleNext(p)
  <2>1. UNCHANGED <<config, hedge, live, dryRun>> /\ (Step(p, "exhausted") \/ Finish(p))
    BY <1>5 DEF ScheduleNext
  <2> QED BY <2>1, FlatQuiet
<1> QED BY <1>2, <1>3, <1>4, <1>5

\* Everything else that happens without automatic runs.
LEMMA FlatRest ==
    ASSUME IInv, FlatInv, "auto" \notin Environment,
           \/ \E h \in Handler : ExitLock(h) \/ Disconnect(h)
           \/ \E w \in Runner : RunLoad(w)
           \/ \E t \in Tasker, k \in Task : TaskBegin(t, k)
           \/ Crash \/ Shutdown \/ LocksExpire \/ Restart \/ ReplicaStarts
           \/ \E e \in Stamp : ExchangeFill(e) \/ ExchangeCancel(e)
           \/ HedgeFill \/ PositionSync \/ Reenable
    PROVE  FlatInv'
<1> USE DEF exchangeVars, serviceVars, RunSteps, FoundFlat
<1>1. ASSUME NEW h \in Handler, ExitLock(h) PROVE FlatInv'
  <2>1. h \in Proc /\ UNCHANGED <<config, hedge, live, dryRun>>
    BY <1>1 DEF ExitLock, Proc
  <2>2. proc[h] \in LocalType /\ proc \in [Proc -> LocalType]
    BY <2>1, ProcFacts DEF ProcPart
  <2>3. proc'[h].pc = "begin" /\ \A x \in Proc : x # h => proc'[x] = proc[x]
    BY <1>1, <2>1, <2>2 DEF ExitLock, LocalType
  <2>4. config'.lifecycle = "disabled" /\ ~dryRun => live = 0
    BY <2>1 DEF FlatInv
  <2> QED BY <2>1, <2>3, <2>4, FlatStep
<1>2. ASSUME NEW h \in Handler, Disconnect(h) PROVE FlatInv'
  BY <1>2, FlatQuiet DEF Disconnect, Proc
<1>3. ASSUME NEW w \in Runner, RunLoad(w) PROVE FlatInv'
  BY <1>3 DEF RunLoad, Can
<1>4. ASSUME NEW t \in Tasker, NEW k \in Task, TaskBegin(t, k) PROVE FlatInv'
  <2> DEFINE s == IF exec[k.exec] = "submitted" THEN "fetch" ELSE "lookup"
             l == [Idle EXCEPT !.pc = s, !.stamp = k.exec, !.status = exec[k.exec],
                               !.attempt = k.attempt]
  <2>1. t \in Proc /\ UNCHANGED <<config, hedge, live, dryRun>> /\ Goto(t, l)
    BY <1>4 DEF TaskBegin, Proc
  <2>2. s \in {"fetch", "lookup"}
    OBVIOUS
  <2> HIDE DEF s
  <2>3. l.pc = s
    BY IdleOK DEF LocalType
  <2> HIDE DEF l
  <2> QED BY <2>1, <2>2, <2>3, FlatQuiet
<1>5. CASE Crash \/ Shutdown
  BY <1>5, IdleOK DEF Crash, Shutdown, Halt, FlatInv
<1>6. CASE Restart \/ ReplicaStarts
  <2>1. /\ UNCHANGED <<hedge, live, dryRun, proc>>
        /\ config' = config \/ config'.lifecycle = "close_failed"
    BY <1>6 DEF Restart, ReplicaStarts, Recover, FailHedgeClose, FinishRequest
  <2> QED BY <2>1 DEF FlatInv
<1>7. ASSUME NEW e \in Stamp, ExchangeFill(e) \/ ExchangeCancel(e) PROVE FlatInv'
  <2>1. UNCHANGED <<config, hedge, dryRun, proc>> /\ (live = 0 => live' = 0)
    BY <1>7, StaysFlat DEF ExchangeFill, ExchangeCancel
  <2> QED BY <2>1 DEF FlatInv
<1>8. CASE HedgeFill \/ PositionSync \/ Reenable \/ LocksExpire
  <2>1. /\ UNCHANGED <<hedge, live, dryRun, proc>>
        /\ config' = config \/ config'.lifecycle = "active"
    BY <1>8 DEF HedgeFill, PositionSync, Reenable, LocksExpire, FlatInv
  <2> QED BY <2>1 DEF FlatInv
<1> QED BY <1>1, <1>2, <1>3, <1>4, <1>5, <1>6, <1>7, <1>8

\* When no automatic run is about to open a hedge, a configuration is disabled
\* only once its position is gone from the exchange, and the position stays gone:
\* whatever calls fail, whoever stops or starts, in whatever order the close
\* orders are filled.
THEOREM DisabledIsFlat ==
    ASSUME "auto" \notin Environment, "resting" \notin Environment
    PROVE  Spec => []DisabledMeansFlat
<1>1. Init => IInv /\ FlatInv
  <2> SUFFICES ASSUME Init PROVE FlatInv
    BY InitInv
  <2>1. hedge = "none"
    BY DEF Init, Can
  <2> QED BY <2>1, IdleOK DEF Init, FlatInv, RunSteps, FoundFlat
<1>2. IInv /\ FlatInv /\ [Next]_vars => IInv' /\ FlatInv'
  <2> SUFFICES ASSUME IInv, FlatInv, [Next]_vars PROVE FlatInv'
    BY NextInv
  <2>1. CASE UNCHANGED vars
    BY <2>1 DEF vars, FlatInv
  <2>2. ASSUME NEW p \in Proc, ProcStep(p) PROVE FlatInv'
    <3>1. ~(RunTryLock(p) \/ RunFetch(p) \/ RunGuard(p) \/ RunOrder(p))
      BY DEF RunTryLock, RunFetch, RunGuard, RunOrder, At, FlatInv, RunSteps
    <3> QED BY <2>2, <3>1, FlatExit, FlatOrder, FlatEnds, FlatTask DEF ProcStep
  <2> QED BY <2>1, <2>2, FlatRest DEF Next
<1>3. FlatInv => DisabledMeansFlat
  BY DEF FlatInv, DisabledMeansFlat
<1> QED BY <1>1, <1>2, <1>3, PTL DEF Spec
------------------------------------------------------------------------------
(* The lifecycle the tables show *)

\* Where a handler or a task works on a close request.
WithRequest == {"load", "load_stored", "place", "order", "record", "attach", "complete", "fail",
                "verify", "confirm", "unconfirmed"}

\* The local state l names a request that was begun, if it names one.
OnBegun(l, table) ==
    l.pc \in WithRequest => l.req \in Request /\ table[l.req].status # "none"

\* Nobody works on a request that was not begun, and only a begun one has an order.
BegunInv ==
    /\ \A p \in Proc : OnBegun(proc[p], requests)
    /\ \A r \in Request : requests[r].exec # 0 => requests[r].status # "none"

\* What a step leaves in the local state of the process that takes it.
LEMMA ReqAfter ==
    ASSUME IInv, NEW p \in Proc, NEW s
    PROVE  /\ Step(p, s) => proc'[p].pc = s /\ proc'[p].req = proc[p].req
           /\ \A q : Goto(p, [proc[p] EXCEPT !.req = q, !.pc = s]) =>
                  proc'[p].pc = s /\ proc'[p].req = q
           /\ \A st : Goto(p, [proc[p] EXCEPT !.pc = s, !.status = st]) =>
                  proc'[p].pc = s /\ proc'[p].req = proc[p].req
           /\ \A n, k : Goto(p, [proc[p] EXCEPT !.pc = s, !.qty = n, !.stamp = k]) =>
                  proc'[p].pc = s /\ proc'[p].req = proc[p].req
<1>1. proc \in [Proc -> LocalType]
  BY DEF IInv, ProcPart
<1>2. proc[p] \in LocalType
  BY <1>1
<1> QED BY <1>1, <1>2 DEF Goto, Step, LocalType

\* A step of one process, after which every begun request is still begun.
LEMMA BegunStep ==
    ASSUME BegunInv, NEW p \in Proc, \A x \in Proc : x # p => proc'[x] = proc[x],
           OnBegun(proc'[p], requests'),
           \A r \in Request : requests[r].status # "none" => requests'[r].status # "none",
           \A r \in Request : requests'[r].exec = requests[r].exec \/ requests'[r].status # "none"
    PROVE  BegunInv'
<1>1. ASSUME NEW x \in Proc PROVE OnBegun(proc'[x], requests')
  BY DEF BegunInv, OnBegun
<1>2. ASSUME NEW r \in Request, requests'[r].exec # 0 PROVE requests'[r].status # "none"
  BY <1>2 DEF BegunInv
<1> QED BY <1>1, <1>2 DEF BegunInv

\* A step that leaves the two tables alone, and keeps the process on its request.
LEMMA BegunQuiet ==
    ASSUME IInv, BegunInv, NEW p \in Proc, NEW s, UNCHANGED requests,
           \/ Finish(p)
           \/ Step(p, s)
           \/ \E st : Goto(p, [proc[p] EXCEPT !.pc = s, !.status = st])
           \/ \E n, k : Goto(p, [proc[p] EXCEPT !.pc = s, !.qty = n, !.stamp = k]),
           s \in WithRequest => proc[p].pc \in WithRequest
    PROVE  BegunInv'
<1>1. \A x \in Proc : x # p => proc'[x] = proc[x]
  BY PcAfter
<1>2. OnBegun(proc[p], requests)
  BY DEF BegunInv
<1>3. \/ proc'[p].pc = "idle"
      \/ proc'[p].pc = s /\ proc'[p].req = proc[p].req
  BY PcAfter, ReqAfter
<1>4. OnBegun(proc'[p], requests')
  BY <1>2, <1>3 DEF OnBegun, WithRequest
<1> QED BY <1>1, <1>4, BegunStep

\* What the table shows of a request.
LEMMA ShownFacts ==
    ASSUME IInv, NEW r \in Request
    PROVE  /\ Shown[r] = "active" <=> Active(r)
           /\ Shown[r] = "none" <=> requests[r].status = "none"
           /\ requests[r].status \in {"none", "completed", "failed"} => Shown[r] = requests[r].status
BY DEF Shown, Active, ActiveStatuses, IInv, RequestPart, RequestType

\* It changes where the table does.
LEMMA ShownChange ==
    ASSUME NEW r \in Request, \A q \in Request : q # r => requests'[q] = requests[q],
           NEW st, st = IF Active(r)' THEN "active" ELSE requests'[r].status
    PROVE  Shown' = [Shown EXCEPT ![r] = st]
BY DEF Shown, Active

\* A step that shows nothing.
LEMMA ShownSame ==
    ASSUME UNCHANGED <<config, requests>>
    PROVE  UNCHANGED Lifecycle!vars
BY DEF Lifecycle!vars, Shown, Active

\* finishHedgeClose of a request that was begun is a step of the lifecycle.
LEMMA FinishShown ==
    ASSUME IInv, NEW r \in Request, requests[r].status # "none",
           CompleteHedgeClose(r) \/ FailHedgeClose(r)
    PROVE  /\ Lifecycle!Next
           /\ \A q \in Request : requests[q].status # "none" => requests'[q].status # "none"
           /\ \A q \in Request : requests'[q].exec = requests[q].exec
<1>1. requests \in [Request -> RequestType] /\ config \in ConfigType
  BY DEF IInv, RequestPart
<1>2. Lifecycle!Begun(r)
  BY ShownFacts DEF Lifecycle!Begun
<1>3. ASSUME NEW st \in {"completed", "failed"}, requests' = [requests EXCEPT ![r].status = st]
      PROVE  /\ Shown' = [Shown EXCEPT ![r] = st]
             /\ \A q \in Request : requests[q].status # "none" => requests'[q].status # "none"
             /\ \A q \in Request : requests'[q].exec = requests[q].exec
  <2>1. /\ requests'[r].status = st /\ requests'[r].exec = requests[r].exec
        /\ \A q \in Request : q # r => requests'[q] = requests[q]
    BY <1>1, <1>3 DEF RequestType
  <2>2. st = IF Active(r)' THEN "active" ELSE requests'[r].status
    BY <2>1 DEF Active, ActiveStatuses
  <2> QED BY <2>1, <2>2, ShownChange
<1>4. CASE CompleteHedgeClose(r)
  <2>1. /\ requests' = [requests EXCEPT ![r].status = "completed"]
        /\ config' = [enabled |-> FALSE, lifecycle |-> "disabled"]
    BY <1>4 DEF CompleteHedgeClose, FinishRequest
  <2>2. Lifecycle!Complete(r)
    BY <1>2, <1>3, <2>1 DEF Lifecycle!Complete
  <2> QED BY <1>3, <2>1, <2>2 DEF Lifecycle!Next
<1>5. CASE FailHedgeClose(r)
  <2>1. /\ requests' = [requests EXCEPT ![r].status = "failed"]
        /\ config' = [enabled |-> config.enabled, lifecycle |-> "close_failed"]
    <3>1. config' = [enabled |-> config.enabled /\ "close_failed" # "disabled",
                     lifecycle |-> "close_failed"]
      BY <1>5 DEF FailHedgeClose, FinishRequest
    <3>2. (config.enabled /\ "close_failed" # "disabled") = config.enabled
      BY <1>1 DEF ConfigType
    <3> QED BY <1>5, <3>1, <3>2 DEF FailHedgeClose, FinishRequest
  <2>2. config' = [config EXCEPT !.lifecycle = "close_failed"]
    BY <1>1, <2>1 DEF ConfigType
  <2>3. Lifecycle!Fail(r)
    BY <1>2, <1>3, <2>1, <2>2 DEF Lifecycle!Fail
  <2> QED BY <1>3, <2>1, <2>3 DEF Lifecycle!Next
<1> QED BY <1>4, <1>5

\* What every step does to the tables and to the work on them.
LifecycleStep == BegunInv' /\ [Lifecycle!Next]_(Lifecycle!vars)

\* A step that leaves the tables alone.
LEMMA QuietLifecycle ==
    ASSUME IInv, BegunInv, NEW p \in Proc, NEW s, UNCHANGED <<config, requests>>,
           \/ Finish(p)
           \/ Step(p, s)
           \/ \E st : Goto(p, [proc[p] EXCEPT !.pc = s, !.status = st])
           \/ \E n, k : Goto(p, [proc[p] EXCEPT !.pc = s, !.qty = n, !.stamp = k]),
           s \in WithRequest => proc[p].pc \in WithRequest
    PROVE  LifecycleStep
BY BegunQuiet, ShownSame DEF LifecycleStep

\* BeginHedgeCloseRequest creates a request when no other one is active.
LEMMA BeginLifecycle ==
    ASSUME IInv, BegunInv, NEW p \in Proc, BeginHedgeCloseRequest(p)
    PROVE  LifecycleStep
<1>1. CASE Finish(p) /\ UNCHANGED <<config, requests>>
  BY <1>1, QuietLifecycle DEF WithRequest
<1>2. ASSUME NEW r \in NewRequest,
             requests' = [requests EXCEPT ![r].status = "requested"],
             config' = [enabled |-> TRUE, lifecycle |-> "closing"],
             Goto(p, [proc[p] EXCEPT !.req = r, !.pc = IF dryRun THEN "load_stored" ELSE "load"])
      PROVE  LifecycleStep
  <2>1. r \in Request /\ requests[r].status = "none" /\ \A q \in Request : ~Active(q)
    BY DEF NewRequest, BeginHedgeCloseRequest
  <2>2. requests \in [Request -> RequestType]
    BY DEF IInv, RequestPart
  <2>3. /\ requests'[r].status = "requested" /\ requests'[r].exec = requests[r].exec
        /\ \A q \in Request : q # r => requests'[q] = requests[q]
    BY <1>2, <2>1, <2>2 DEF RequestType
  <2>4. Shown' = [Shown EXCEPT ![r] = "active"]
    BY <2>1, <2>3, ShownChange DEF Active, ActiveStatuses
  <2>5. ~Lifecycle!Begun(r) /\ Lifecycle!Alone(r)
    BY <2>1, ShownFacts DEF Lifecycle!Begun, Lifecycle!Alone
  <2>6. Lifecycle!Next
    BY <1>2, <2>1, <2>4, <2>5 DEF Lifecycle!Next, Lifecycle!Begin
  <2>7. proc'[p].req = r /\ \A x \in Proc : x # p => proc'[x] = proc[x]
    BY <1>2, PcAfter, ReqAfter
  <2>8. OnBegun(proc'[p], requests')
    BY <2>1, <2>3, <2>7 DEF OnBegun
  <2>9. BegunInv'
    BY <2>1, <2>3, <2>7, <2>8, BegunStep
  <2> QED BY <2>6, <2>9 DEF LifecycleStep
<1> QED BY <1>1, <1>2 DEF BeginHedgeCloseRequest

\* ExitHedge between the request and its order: the tables are left alone.
LEMMA ExitLifecycle ==
    ASSUME IInv, BegunInv, NEW p \in Proc,
           \/ BeginExisting(p) \/ LoadLive(p) \/ LoadStored(p) \/ ExitCallFails(p) \/ CreatePlan(p)
           \/ PlaceOrder(p) \/ RecordExecution(p)
    PROVE  LifecycleStep
<1> USE DEF At, WithRequest
<1>1. CASE BeginExisting(p)
  BY <1>1, QuietLifecycle DEF BeginExisting
<1>2. CASE LoadLive(p) \/ LoadStored(p)
  <2>1. /\ proc[p].pc \in WithRequest /\ UNCHANGED <<config, requests>>
        /\ \/ \E s : Step(p, s)
           \/ \E n, k : Goto(p, [proc[p] EXCEPT !.pc = "place", !.qty = n, !.stamp = k])
    BY <1>2 DEF LoadLive, LoadStored
  <2> QED BY <2>1, QuietLifecycle, ReqAfter
<1>3. CASE ExitCallFails(p)
  BY <1>3, QuietLifecycle DEF ExitCallFails
<1>4. CASE CreatePlan(p) \/ PlaceOrder(p)
  <2>1. /\ proc[p].pc \in WithRequest /\ UNCHANGED <<config, requests>>
        /\ \/ \E s : Step(p, s)
           \/ \E s, st : Goto(p, [proc[p] EXCEPT !.pc = s, !.status = st])
    BY <1>4 DEF CreatePlan, PlaceOrder
  <2> QED BY <2>1, QuietLifecycle, ReqAfter
<1>5. CASE RecordExecution(p)
  <2>1. proc[p].pc \in WithRequest /\ UNCHANGED <<config, requests>> /\ \E s : Step(p, s)
    BY <1>5 DEF RecordExecution
  <2> QED BY <2>1, QuietLifecycle
<1> QED BY <1>1, <1>2, <1>3, <1>4, <1>5

\* AttachHedgeCloseExecution updates an active request, which stays active.
LEMMA AttachLifecycle ==
    ASSUME IInv, BegunInv, NEW p \in Proc, AttachHedgeCloseExecution(p)
    PROVE  LifecycleStep
<1> DEFINE r == proc[p].req
           new == [status |-> IF proc[p].status = "submitted" THEN proc[p].status ELSE "verifying",
                   exec |-> proc[p].stamp]
<1>1. /\ proc[p].pc = "attach" /\ config' = config
      /\ requests' = IF Active(r) THEN [requests EXCEPT ![r] = new] ELSE requests
      /\ Step(p, "verify") \/ Finish(p)
  BY DEF AttachHedgeCloseExecution, At
<1>2. r \in Request /\ requests[r].status # "none" /\ requests \in [Request -> RequestType]
  BY <1>1 DEF BegunInv, OnBegun, WithRequest, IInv, RequestPart
<1>3. new.status \in ActiveStatuses
  BY DEF ActiveStatuses
<1> HIDE DEF new
<1>4. CASE ~Active(r)
  BY <1>1, <1>4, QuietLifecycle DEF WithRequest
<1>5. CASE Active(r)
  <2>1. requests'[r] = new /\ \A q \in Request : q # r => requests'[q] = requests[q]
    BY <1>1, <1>2, <1>5
  <2>2. requests'[r].status # "none" /\ (requests'[r].status \in ActiveStatuses)
    BY <1>3, <2>1 DEF ActiveStatuses
  <2>3. Shown' = Shown
    BY <1>2, <1>5, <2>1, <2>2 DEF Shown, Active
  <2>4. /\ \A x \in Proc : x # p => proc'[x] = proc[x]
        /\ proc'[p].pc = "idle" \/ proc'[p].req = r
    BY <1>1, PcAfter, ReqAfter
  <2>5. OnBegun(proc'[p], requests')
    BY <1>2, <2>2, <2>4 DEF OnBegun, WithRequest
  <2>6. BegunInv'
    BY <2>1, <2>2, <2>4, <2>5, BegunStep
  <2> QED BY <1>1, <2>3, <2>6 DEF LifecycleStep, Lifecycle!vars
<1> QED BY <1>4, <1>5

\* The ends of a close.
LEMMA EndLifecycle ==
    ASSUME IInv, BegunInv, NEW p \in Proc, ExitComplete(p) \/ Fail(p) \/ Confirm(p)
    PROVE  LifecycleStep
<1> DEFINE r == proc[p].req
<1>1. /\ proc[p].pc \in WithRequest /\ Finish(p)
      /\ CompleteHedgeClose(r) \/ FailHedgeClose(r)
  BY DEF ExitComplete, Fail, Confirm, At, WithRequest
<1>2. r \in Request /\ requests[r].status # "none"
  BY <1>1 DEF BegunInv, OnBegun
<1>3. /\ Lifecycle!Next
      /\ \A q \in Request : requests[q].status # "none" => requests'[q].status # "none"
      /\ \A q \in Request : requests'[q].exec = requests[q].exec
  BY <1>1, <1>2, FinishShown
<1>4. proc'[p].pc = "idle" /\ \A x \in Proc : x # p => proc'[x] = proc[x]
  BY <1>1, PcAfter
<1>5. OnBegun(proc'[p], requests')
  BY <1>4 DEF OnBegun, WithRequest
<1> QED BY <1>3, <1>4, <1>5, BegunStep DEF LifecycleStep

\* UpdateHedgeCloseStatus is a step of the lifecycle because of the unique index.
LEMMA VerifyLifecycle ==
    ASSUME IInv, BegunInv, NEW p \in Proc, VerifyFetch(p) \/ VerifyError(p) \/ KeepVerifying(p)
    PROVE  LifecycleStep
<1> DEFINE r == proc[p].req
<1>1. CASE VerifyFetch(p) \/ VerifyError(p)
  <2>1. proc[p].pc \in WithRequest /\ UNCHANGED <<config, requests>> /\ \E s : Step(p, s)
    BY <1>1 DEF VerifyFetch, VerifyError, At, WithRequest
  <2> QED BY <2>1, QuietLifecycle
<1>2. CASE KeepVerifying(p)
  <2>1. /\ proc[p].pc = "unconfirmed" /\ config' = config
        /\ requests' = IF IndexAllows(r) THEN [requests EXCEPT ![r].status = "verifying"] ELSE requests
        /\ Step(p, "next") \/ Finish(p)
    BY <1>2 DEF KeepVerifying, SetVerifying, NotConfirmed, At
  <2>2. r \in Request /\ requests[r].status # "none" /\ requests \in [Request -> RequestType]
    BY <2>1 DEF BegunInv, OnBegun, WithRequest, IInv, RequestPart
  <2>3. CASE ~IndexAllows(r)
    BY <2>1, <2>3, QuietLifecycle DEF WithRequest
  <2>4. CASE IndexAllows(r)
    <3>1. /\ requests'[r].status = "verifying" /\ requests'[r].exec = requests[r].exec
          /\ \A q \in Request : q # r => requests'[q] = requests[q]
      BY <2>1, <2>2, <2>4 DEF RequestType
    <3> HIDE DEF r
    <3>2. Shown' = [Shown EXCEPT ![r] = "active"]
      BY <2>2, <3>1, ShownChange DEF Active, ActiveStatuses
    <3>3. Lifecycle!Begun(r) /\ Lifecycle!Alone(r)
      BY <2>2, <2>4, ShownFacts DEF Lifecycle!Begun, Lifecycle!Alone, IndexAllows
    <3>4. Lifecycle!Next
      BY <2>1, <2>2, <3>2, <3>3 DEF Lifecycle!Next, Lifecycle!Reopen
    <3>5. proc'[p].pc \in {"next", "idle"} /\ \A x \in Proc : x # p => proc'[x] = proc[x]
      BY <2>1, PcAfter
    <3>6. OnBegun(proc'[p], requests')
      BY <3>5 DEF OnBegun, WithRequest
    <3>7. BegunInv'
      BY <3>1, <3>5, <3>6, BegunStep
    <3> QED BY <3>4, <3>7 DEF LifecycleStep
  <2> QED BY <2>3, <2>4
<1> QED BY <1>1, <1>2

\* A task looks up the request of an execution: one that has an order was begun.
LEMMA LookupLifecycle ==
    ASSUME IInv, BegunInv, NEW p \in Proc, LookupRequest(p) \/ FailCloseReconciliation(p)
    PROVE  LifecycleStep
<1> DEFINE r == RequestOf(proc[p].stamp)
<1>1. /\ proc[p].pc \in {"lookup", "exhausted"} /\ UNCHANGED <<config, requests>>
      /\ \/ Step(p, "next") \/ Finish(p)
         \/ r # 0 /\ \E s : Goto(p, [proc[p] EXCEPT !.req = r, !.pc = s])
  BY DEF LookupRequest, FailCloseReconciliation, At
<1>2. CASE Step(p, "next") \/ Finish(p)
  BY <1>1, <1>2, QuietLifecycle DEF WithRequest
<1>3. ASSUME NEW s, r # 0, Goto(p, [proc[p] EXCEPT !.req = r, !.pc = s])
      PROVE  LifecycleStep
  <2>1. proc[p].stamp \in Stamp
    BY <1>1, ProcFacts DEF Sound, Stamped
  <2>2. r \in Request /\ requests[r].exec = proc[p].stamp
    BY <1>3, RequestOfHas DEF RequestsOf
  <2>3. requests[r].exec # 0
    BY <2>1, <2>2, Bounds DEF Stamp
  <2>4. requests[r].status # "none"
    BY <2>2, <2>3 DEF BegunInv
  <2> HIDE DEF r
  <2>5. proc'[p].req = r /\ \A x \in Proc : x # p => proc'[x] = proc[x]
    BY <1>3, PcAfter, ReqAfter
  <2>6. OnBegun(proc'[p], requests')
    BY <1>1, <2>2, <2>4, <2>5 DEF OnBegun
  <2> QED BY <1>1, <2>5, <2>6, BegunStep, ShownSame DEF LifecycleStep
<1> QED BY <1>1, <1>2, <1>3

\* The other steps of tasks and runs.
LEMMA WorkLifecycle ==
    ASSUME IInv, BegunInv, NEW p \in Proc,
           \/ FetchOrder(p) \/ PersistStatus(p) \/ ScheduleNext(p)
           \/ RunTryLock(p) \/ RunFetch(p) \/ RunGuard(p) \/ RunOrder(p) \/ RunLoad(p)
    PROVE  LifecycleStep
<1>1. UNCHANGED <<config, requests>>
  BY DEF FetchOrder, PersistStatus, ScheduleNext, RunTryLock, RunFetch, RunGuard, RunOrder, RunLoad
<1>2. proc \in [Proc -> LocalType] /\ proc[p] \in LocalType
  BY DEF IInv, ProcPart
<1>3. /\ proc'[p].pc \notin WithRequest
      /\ \A x \in Proc : x # p => proc'[x] = proc[x]
  <2> USE DEF WithRequest
  <2>1. CASE ScheduleNext(p) \/ RunGuard(p) \/ RunOrder(p) \/ RunLoad(p)
    BY <2>1, PcAfter DEF ScheduleNext, RunGuard, RunOrder, RunLoad
  <2>2. CASE FetchOrder(p)
    <3>1. Step(p, "next") \/ \E st : Goto(p, [proc[p] EXCEPT !.pc = "persist", !.status = st])
      BY <2>2 DEF FetchOrder
    <3>2. proc'[p].pc \in {"next", "persist"}
      BY <3>1, ReqAfter
    <3> QED BY <3>1, <3>2, PcAfter
  <2>3. CASE PersistStatus(p)
    <3>1. [Idle EXCEPT !.pc = "run_guard"].pc = "run_guard"
      BY DEF Idle
    <3>2. \/ \E st : Goto(p, [proc[p] EXCEPT !.pc = "lookup", !.status = st])
          \/ Finish(p) \/ Goto(p, [Idle EXCEPT !.pc = "run_guard"])
      BY <2>3 DEF PersistStatus
    <3>3. proc'[p].pc \in {"lookup", "idle", "run_guard"}
      BY <3>1, <3>2, PcAfter, ReqAfter
    <3> QED BY <3>2, <3>3, PcAfter
  <2>4. CASE RunTryLock(p)
    BY <1>2, <2>4, PcAfter DEF RunTryLock, LocalType
  <2>5. CASE RunFetch(p)
    <3>1. PICK e : Goto(p, [proc[p] EXCEPT !.pc = "run_persist", !.stamp = e,
                                           !.status = orders[e].status])
      BY <2>5 DEF RunFetch
    <3> QED BY <1>2, <3>1 DEF Goto, LocalType
  <2> QED BY <2>1, <2>2, <2>3, <2>4, <2>5
<1>4. OnBegun(proc'[p], requests')
  BY <1>3 DEF OnBegun
<1> QED BY <1>1, <1>3, <1>4, BegunStep, ShownSame DEF LifecycleStep

\* A process that starts or ends.
LEMMA EntryLifecycle ==
    ASSUME IInv, BegunInv, NEW p \in Proc,
           ExitLock(p) \/ Disconnect(p) \/ \E k \in Task : TaskBegin(p, k)
    PROVE  LifecycleStep
<1>1. UNCHANGED <<config, requests>>
  BY DEF ExitLock, Disconnect, TaskBegin
<1>2. proc \in [Proc -> LocalType] /\ proc[p] \in LocalType
  BY DEF IInv, ProcPart
<1>3. /\ proc'[p].pc \notin WithRequest
      /\ \A x \in Proc : x # p => proc'[x] = proc[x]
  <2> USE DEF WithRequest
  <2>1. CASE ExitLock(p)
    BY <1>2, <2>1 DEF ExitLock, LocalType
  <2>2. CASE Disconnect(p)
    BY <2>2, PcAfter DEF Disconnect
  <2>3. ASSUME NEW k \in Task, TaskBegin(p, k)
        PROVE  proc'[p].pc \notin WithRequest /\ \A x \in Proc : x # p => proc'[x] = proc[x]
    <3> DEFINE s == IF exec[k.exec] = "submitted" THEN "fetch" ELSE "lookup"
               l == [Idle EXCEPT !.pc = s, !.stamp = k.exec, !.status = exec[k.exec],
                                 !.attempt = k.attempt]
    <3>1. Goto(p, l) /\ s \in {"fetch", "lookup"}
      BY <2>3 DEF TaskBegin
    <3> HIDE DEF s
    <3>2. l.pc = s
      BY DEF Idle
    <3> HIDE DEF l
    <3> QED BY <3>1, <3>2, PcAfter
  <2> QED BY <2>1, <2>2, <2>3
<1>4. OnBegun(proc'[p], requests')
  BY <1>3 DEF OnBegun
<1> QED BY <1>1, <1>3, <1>4, BegunStep, ShownSame DEF LifecycleStep

\* The service, the exchange and the operator.
LEMMA WorldLifecycle ==
    ASSUME IInv, BegunInv,
           \/ Crash \/ Shutdown \/ LocksExpire \/ Restart \/ ReplicaStarts
           \/ HedgeFill \/ PositionSync \/ Reenable
           \/ \E e \in Stamp : ExchangeFill(e) \/ ExchangeCancel(e)
    PROVE  LifecycleStep
<1>1. CASE Crash \/ Shutdown
  <2>1. proc' = [p \in Proc |-> Idle] /\ UNCHANGED <<config, requests>>
    BY <1>1 DEF Crash, Shutdown, Halt
  <2>2. BegunInv'
    BY <2>1, IdleOK DEF BegunInv, OnBegun, WithRequest
  <2> QED BY <2>1, <2>2, ShownSame DEF LifecycleStep
<1>2. CASE Restart \/ ReplicaStarts
  <2>1. Recover /\ proc' = proc
    BY <1>2 DEF Restart, ReplicaStarts
  <2>2. CASE UNCHANGED <<config, requests>>
    BY <2>1, <2>2, ShownSame DEF LifecycleStep, BegunInv
  <2>3. ASSUME NEW r \in Request, Active(r), FailHedgeClose(r) PROVE LifecycleStep
    <3>1. requests[r].status # "none"
      BY <2>3 DEF Active, ActiveStatuses
    <3>2. /\ Lifecycle!Next
          /\ \A q \in Request : requests[q].status # "none" => requests'[q].status # "none"
          /\ \A q \in Request : requests'[q].exec = requests[q].exec
      BY <2>3, <3>1, FinishShown
    <3>3. BegunInv'
      BY <2>1, <3>2 DEF BegunInv, OnBegun
    <3> QED BY <3>2, <3>3 DEF LifecycleStep
  <2> QED BY <2>1, <2>2, <2>3 DEF Recover
<1>3. CASE Reenable
  <2>1. Lifecycle!Reactivate /\ UNCHANGED <<requests, proc>>
    BY <1>3 DEF Reenable, Lifecycle!Reactivate, Shown, Active
  <2> QED BY <2>1 DEF LifecycleStep, Lifecycle!Next, BegunInv
<1>4. CASE HedgeFill \/ PositionSync \/ LocksExpire \/ \E e \in Stamp : ExchangeFill(e) \/ ExchangeCancel(e)
  <2>1. UNCHANGED <<config, requests, proc>>
    BY <1>4 DEF HedgeFill, PositionSync, LocksExpire, ExchangeFill, ExchangeCancel
  <2> QED BY <2>1, ShownSame DEF LifecycleStep, BegunInv
<1> QED BY <1>1, <1>2, <1>3, <1>4

\* Every step.
LEMMA NextLifecycle == ASSUME IInv, BegunInv, [Next]_vars PROVE LifecycleStep
<1>1. CASE UNCHANGED vars
  BY <1>1, ShownSame DEF vars, LifecycleStep, BegunInv
<1>2. ASSUME NEW p \in Proc, ProcStep(p) PROVE LifecycleStep
  BY <1>2, BeginLifecycle, ExitLifecycle, AttachLifecycle, EndLifecycle, VerifyLifecycle,
     LookupLifecycle, WorkLifecycle DEF ProcStep
<1>3. ASSUME NEW h \in Handler, ExitLock(h) \/ Disconnect(h) PROVE LifecycleStep
  BY <1>3, EntryLifecycle DEF Proc
<1>4. ASSUME NEW w \in Runner, RunLoad(w) PROVE LifecycleStep
  BY <1>4, WorkLifecycle DEF Proc
<1>5. ASSUME NEW t \in Tasker, NEW k \in Task, TaskBegin(t, k) PROVE LifecycleStep
  BY <1>5, EntryLifecycle DEF Proc
<1>6. CASE \/ Crash \/ Shutdown \/ LocksExpire \/ Restart \/ ReplicaStarts
           \/ HedgeFill \/ PositionSync \/ Reenable
           \/ \E e \in Stamp : ExchangeFill(e) \/ ExchangeCancel(e)
  BY <1>6, WorldLifecycle
<1> QED BY <1>1, <1>2, <1>3, <1>4, <1>5, <1>6 DEF Next

\* At the start nothing is begun.
LEMMA InitLifecycle == ASSUME Init PROVE BegunInv /\ Lifecycle!Init
<1>1. BegunInv
  BY IdleOK DEF Init, BegunInv, OnBegun, WithRequest
<1>2. Lifecycle!Init
  BY DEF Init, Lifecycle!Init, Shown, Active, ActiveStatuses
<1> QED BY <1>1, <1>2

\* Nobody ever works on a request that was not begun, in every environment.
THEOREM OnlyBegunRequests == Spec => []BegunInv
<1>1. Init => BegunInv
  BY InitLifecycle
<1>2. IInv /\ BegunInv /\ [Next]_vars => BegunInv'
  BY NextLifecycle DEF LifecycleStep
<1> QED BY <1>1, <1>2, CloseInvariant, PTL DEF Spec

\* Handlers, tasks, restarts and a second instance, in every environment, change
\* a configuration and its close requests as CloseLifecycle says.
THEOREM ImplementsLifecycleTheorem == Spec => ImplementsLifecycle
<1>1. Init => Lifecycle!Init
  BY InitLifecycle
<1>2. IInv /\ BegunInv /\ [Next]_vars => [Lifecycle!Next]_(Lifecycle!vars)
  BY NextLifecycle DEF LifecycleStep
<1> QED BY <1>1, <1>2, CloseInvariant, OnlyBegunRequests, PTL
        DEF Spec, ImplementsLifecycle, Lifecycle!Spec
==============================================================================
