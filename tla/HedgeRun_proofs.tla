--------------------------- MODULE HedgeRun_proofs ---------------------------
(***************************************************************************)
(* Proofs about the automatic runs, for any number of workers, reconcilers *)
(* and plans, any configuration and any exposures.                         *)
(***************************************************************************)
EXTENDS HedgeRun, HedgeCalculator_proofs, WellFoundedInduction
------------------------------------------------------------------------------
(* The inductive invariant *)

Reading == {"previous", "refresh", "write"}
Deciding == {"exposure", "position", "plan", "place", "record", "record_failed"}
OrderActions == {"open", "rebalance", "exit"}

\* A worker is in a run exactly while it holds the lock, and one run has it.
LockInv ==
    /\ \A w \in Worker : w \in holders <=> proc[w].pc # "idle"
    /\ \A v, w \in holders : v = w

\* What the local state of a worker says of the exchange: an order it heard of
\* exists, and an end it heard of is final.
Knows(l) ==
    /\ l.status # "none"
    /\ orders[l.plan].status # "none"
    /\ l.status = "filled" => orders[l.plan].status = "filled" /\ l.filled = orders[l.plan].filled
    /\ l.status = "canceled" => orders[l.plan].status = "canceled"

\* The local state l is one a run or a reconciliation can be in.
Sound(l) ==
    /\ l.pc \in {"fetch", "persist", "place", "record", "record_failed"} \cup Reading
          => l.plan \in Plan
    /\ l.pc = "fetch" => orders[l.plan].status # "none"
    /\ l.pc \in {"fetch", "persist"} => exec[l.plan].status # "none"
    /\ l.pc \in {"place", "record", "record_failed"} => exec[l.plan].status = "none"
    /\ l.pc \in {"persist", "record"} => Knows(l)
    /\ l.pc \in {"plan", "place", "record", "record_failed"}
          => DecisionOn(l.expo, l.prev).action \in OrderActions
    /\ l.read.at <= now

\* A reconciliation task only looks an order up and refreshes the position.
TaskControl ==
    \A t \in Reconciler : /\ proc[t].pc \in {"idle", "fetch", "persist"} \cup Reading
                          /\ ~proc[t].guarding

\* Rows and snapshots are stamped with the past.
Stamped ==
    /\ stored.at <= now
    /\ \A p \in Plan : exec[p].at <= now
    /\ \A p \in Plan : exec[p].status = "none" => exec[p] = NoExec

IInv ==
    /\ TypeOK
    /\ LockInv
    /\ \A x \in Proc : Sound(proc[x])
    /\ TaskControl
    /\ Stamped
    /\ RecordsAreTrue
------------------------------------------------------------------------------
(* Types of what the actions compute *)

\* What is assumed of the constants.
LEMMA Constants ==
    /\ Cfg \in ConfigType /\ Cfg.min > 0
    /\ Exposures \cup {0} \subseteq Int
    /\ MaxPlans \in Nat
    /\ \A w \in Worker : w \notin Reconciler
    /\ \A t \in Reconciler : t \notin Worker
<1>1. Cfg \in ConfigType
  BY RunAssumption
<1>2. Cfg.min > 0
  BY RunAssumption
<1> QED BY <1>1, <1>2, RunAssumption

\* The idle state is a local state, and claims nothing.
LEMMA IdleOK ==
    /\ Idle \in ProcType
    /\ Idle.pc = "idle" /\ Idle.guarding = FALSE /\ Idle.read.at = 0
BY Constants DEF Idle, ProcType, Step, OrderStatus, SnapshotType, NoSnapshot, ExposureType

\* What RunOnce orders is a quantity of the decision's direction: the whole
\* position to close it, or all of the adjustment.
LEMMA DecisionShape ==
    ASSUME NEW expo \in ExposureType, NEW pos \in SnapshotType,
           DecisionOn(expo, pos).action \in OrderActions
    PROVE  LET d == DecisionOn(expo, pos)
           IN  /\ d.adjustment \in Int /\ d.adjustment # 0
               /\ OrderQuantity(d) = d.adjustment
               /\ Goal(Cfg, expo.notional, pos.qty) \in Int
               /\ pos.qty + d.adjustment \in {0, Goal(Cfg, expo.notional, pos.qty)}
               /\ d.reduceOnly \in BOOLEAN
               /\ d.reduceOnly => /\ pos.qty # 0 /\ Sign(d.adjustment) # Sign(pos.qty)
                                  /\ Abs(d.adjustment) <= Abs(pos.qty)
<1> DEFINE e   == expo.notional
           q   == pos.qty
           p   == [quantity |-> q, notional |-> q]
           d   == Calculate(Cfg, e, 1, p)
           adj == Goal(Cfg, e, q) - q
           phase == Phase(Cfg, e, q)
<1>1. /\ Cfg \in ConfigType /\ Cfg.min > 0 /\ e \in Int /\ q \in Int
      /\ p.notional = q /\ p.quantity = q /\ p.notional \in Int
  BY Constants DEF ExposureType, SnapshotType
<1>2. d = DecisionOn(expo, pos) /\ d.action \in {"open", "rebalance", "exit"}
  BY DEF DecisionOn, OrderActions
<1>3. Goal(Cfg, e, q) \in Int
  BY <1>1, GoalWithinCap
<1>4. /\ adj \in Int /\ Abs(adj) >= Cfg.min
      /\ \/ q # 0 /\ d = FlipClose(phase, p, 1)
         \/ d = Adjust(phase, q, adj, 1) /\ ~WouldFlipPosition(q, adj)
  BY <1>1, <1>2, OrderShape
<1>5. CASE q # 0 /\ d = FlipClose(phase, p, 1)
  <2>1. /\ d.adjustment = -q /\ d.side = SideOf(-q) /\ d.quantity.num = Abs(q)
    BY <1>1, <1>5 DEF FlipClose, Whole
  <2>2. OrderQuantity(d) = -q
    BY <1>1, <2>1 DEF OrderQuantity, SideOf, Abs
  <2>3. Sign(-q) # Sign(q) /\ Abs(-q) <= Abs(q)
    BY <1>1, <1>5 DEF Sign, Abs
  <2>4. d.reduceOnly = TRUE
    BY <1>5 DEF FlipClose
  <2>5. /\ d.adjustment \in Int /\ d.adjustment # 0
        /\ OrderQuantity(d) = d.adjustment
        /\ Goal(Cfg, e, q) \in Int
        /\ q + d.adjustment \in {0, Goal(Cfg, e, q)}
        /\ q # 0 /\ Sign(d.adjustment) # Sign(q) /\ Abs(d.adjustment) <= Abs(q)
    BY <1>1, <1>3, <1>5, <2>1, <2>2, <2>3
  <2> HIDE DEF d
  <2>6. d.reduceOnly \in BOOLEAN
    BY <2>4, Zenon
  <2> QED BY <1>2, <2>5, <2>6, Zenon
<1>6. CASE d = Adjust(phase, q, adj, 1)
  <2> HIDE DEF adj
  <2>1. /\ d.adjustment = adj /\ d.side = SideOf(adj) /\ d.quantity.num = Abs(adj)
        /\ d.reduceOnly = ShouldReduceOnly(q, adj)
    BY <1>6 DEF Adjust
  <2>2. OrderQuantity(d) = adj /\ adj # 0
    BY <1>1, <1>4, <2>1 DEF OrderQuantity, SideOf, Abs, ConfigType
  <2>3. q + adj = Goal(Cfg, e, q)
    BY <1>1, <1>3 DEF adj
  <2>4. d.reduceOnly \in BOOLEAN
    BY <2>1, Zenon DEF ShouldReduceOnly
  <2>5. d.reduceOnly => q # 0 /\ Sign(adj) # Sign(q) /\ Abs(adj) <= Abs(q)
    BY <2>1 DEF ShouldReduceOnly
  <2>6. /\ d.adjustment \in Int /\ d.adjustment # 0
        /\ OrderQuantity(d) = d.adjustment
        /\ Goal(Cfg, e, q) \in Int
        /\ q + d.adjustment \in {0, Goal(Cfg, e, q)}
        /\ d.reduceOnly => q # 0 /\ Sign(d.adjustment) # Sign(q) /\ Abs(d.adjustment) <= Abs(q)
    BY <1>3, <1>4, <2>1, <2>2, <2>3, <2>5
  <2> HIDE DEF d
  <2>7. DecisionOn(expo, pos).reduceOnly \in BOOLEAN
    BY <1>2, <2>4, Zenon
  <2> QED BY <1>2, <2>6, <2>7, Zenon
<1> QED BY <1>4, <1>5, <1>6

\* A row maximal in time exists among any rows: the newest one is one of them.
LEMMA NewestExists ==
    ASSUME TypeOK, Stamped, NEW S \in SUBSET Plan, S # {}
    PROVE  /\ NewestOf(S) \in S
           /\ \A q \in S : exec[q].at <= exec[NewestOf(S)].at
<1>1. \A q \in S : exec[q].at \in Nat /\ now - exec[q].at \in Nat
  BY DEF TypeOK, Stamped, ExecType
<1> DEFINE T == {now - exec[q].at : q \in S}
<1>2. T \subseteq Nat /\ T # {}
  BY <1>1
<1> HIDE DEF T
<1>3. PICK x \in T : \A y \in T : ~(<<y, x>> \in OpToRel(<, Nat))
  BY <1>2, NatLessThanWellFounded, WFMin
<1>4. \A y \in T : ~(y < x)
  BY <1>2, <1>3 DEF OpToRel
<1>5. PICK p \in S : x = now - exec[p].at
  BY DEF T
<1>6. \A q \in S : exec[q].at <= exec[p].at
  <2> SUFFICES ASSUME NEW q \in S PROVE exec[q].at <= exec[p].at
    OBVIOUS
  <2>1. now - exec[q].at \in T
    BY DEF T
  <2> QED BY <1>1, <1>4, <1>5, <2>1 DEF TypeOK
<1> QED BY <1>6 DEF NewestOf
------------------------------------------------------------------------------
(* A step of one worker *)

\* A local state a reconciliation task may be in.
TaskLocal(w, l) ==
    w \in Reconciler => l.pc \in {"idle", "fetch", "persist"} \cup Reading /\ l.guarding = FALSE

\* Worker w goes on with local state l, or ends.
Goes(w, l) == (Continue(w, l) /\ l.pc # "idle") \/ (Finish(w) /\ l = Idle)

\* A worker that goes on or ends keeps the lock's discipline, and touches its
\* own state only.
LEMMA Moves ==
    ASSUME IInv, NEW w \in Proc, NEW l \in ProcType, proc[w].pc # "idle" \/ w \in Reconciler,
           TaskLocal(w, l), Goes(w, l)
    PROVE  /\ LockInv' /\ TaskControl'
           /\ proc' \in [Proc -> ProcType] /\ holders' \subseteq Worker
           /\ proc'[w] = l
           /\ \A x \in Proc : x # w => proc'[x] = proc[x]
<1>1. proc \in [Proc -> ProcType] /\ holders \subseteq Worker /\ LockInv /\ TaskControl
  BY DEF IInv, TypeOK
<1>2. proc' = [proc EXCEPT ![w] = l]
  BY DEF Goes, Continue, Finish, Goto
<1>3. proc' \in [Proc -> ProcType] /\ proc'[w] = l /\ \A x \in Proc : x # w => proc'[x] = proc[x]
  BY <1>1, <1>2
<1>4. TaskControl'
  BY <1>1, <1>3 DEF TaskControl, TaskLocal, Proc
<1>5. CASE Continue(w, l) /\ l.pc # "idle"
  <2>1. holders' = holders
    BY <1>5 DEF Continue
  <2>2. LockInv'
    BY <1>1, <1>3, <1>5, <2>1, Constants DEF LockInv, Proc
  <2> QED BY <1>1, <1>3, <1>4, <2>1, <2>2
<1>6. CASE Finish(w) /\ l = Idle
  <2>1. l.pc = "idle"
    BY <1>6, IdleOK
  <2>2. CASE w \in Worker
    <3>1. holders' = holders \ {w}
      BY <1>6, <2>2 DEF Finish, Lock!Leave
    <3>2. LockInv'
      BY <1>1, <1>3, <2>1, <2>2, <3>1, Constants DEF LockInv, Proc
    <3> QED BY <1>1, <1>3, <1>4, <3>1, <3>2
  <2>3. CASE w \notin Worker
    <3>1. holders' = holders
      BY <1>6, <2>3 DEF Finish
    <3>2. LockInv'
      BY <1>1, <1>3, <2>1, <2>3, <3>1 DEF LockInv, Proc
    <3> QED BY <1>1, <1>3, <1>4, <3>1, <3>2
  <2> QED BY <2>2, <2>3
<1> QED BY <1>5, <1>6 DEF Goes

\* A local state is sound when it is idle, whatever else.
LEMMA IdleSound == ASSUME IInv PROVE Sound(Idle) /\ \A w : TaskLocal(w, Idle)
BY IdleOK DEF IInv, TypeOK, Sound, TaskLocal, Reading

\* A step that only changes the worker's own state, and to a sound one.
LEMMA LocalStep ==
    ASSUME IInv, NEW w \in Proc, NEW l \in ProcType, proc[w].pc # "idle" \/ w \in Reconciler,
           TaskLocal(w, l), Goes(w, l), Sound(l),
           UNCHANGED <<now, dryRun, dbVars, exchangeVars, sync>>
    PROVE  IInv'
<1>1. /\ LockInv' /\ TaskControl'
      /\ proc' \in [Proc -> ProcType] /\ holders' \subseteq Worker
      /\ proc'[w] = l
      /\ \A x \in Proc : x # w => proc'[x] = proc[x]
  BY Moves
<1>2. \A x \in Proc : Sound(proc[x])
  BY DEF IInv
<1>3. TypeOK' /\ Stamped' /\ RecordsAreTrue'
  BY <1>1 DEF IInv, TypeOK, Stamped, RecordsAreTrue, dbVars, exchangeVars
<1>4. \A x \in Proc : Sound(proc[x])'
  BY <1>1, <1>2 DEF Sound, Knows, dbVars, exchangeVars
<1> QED BY <1>1, <1>3, <1>4 DEF IInv

\* GetLatestOrderExecutionStateByConfigID finds a row when there is one, and no
\* other is newer.
LEMMA LatestFacts ==
    ASSUME IInv
    PROVE  \/ Latest = 0 /\ \A p \in Plan : exec[p].status = "none"
           \/ /\ Latest \in Plan /\ Latest # 0 /\ exec[Latest].status # "none"
              /\ \A q \in Plan : exec[q].status # "none" => exec[q].at <= exec[Latest].at
<1> DEFINE S == {p \in Plan : exec[p].status # "none"}
<1>1. CASE S = {}
  BY <1>1 DEF Latest, NewestOf
<1>2. CASE S # {}
  <2>1. NewestOf(S) \in S /\ \A q \in S : exec[q].at <= exec[NewestOf(S)].at
    BY <1>2, NewestExists DEF IInv
  <2>2. 0 \notin Plan
    BY DEF Plan
  <2> QED BY <2>1, <2>2 DEF Latest
<1> QED BY <1>1, <1>2

\* The facts about one worker's state the steps below use.
LEMMA ProcFacts ==
    ASSUME IInv, NEW w \in Proc
    PROVE  /\ proc[w] \in ProcType /\ Sound(proc[w]) /\ TaskLocal(w, proc[w])
           /\ Plan \subseteq 0 .. MaxPlans
           /\ stored \in SnapshotType /\ exposure \in ExposureType
           /\ exec \in [Plan -> ExecType] /\ orders \in [Plan -> OrderType]
           /\ now \in Nat /\ visible \in Int /\ live \in Int
BY DEF IInv, TypeOK, TaskControl, TaskLocal, Plan

\* A worker that ends where it is.
LEMMA FinishStep ==
    ASSUME IInv, NEW w \in Proc, proc[w].pc # "idle", Finish(w),
           UNCHANGED <<now, dryRun, dbVars, exchangeVars, sync>>
    PROVE  IInv'
BY LocalStep, IdleSound, IdleOK DEF Goes

\* Every step of a run that only reads keeps the invariant.
LEMMA GuardInv == ASSUME IInv, NEW w \in Proc, Guard(w) PROVE IInv'
<1>1. proc[w].pc = "guard" /\ UNCHANGED <<now, dryRun, dbVars, exchangeVars, sync>>
  BY DEF Guard, At
<1> DEFINE p == Latest
           s == IF p = 0 THEN "none" ELSE exec[p].status
<1>2. CASE Continue(w, [proc[w] EXCEPT !.pc = "exposure"])
  <2> DEFINE l == [proc[w] EXCEPT !.pc = "exposure"]
  <2>1. l \in ProcType /\ l.pc = "exposure" /\ TaskLocal(w, l) /\ Sound(l)
    BY <1>1, ProcFacts DEF ProcType, Step, TaskLocal, Sound, Reading
  <2> QED BY <1>1, <1>2, <2>1, LocalStep DEF Goes
<1>3. CASE s = "submitted" /\ Continue(w, [proc[w] EXCEPT !.pc = "fetch", !.plan = p])
  <2> DEFINE l == [proc[w] EXCEPT !.pc = "fetch", !.plan = p]
  <2>1. p \in Plan /\ exec[p].status = "submitted"
    BY <1>3, LatestFacts
  <2>2. orders[p].status # "none"
    BY <2>1 DEF IInv, RecordsAreTrue
  <2> HIDE DEF p
  <2>3. l \in ProcType /\ l.pc = "fetch" /\ l.plan = p /\ l.read = proc[w].read
    BY <1>1, <2>1, ProcFacts DEF ProcType, Step
  <2>4. TaskLocal(w, l) /\ Sound(l)
    BY <1>1, <2>1, <2>2, <2>3, ProcFacts DEF TaskLocal, Sound, Reading
  <2> QED BY <1>1, <1>3, <2>3, <2>4, LocalStep DEF Goes
<1>4. CASE Finish(w)
  BY <1>1, <1>4, FinishStep
<1>5. CASE s = "filled" /\ Continue(w, [proc[w] EXCEPT !.pc = "position_guard", !.since = exec[p].at])
  <2> DEFINE l == [proc[w] EXCEPT !.pc = "position_guard", !.since = exec[p].at]
  <2>1. exec[p].at \in Nat
    BY <1>5, LatestFacts, ProcFacts DEF ExecType
  <2> HIDE DEF p
  <2>3. l \in ProcType /\ l.pc = "position_guard" /\ l.read = proc[w].read
    BY <1>1, <2>1, ProcFacts DEF ProcType, Step
  <2>4. TaskLocal(w, l) /\ Sound(l)
    BY <1>1, <2>3, ProcFacts DEF TaskLocal, Sound, Reading
  <2> QED BY <1>1, <1>5, <2>3, <2>4, LocalStep DEF Goes
<1> QED BY <1>2, <1>3, <1>4, <1>5 DEF Guard

\* A lookup that answered.
LEMMA FetchSubmittedInv == ASSUME IInv, NEW w \in Proc, FetchSubmitted(w) PROVE IInv'
<1> DEFINE o == orders[proc[w].plan]
           l == [proc[w] EXCEPT !.pc = "persist", !.status = o.status, !.filled = o.filled]
<1>1. proc[w].pc = "fetch" /\ Continue(w, l) /\ UNCHANGED <<now, dryRun, dbVars, exchangeVars, sync>>
  BY DEF FetchSubmitted, At
<1>2. proc[w].plan \in Plan /\ o \in OrderType /\ o.status # "none" /\ exec[proc[w].plan].status # "none"
  BY <1>1, ProcFacts DEF Sound
<1> HIDE DEF o
<1>3. /\ l \in ProcType /\ l.pc = "persist" /\ l.status = o.status /\ l.filled = o.filled
      /\ l.plan = proc[w].plan /\ l.read = proc[w].read /\ l.guarding = proc[w].guarding
  BY <1>1, <1>2, ProcFacts DEF ProcType, Step, OrderType
<1>4. TaskLocal(w, l) /\ Sound(l)
  BY <1>1, <1>2, <1>3, ProcFacts DEF TaskLocal, Sound, Knows, Reading, o
<1> QED BY <1>1, <1>3, <1>4, LocalStep DEF Goes

\* loadStoredPosition.
LEMMA LoadPreviousInv == ASSUME IInv, NEW w \in Proc, LoadPrevious(w) PROVE IInv'
<1> DEFINE l == [proc[w] EXCEPT !.pc = "refresh", !.prev = stored, !.ordered = proc[w].filled]
<1>1. proc[w].pc = "previous" /\ Continue(w, l) /\ UNCHANGED <<now, dryRun, dbVars, exchangeVars, sync>>
  BY DEF LoadPrevious, At
<1>2. /\ l \in ProcType /\ l.pc = "refresh" /\ l.plan = proc[w].plan
      /\ l.read = proc[w].read /\ l.guarding = proc[w].guarding
  BY <1>1, ProcFacts DEF ProcType, Step
<1>3. TaskLocal(w, l) /\ Sound(l)
  BY <1>1, <1>2, ProcFacts DEF TaskLocal, Sound, Reading
<1> QED BY <1>1, <1>2, <1>3, LocalStep DEF Goes

\* FetchPositions of a refresh.
LEMMA RefreshFetchInv == ASSUME IInv, NEW w \in Proc, RefreshFetch(w) PROVE IInv'
<1> DEFINE r == [known |-> TRUE, qty |-> visible, at |-> now]
           l == [proc[w] EXCEPT !.pc = "write", !.read = r]
<1>1. proc[w].pc = "refresh" /\ Continue(w, l) /\ UNCHANGED <<now, dryRun, dbVars, exchangeVars, sync>>
  BY DEF RefreshFetch, At
<1>2. r \in SnapshotType /\ r.at = now /\ now <= now
  BY ProcFacts DEF SnapshotType
<1> HIDE DEF r
<1>3. /\ l \in ProcType /\ l.pc = "write" /\ l.plan = proc[w].plan
      /\ l.read = r /\ l.guarding = proc[w].guarding
  BY <1>1, <1>2, ProcFacts DEF ProcType, Step
<1>4. TaskLocal(w, l) /\ Sound(l)
  BY <1>1, <1>2, <1>3, ProcFacts DEF TaskLocal, Sound, Reading
<1> QED BY <1>1, <1>3, <1>4, LocalStep DEF Goes

\* Where a run goes after the refresh is a sound state.
LEMMA AfterRefreshGoes ==
    ASSUME IInv, NEW w \in Proc, proc[w].pc \in Reading, AfterRefresh(w)
    PROVE  \E l \in ProcType : /\ TaskLocal(w, l) /\ Goes(w, l) /\ Sound(l)
                               /\ \/ l = Idle
                                  \/ /\ l = [proc[w] EXCEPT !.pc = "position_guard"]
                                     /\ l.pc = "position_guard" /\ l.since = proc[w].since
                                     /\ l.read = proc[w].read
                                     /\ proc[w].guarding /\ w \in Worker
<1>1. CASE Finish(w)
  BY <1>1, IdleOK, IdleSound DEF Goes
<1>2. CASE proc[w].guarding /\ Continue(w, [proc[w] EXCEPT !.pc = "position_guard"])
  <2> DEFINE l == [proc[w] EXCEPT !.pc = "position_guard"]
  <2>1. /\ l \in ProcType /\ l.pc = "position_guard" /\ l.read = proc[w].read
        /\ l.since = proc[w].since
    BY ProcFacts DEF ProcType, Step
  <2>2. w \notin Reconciler
    BY <1>2, ProcFacts DEF TaskLocal
  <2>3. TaskLocal(w, l) /\ Sound(l)
    BY <2>1, <2>2, ProcFacts DEF TaskLocal, Sound, Reading
  <2> QED BY <1>2, <2>1, <2>2, <2>3 DEF Goes, Proc
<1> QED BY <1>1, <1>2 DEF AfterRefresh

\* A refresh that failed.
LEMMA RefreshErrorInv == ASSUME IInv, NEW w \in Proc, RefreshError(w) PROVE IInv'
<1>1. /\ proc[w].pc \in Reading /\ AfterRefresh(w) /\ proc[w].pc # "idle"
      /\ UNCHANGED <<now, dryRun, dbVars, exchangeVars, sync>>
  BY DEF RefreshError, Reading
<1> QED BY <1>1, AfterRefreshGoes, LocalStep

\* The last question of the guard.
LEMMA GuardPositionInv == ASSUME IInv, NEW w \in Proc, GuardPosition(w) PROVE IInv'
<1> DEFINE l == [Idle EXCEPT !.pc = "exposure"]
<1>1. /\ proc[w].pc = "position_guard" /\ UNCHANGED <<now, dryRun, dbVars, exchangeVars, sync>>
      /\ Finish(w) \/ Continue(w, l)
  BY DEF GuardPosition, At
<1>2. l \in ProcType /\ l.pc = "exposure" /\ l.read = Idle.read
  BY IdleOK DEF ProcType, Step
<1> HIDE DEF l
<1>3. TaskLocal(w, l) /\ Sound(l)
  <2>1. TaskLocal(w, l)
    BY <1>1, ProcFacts DEF TaskLocal, Reading
  <2>2. l.read.at <= now
    BY <1>2, IdleOK, ProcFacts
  <2>3. Sound(l)
    BY <1>2, <2>2 DEF Sound, Reading
  <2> QED BY <2>1, <2>3
<1> QED BY <1>1, <1>2, <1>3, FinishStep, LocalStep DEF Goes

\* GetExposureSnapshot.
LEMMA ReadExposureInv == ASSUME IInv, NEW w \in Proc, ReadExposure(w) PROVE IInv'
<1> DEFINE l == [Idle EXCEPT !.pc = "position", !.expo = exposure]
<1>1. /\ proc[w].pc = "exposure" /\ UNCHANGED <<now, dryRun, dbVars, exchangeVars, sync>>
      /\ Finish(w) \/ Continue(w, l)
  BY DEF ReadExposure, At
<1>2. l \in ProcType /\ l.pc = "position" /\ l.read = Idle.read
  BY IdleOK, ProcFacts DEF ProcType, Step
<1> HIDE DEF l
<1>3. TaskLocal(w, l) /\ Sound(l)
  <2>1. TaskLocal(w, l)
    BY <1>1, ProcFacts DEF TaskLocal, Reading
  <2>2. l.read.at <= now
    BY <1>2, IdleOK, ProcFacts
  <2>3. Sound(l)
    BY <1>2, <2>2 DEF Sound, Reading
  <2> QED BY <2>1, <2>3
<1> QED BY <1>1, <1>2, <1>3, FinishStep, LocalStep DEF Goes

\* Whatever is not an order ends the run.
LEMMA ActionKinds ==
    ASSUME NEW expo, NEW pos, DecisionOn(expo, pos).action \notin {"hold", "skip", "error"}
    PROVE  DecisionOn(expo, pos).action \in OrderActions
BY DEF DecisionOn, Calculate, Decide, NoOrder, FlipClose, Adjust, Phase, OrderActions

\* loadPosition and Calculate.
LEMMA ReadPositionInv == ASSUME IInv, NEW w \in Proc, ReadPosition(w) PROVE IInv'
<1> DEFINE d == DecisionOn(proc[w].expo, stored)
           l == [proc[w] EXCEPT !.pc = "plan", !.prev = stored, !.ordered = OrderQuantity(d)]
<1>1. /\ proc[w].pc = "position" /\ UNCHANGED <<now, dryRun, dbVars, exchangeVars, sync>>
      /\ Finish(w) \/ (d.action \notin {"hold", "skip", "error"} /\ Continue(w, l))
  BY DEF ReadPosition, At
<1>2. CASE d.action \notin {"hold", "skip", "error"} /\ Continue(w, l)
  <2>1. d.action \in OrderActions
    BY <1>2, ActionKinds
  <2>2. proc[w].expo \in ExposureType /\ stored \in SnapshotType
    BY ProcFacts DEF ProcType
  <2>3. OrderQuantity(d) \in Int
    BY <2>1, <2>2, DecisionShape
  <2>4. /\ l \in ProcType /\ l.pc = "plan" /\ l.read = proc[w].read
        /\ l.expo = proc[w].expo /\ l.prev = stored
    BY <2>2, <2>3, ProcFacts DEF ProcType, Step
  <2>5. TaskLocal(w, l) /\ Sound(l)
    BY <1>1, <2>1, <2>4, ProcFacts DEF TaskLocal, Sound, Reading
  <2> QED BY <1>1, <1>2, <2>4, <2>5, LocalStep DEF Goes
<1> QED BY <1>1, <1>2, FinishStep

\* A run that takes the lock.
LEMMA EnterStep ==
    ASSUME IInv, NEW w \in Worker, NEW l \in ProcType, proc[w].pc = "idle", l.pc # "idle",
           Lock!Enter(w), Goto(w, l), Sound(l),
           UNCHANGED <<now, dryRun, dbVars, exchangeVars, sync>>
    PROVE  IInv'
<1>1. proc \in [Proc -> ProcType] /\ w \in Proc /\ LockInv /\ TaskControl /\ \A x \in Proc : Sound(proc[x])
  BY DEF IInv, TypeOK, Proc
<1>2. proc' \in [Proc -> ProcType] /\ proc'[w] = l /\ \A x \in Proc : x # w => proc'[x] = proc[x]
  BY <1>1 DEF Goto
<1>3. holders = {} /\ holders' = {w}
  BY DEF Lock!Enter
<1>4. LockInv' /\ TaskControl'
  BY <1>1, <1>2, <1>3, Constants DEF LockInv, TaskControl, Proc
<1>5. TypeOK' /\ Stamped' /\ RecordsAreTrue'
  BY <1>2, <1>3 DEF IInv, TypeOK, Stamped, RecordsAreTrue, dbVars, exchangeVars
<1>6. \A x \in Proc : Sound(proc[x])'
  BY <1>1, <1>2 DEF Sound, Knows, dbVars, exchangeVars
<1> QED BY <1>4, <1>5, <1>6 DEF IInv

\* Runs and tasks begin, and end early.
LEMMA BeginInv ==
    ASSUME IInv, NEW w \in Proc,
           Begin(w) \/ BeginManual(w) \/ TaskBegin(w) \/ FetchError(w) \/ Abort(w)
    PROVE  IInv'
<1>0. 0 <= now
  BY DEF IInv, TypeOK
<1>1. CASE Begin(w)
  <2> DEFINE l == [Idle EXCEPT !.pc = "guard", !.guarding = TRUE]
  <2>1. l \in ProcType /\ l.pc = "guard" /\ l.read.at = 0
    BY IdleOK DEF ProcType, Step
  <2> HIDE DEF l
  <2>2. Sound(l)
    BY <1>0, <2>1 DEF Sound, Reading
  <2> QED BY <1>1, <2>1, <2>2, EnterStep DEF Begin, At, l
<1>2. CASE BeginManual(w)
  <2> DEFINE l == [Idle EXCEPT !.pc = "exposure"]
  <2>1. l \in ProcType /\ l.pc = "exposure" /\ l.read.at = 0
    BY IdleOK DEF ProcType, Step
  <2> HIDE DEF l
  <2>2. Sound(l)
    BY <1>0, <2>1 DEF Sound, Reading
  <2> QED BY <1>2, <2>1, <2>2, EnterStep DEF BeginManual, At, l
<1>3. CASE TaskBegin(w)
  <2>1. PICK p \in Plan : /\ exec[p].status = "submitted"
                          /\ Continue(w, [Idle EXCEPT !.pc = "fetch", !.plan = p])
    BY <1>3 DEF TaskBegin
  <2> DEFINE l == [Idle EXCEPT !.pc = "fetch", !.plan = p]
  <2>2. l \in ProcType /\ l.pc = "fetch" /\ l.plan = p /\ l.read.at = 0 /\ l.guarding = FALSE
    BY IdleOK, ProcFacts DEF ProcType, Step
  <2> HIDE DEF l
  <2>3. orders[p].status # "none"
    BY <2>1 DEF IInv, RecordsAreTrue
  <2>4. Sound(l) /\ TaskLocal(w, l)
    BY <1>0, <2>1, <2>2, <2>3 DEF Sound, TaskLocal, Reading
  <2>5. w \in Reconciler /\ UNCHANGED <<now, dryRun, dbVars, exchangeVars, sync>>
    BY <1>3 DEF TaskBegin
  <2>6. Goes(w, l)
    BY <2>1, <2>2 DEF Goes, l
  <2> QED BY <2>2, <2>4, <2>5, <2>6, LocalStep
<1>4. CASE FetchError(w)
  BY <1>4, FinishStep DEF FetchError, At
<1>5. CASE Abort(w)
  BY <1>5, FinishStep DEF Abort, At
<1> QED BY <1>1, <1>2, <1>3, <1>4, <1>5

\* Orders of the exchange only move forward.
OrdersGrow ==
    \A p \in Plan : /\ orders[p].status # "none" => orders'[p].status # "none"
                    /\ orders[p].status \in {"filled", "canceled"} => orders'[p] = orders[p]

\* The earlier orders of a client order id are orders.
LEMMA StraysType ==
    ASSUME TypeOK, NEW p \in Plan
    PROVE  /\ StrayEnds(p) => strays' \in [Plan -> Seq(OrderType)] /\ live' \in Int
           /\ \A o \in OrderType : Take(p, o) =>
                 orders' = [orders EXCEPT ![p] = o] /\ strays' \in [Plan -> Seq(OrderType)]
<1>1. /\ strays \in [Plan -> Seq(OrderType)] /\ strays[p] \in Seq(OrderType)
      /\ orders[p] \in OrderType /\ live \in Int
  BY DEF TypeOK
<1>2. ASSUME StrayEnds(p) PROVE strays' \in [Plan -> Seq(OrderType)] /\ live' \in Int
  <2>0. PICK i \in DOMAIN strays[p] : \E o \in EndsOf(strays[p][i]) :
            strays' = [strays EXCEPT ![p][i] = o] /\ live' = live + o.filled
    BY <1>2 DEF StrayEnds
  <2>1. PICK o \in EndsOf(strays[p][i]) :
            strays' = [strays EXCEPT ![p][i] = o] /\ live' = live + o.filled
    BY <2>0
  <2> DEFINE a == strays[p][i]
             f == FillOf(a, live)
  <2>2. a \in OrderType
    BY <1>1
  <2>3. f \in Int /\ Sign(f) \in Int
    BY <1>1, <2>2 DEF FillOf, OrderType, Sign
  <2> HIDE DEF f, a
  <2>4. \/ o = [a EXCEPT !.status = "filled", !.filled = f]
        \/ \E g \in {0, Sign(f)} : o = [a EXCEPT !.status = "canceled", !.filled = g]
    BY <2>1 DEF EndsOf, f, a
  <2>5. o \in OrderType
    <3>1. CASE o = [a EXCEPT !.status = "filled", !.filled = f]
      BY <2>2, <2>3, <3>1 DEF OrderType, OrderStatus
    <3>2. ASSUME NEW g \in {0, Sign(f)}, o = [a EXCEPT !.status = "canceled", !.filled = g]
          PROVE  o \in OrderType
      <4>1. g \in Int
        BY <2>3
      <4> QED BY <2>2, <3>2, <4>1 DEF OrderType, OrderStatus
    <3> QED BY <2>4, <3>1, <3>2
  <2>6. o.filled \in Int
    BY <2>5 DEF OrderType
  <2>7. [strays[p] EXCEPT ![i] = o] \in Seq(OrderType)
    BY <1>1, <2>1, <2>5
  <2> QED BY <1>1, <2>1, <2>6, <2>7
<1>3. ASSUME NEW o \in OrderType, Take(p, o)
      PROVE  orders' = [orders EXCEPT ![p] = o] /\ strays' \in [Plan -> Seq(OrderType)]
  <2>1. Append(strays[p], orders[p]) \in Seq(OrderType)
    BY <1>1
  <2>2. orders' = [orders EXCEPT ![p] = o]
    BY <1>3 DEF Take
  <2>3. strays' = strays \/ strays' = [strays EXCEPT ![p] = Append(strays[p], orders[p])]
    BY <1>3 DEF Take
  <2> QED BY <1>1, <2>1, <2>2, <2>3
<1> QED BY <1>2, <1>3

\* A step of the exchange or of a sync leaves every worker in a sound state.
LEMMA EnvironmentInv ==
    ASSUME IInv,
           \/ ExposureSync \/ SyncFetch \/ SyncWrite
           \/ \E p \in Plan : ExchangeFill(p) \/ ExchangeCancel(p) \/ StrayEnds(p)
           \/ ExchangePublish
    PROVE  IInv'
<1>0. IInv /\ TypeOK
  BY DEF IInv
<1>1. CASE ExposureSync
  BY <1>0, <1>1 DEF ExposureSync, IInv, TypeOK, ExposureType, LockInv, TaskControl, Stamped,
     RecordsAreTrue, Sound, Knows, exchangeVars
<1>2. CASE SyncFetch \/ SyncWrite \/ ExchangePublish
  <2>1. TypeOK' /\ Stamped'
    <3>1. CASE SyncFetch
      BY <1>0, <3>1 DEF SyncFetch, IInv, TypeOK, Stamped, dbVars, exchangeVars
    <3>2. CASE SyncWrite
      <4>1. stored' \in SnapshotType /\ stored'.at = now /\ now <= now
        BY <1>0, <3>2 DEF SyncWrite, TypeOK, SnapshotType
      <4>2. sync' \in [pc : {"idle", "fetched"}, qty : Int]
        BY <3>2 DEF SyncWrite
      <4> QED BY <1>0, <3>2, <4>1, <4>2 DEF SyncWrite, IInv, TypeOK, Stamped, exchangeVars
    <3>3. CASE ExchangePublish
      BY <1>0, <3>3 DEF ExchangePublish, IInv, TypeOK, Stamped, dbVars
    <3> QED BY <1>2, <3>1, <3>2, <3>3
  <2>2. LockInv' /\ TaskControl' /\ RecordsAreTrue' /\ \A x \in Proc : Sound(proc[x])'
    BY <1>0, <1>2 DEF SyncFetch, SyncWrite, ExchangePublish, IInv, LockInv, TaskControl,
       RecordsAreTrue, Sound, Knows, dbVars, exchangeVars
  <2> QED BY <2>1, <2>2 DEF IInv
<1>3. ASSUME NEW p \in Plan, NEW o \in OrderType, NEW v \in Int, orders[p].status = "submitted",
             o.status \in {"filled", "canceled"}, orders' = [orders EXCEPT ![p] = o], live' = v,
             UNCHANGED <<now, dryRun, holders, dbVars, strays, visible, proc, sync>>
      PROVE  IInv'
  <2>1. TypeOK'
    BY <1>0, <1>3 DEF TypeOK, dbVars
  <2>2. OrdersGrow
    BY <1>0, <1>3 DEF TypeOK, OrdersGrow
  <2>3. RecordsAreTrue'
    BY <1>0, <2>2, <1>3 DEF IInv, TypeOK, RecordsAreTrue, OrdersGrow, dbVars
  <2>4. \A x \in Proc : Sound(proc[x])'
    BY <1>0, <2>2, <1>3 DEF IInv, Sound, Knows, OrdersGrow, dbVars
  <2>5. LockInv' /\ TaskControl' /\ Stamped'
    BY <1>0, <1>3 DEF IInv, LockInv, TaskControl, Stamped, dbVars
  <2> QED BY <2>1, <2>3, <2>4, <2>5 DEF IInv
<1>4. ASSUME NEW p \in Plan, ExchangeFill(p) PROVE IInv'
  <2> DEFINE f == FillOf(orders[p], live)
             o == [orders[p] EXCEPT !.status = "filled", !.filled = f]
  <2>1. f \in Int
    BY <1>0 DEF FillOf, TypeOK, OrderType
  <2> HIDE DEF f
  <2>2. o \in OrderType /\ o.status = "filled" /\ live + f \in Int
    <3>1. orders[p] \in OrderType /\ live \in Int
      BY <1>0 DEF TypeOK
    <3>2. o \in OrderType /\ o.status = "filled"
      BY <2>1, <3>1 DEF OrderType, OrderStatus
    <3> QED BY <2>1, <3>1, <3>2
  <2>3. /\ orders[p].status = "submitted" /\ orders' = [orders EXCEPT ![p] = o] /\ live' = live + f
        /\ UNCHANGED <<now, dryRun, holders, dbVars, strays, visible, proc, sync>>
    BY <1>0, <1>4 DEF ExchangeFill, TypeOK, OrderType, f
  <2> QED BY <1>3, <2>2, <2>3
<1>5. ASSUME NEW p \in Plan, ExchangeCancel(p) PROVE IInv'
  <2>1. PICK f \in {0, Sign(FillOf(orders[p], live))} :
            /\ orders' = [orders EXCEPT ![p].status = "canceled", ![p].filled = f]
            /\ live' = live + f
    BY <1>5 DEF ExchangeCancel
  <2>2. f \in Int
    BY DEF Sign
  <2> DEFINE o == [orders[p] EXCEPT !.status = "canceled", !.filled = f]
  <2>3. o \in OrderType /\ o.status = "canceled" /\ live + f \in Int
    <3>1. orders[p] \in OrderType /\ live \in Int
      BY <1>0 DEF TypeOK
    <3>2. o \in OrderType /\ o.status = "canceled"
      BY <2>2, <3>1 DEF OrderType, OrderStatus
    <3> QED BY <2>2, <3>1, <3>2
  <2>4. /\ orders[p].status = "submitted" /\ orders' = [orders EXCEPT ![p] = o]
        /\ UNCHANGED <<now, dryRun, holders, dbVars, strays, visible, proc, sync>>
    BY <1>0, <1>5, <2>1 DEF ExchangeCancel, TypeOK, OrderType
  <2> QED BY <1>3, <2>1, <2>3, <2>4
<1>6. ASSUME NEW p \in Plan, StrayEnds(p) PROVE IInv'
  <2>1. UNCHANGED <<now, dryRun, holders, dbVars, orders, visible, proc, sync>>
    BY <1>6 DEF StrayEnds
  <2>2. strays' \in [Plan -> Seq(OrderType)] /\ live' \in Int
    BY <1>6, StraysType DEF IInv
  <2> QED BY <1>0, <2>1, <2>2 DEF IInv, TypeOK, LockInv, TaskControl, Stamped, RecordsAreTrue,
     Sound, Knows, dbVars
<1> QED BY <1>1, <1>2, <1>4, <1>5, <1>6

\* Only one worker is in a run.
LEMMA OneRun ==
    ASSUME IInv, NEW v \in Worker, NEW w \in Worker, proc[v].pc # "idle", proc[w].pc # "idle"
    PROVE  v = w
BY DEF IInv, LockInv

\* A worker that decides or records is no reconciliation task.
LEMMA DecidersRun ==
    ASSUME IInv, NEW x \in Proc, proc[x].pc \in Deciding \cup {"guard", "position_guard"}
    PROVE  x \in Worker
BY DEF IInv, TaskControl, Deciding, Reading, Proc

\* A step that writes the row of one execution.
LEMMA ExecStep ==
    ASSUME IInv, NEW w \in Proc, NEW l \in ProcType, proc[w].pc # "idle",
           TaskLocal(w, l), Goes(w, l), Sound(l), l.pc \in Reading \cup {"idle", "exposure"},
           NEW p \in Plan, NEW r \in ExecType, r.status # "none", r.at = now + 1,
           w \in Worker \/ exec[p].status # "none",
           r.status \in {"submitted", "filled"} => orders[p].status # "none",
           r.status = "filled" => orders[p].status = "filled" /\ r.filled = orders[p].filled,
           now' = now + 1, exec' = [exec EXCEPT ![p] = r], plans' \in [Plan -> PlanType],
           UNCHANGED <<dryRun, exposure, stored, exchangeVars, sync>>
    PROVE  IInv'
<1>0. TypeOK /\ exec \in [Plan -> ExecType]
  BY DEF IInv, TypeOK
<1>1. /\ LockInv' /\ TaskControl'
      /\ proc' \in [Proc -> ProcType] /\ holders' \subseteq Worker
      /\ proc'[w] = l
      /\ \A x \in Proc : x # w => proc'[x] = proc[x]
  BY Moves
<1>2. exec'[p] = r /\ (\A q \in Plan : q # p => exec'[q] = exec[q]) /\ exec' \in [Plan -> ExecType]
  BY <1>0
<1>3. TypeOK'
  BY <1>0, <1>1, <1>2 DEF TypeOK, exchangeVars
<1>4. Stamped'
  BY <1>0, <1>2 DEF IInv, TypeOK, Stamped, ExecType, SnapshotType
<1>5. RecordsAreTrue'
  BY <1>2 DEF IInv, RecordsAreTrue, exchangeVars
<1>6. Sound(l)'
  <2>1. l.read.at \in Nat /\ now \in Nat
    BY ProcFacts DEF ProcType, SnapshotType
  <2> QED BY <1>0, <1>2, <2>1 DEF Sound, Reading
<1>7. ASSUME NEW x \in Proc, x # w PROVE Sound(proc[x])'
  <2>1. Sound(proc[x]) /\ proc'[x] = proc[x] /\ proc[x] \in ProcType
    BY <1>1, <1>7, ProcFacts
  <2>2. proc[x].pc \in {"place", "record", "record_failed"} => proc[x].plan # p
    BY <1>7, <2>1, OneRun, DecidersRun DEF Sound, Deciding
  <2>3. proc[x].read.at <= now'
    <3>1. proc[x].read.at \in Nat /\ now \in Nat
      BY <2>1, ProcFacts DEF ProcType, SnapshotType
    <3> QED BY <2>1, <3>1 DEF Sound
  <2> QED BY <1>2, <2>1, <2>2, <2>3 DEF Sound, Knows, exchangeVars
<1> QED BY <1>1, <1>3, <1>4, <1>5, <1>6, <1>7 DEF IInv

\* The states a worker goes to after a write.
LEMMA AfterWrite ==
    ASSUME IInv, NEW w \in Proc
    PROVE  /\ [Idle EXCEPT !.pc = "exposure"] \in ProcType
           /\ [Idle EXCEPT !.pc = "exposure"].pc = "exposure"
           /\ Sound([Idle EXCEPT !.pc = "exposure"])
           /\ w \in Worker => TaskLocal(w, [Idle EXCEPT !.pc = "exposure"])
<1> DEFINE l == [Idle EXCEPT !.pc = "exposure"]
<1>1. l \in ProcType /\ l.pc = "exposure" /\ l.read = Idle.read
  BY IdleOK DEF ProcType, Step
<1> HIDE DEF l
<1>2. l.read.at <= now
  BY <1>1, IdleOK, ProcFacts
<1>3. Sound(l)
  BY <1>1, <1>2 DEF Sound, Reading
<1> QED BY <1>1, <1>3, Constants DEF l, TaskLocal

\* reconcileSubmittedOrder records what the lookup found.
LEMMA PersistReconciledInv == ASSUME IInv, NEW w \in Proc, PersistReconciled(w) PROVE IInv'
<1> DEFINE s == PersistedStatus(proc[w].status)
           p == proc[w].plan
           r == [status |-> s, at |-> now + 1, filled |-> proc[w].filled,
                 late |-> exec[p].late \/ exec[p].status # "submitted"]
<1>1. /\ proc[w].pc = "persist" /\ now' = now + 1
      /\ UNCHANGED <<dryRun, exposure, stored, plans, exchangeVars, sync>>
  BY DEF PersistReconciled, At
<1>2. /\ p \in Plan /\ Knows(proc[w]) /\ exec[p].status # "none" /\ proc[w] \in ProcType
      /\ exec \in [Plan -> ExecType] /\ now \in Nat /\ plans \in [Plan -> PlanType]
  BY <1>1, ProcFacts DEF Sound, IInv, TypeOK
<1>3. /\ s \in {"submitted", "filled", "failed"}
      /\ s = "filled" => proc[w].status = "filled"
  BY <1>2 DEF PersistedStatus, Knows, ProcType, OrderStatus
<1>4. exec' = [exec EXCEPT ![p] = r]
  BY <1>1, <1>2 DEF PersistReconciled, UpdateOrderExecutionStatus
<1> HIDE DEF s, p
<1>5. r \in ExecType /\ r.status = s /\ r.at = now + 1 /\ r.filled = proc[w].filled
  BY <1>2, <1>3 DEF ExecType, ExecStatus, ProcType
<1> HIDE DEF r
<1>6. /\ r.status \in {"submitted", "filled"} => orders[p].status # "none"
      /\ r.status = "filled" => orders[p].status = "filled" /\ r.filled = orders[p].filled
  BY <1>2, <1>3, <1>5 DEF Knows, p
<1>7. ASSUME NEW l \in ProcType, TaskLocal(w, l), Goes(w, l), Sound(l),
             l.pc \in Reading \cup {"idle", "exposure"}
      PROVE  IInv'
  BY <1>1, <1>2, <1>3, <1>4, <1>5, <1>6, <1>7, ExecStep
<1>8. CASE Continue(w, [proc[w] EXCEPT !.pc = "previous", !.since = now'])
  <2> DEFINE n == now'
             l == [proc[w] EXCEPT !.pc = "previous", !.since = n]
  <2>0. n \in Nat
    BY <1>1, <1>2
  <2> HIDE DEF n
  <2>1. /\ l \in ProcType /\ l.pc = "previous" /\ l.plan = p /\ l.read = proc[w].read
        /\ l.guarding = proc[w].guarding
    BY <1>1, <1>2, <2>0 DEF ProcType, Step, p
  <2> HIDE DEF l
  <2>2. TaskLocal(w, l) /\ Sound(l)
    BY <1>1, <1>2, <2>1, ProcFacts DEF TaskLocal, Sound, Reading
  <2>3. Goes(w, l)
    BY <1>8, <2>1 DEF Goes, l, n
  <2> QED BY <1>7, <2>1, <2>2, <2>3 DEF Reading
<1>9. CASE Finish(w)
  BY <1>7, <1>9, IdleSound, IdleOK DEF Goes
<1>10. CASE proc[w].guarding /\ Continue(w, [Idle EXCEPT !.pc = "exposure"])
  <2>1. w \in Worker
    BY <1>10, ProcFacts DEF TaskLocal, Proc
  <2> QED BY <1>7, <1>10, <2>1, AfterWrite DEF Goes
<1> QED BY <1>8, <1>9, <1>10 DEF PersistReconciled

\* upsertPosition, if the snapshot shows the fill.
LEMMA RefreshWriteInv == ASSUME IInv, NEW w \in Proc, RefreshWrite(w) PROVE IInv'
<1>1. /\ proc[w].pc = "write" /\ AfterRefresh(w) /\ stored' \in {proc[w].read, stored}
      /\ UNCHANGED <<now, dryRun, exposure, plans, exec, exchangeVars, sync>>
  BY DEF RefreshWrite, At
<1>2. PICK l \in ProcType : TaskLocal(w, l) /\ Goes(w, l) /\ Sound(l)
  BY <1>1, AfterRefreshGoes DEF Reading
<1>3. /\ LockInv' /\ TaskControl'
      /\ proc' \in [Proc -> ProcType] /\ holders' \subseteq Worker
      /\ proc'[w] = l
      /\ \A x \in Proc : x # w => proc'[x] = proc[x]
  BY <1>1, <1>2, Moves
<1>4. stored' \in SnapshotType /\ stored'.at <= now
  BY <1>1, ProcFacts DEF IInv, Stamped, Sound, ProcType
<1>5. TypeOK' /\ Stamped' /\ RecordsAreTrue'
  BY <1>1, <1>3, <1>4 DEF IInv, TypeOK, Stamped, RecordsAreTrue, exchangeVars
<1>6. \A x \in Proc : Sound(proc[x])'
  BY <1>1, <1>2, <1>3 DEF IInv, Sound, Knows, exchangeVars
<1> QED BY <1>3, <1>5, <1>6 DEF IInv

\* A step that writes a plan and nothing else but the worker's own state.
LEMMA PlanStep ==
    ASSUME IInv, NEW w \in Proc, NEW l \in ProcType, proc[w].pc # "idle",
           TaskLocal(w, l), Goes(w, l), Sound(l), plans' \in [Plan -> PlanType],
           UNCHANGED <<now, dryRun, exposure, stored, exec, exchangeVars, sync>>
    PROVE  IInv'
<1>1. /\ LockInv' /\ TaskControl'
      /\ proc' \in [Proc -> ProcType] /\ holders' \subseteq Worker
      /\ proc'[w] = l
      /\ \A x \in Proc : x # w => proc'[x] = proc[x]
  BY Moves
<1>2. TypeOK' /\ Stamped' /\ RecordsAreTrue'
  BY <1>1 DEF IInv, TypeOK, Stamped, RecordsAreTrue, exchangeVars
<1>3. \A x \in Proc : Sound(proc[x])'
  BY <1>1 DEF IInv, Sound, Knows, exchangeVars
<1> QED BY <1>1, <1>2, <1>3 DEF IInv

\* A row as CreateOrderExecution inserts it.
Row(s, f, at) == [status |-> s, at |-> at, filled |-> f, late |-> FALSE]

\* Such a row is one of an execution.
LEMMA RowType ==
    ASSUME IInv, NEW s \in ExecStatus, NEW f \in Int
    PROVE  /\ Row(s, f, now + 1) \in ExecType
           /\ Row(s, f, now + 1).status = s /\ Row(s, f, now + 1).at = now + 1
           /\ Row(s, f, now + 1).filled = f /\ Row(s, f, now + 1).late = FALSE
<1>1. now + 1 \in Nat
  BY DEF IInv, TypeOK
<1> QED BY <1>1 DEF Row, ExecType

\* createPlanAndExecute up to the order.
LEMMA CreatePlanInv == ASSUME IInv, NEW w \in Proc, CreatePlan(w) PROVE IInv'
<1> DEFINE id == ClientOrderID(proc[w].expo, proc[w].prev)
<1>1. proc[w].pc = "plan" /\ UNCHANGED <<dryRun, exposure, stored, exchangeVars, sync>>
  BY DEF CreatePlan, At
<1>2. /\ proc[w] \in ProcType /\ Sound(proc[w]) /\ w \in Worker /\ w \notin Reconciler
      /\ proc[w].expo \in ExposureType /\ proc[w].prev \in SnapshotType
      /\ plans \in [Plan -> PlanType] /\ exec \in [Plan -> ExecType] /\ now \in Nat
  BY <1>1, ProcFacts, DecidersRun, Constants DEF Deciding, ProcType, IInv, TypeOK
<1>3. id \in PlanType
  <2> DEFINE d == DecisionOn(proc[w].expo, proc[w].prev)
             g == Goal(Cfg, proc[w].expo.notional, proc[w].prev.qty)
  <2>1. d.action \in OrderActions
    BY <1>1, <1>2 DEF Sound
  <2>2. d.adjustment \in Int /\ g \in Int
    BY <1>2, <2>1, DecisionShape
  <2>3. proc[w].expo.at \in Nat /\ proc[w].prev.qty \in Int
    BY <1>2 DEF ExposureType, SnapshotType
  <2> HIDE DEF d, g
  <2>4. id = [exposureAt |-> proc[w].expo.at, action |-> d.action, target |-> g,
              current |-> proc[w].prev.qty, adjustment |-> d.adjustment]
    BY DEF ClientOrderID, d, g
  <2> QED BY <2>1, <2>2, <2>3, <2>4 DEF PlanType, OrderActions
<1> HIDE DEF id
<1>4. CASE Finish(w) /\ UNCHANGED <<now, plans, exec>>
  BY <1>1, <1>4, FinishStep DEF dbVars
<1>5. ASSUME NEW p \in PlanFor(id), plans' = [plans EXCEPT ![p] = id],
             exec[p].status = "none", ~dryRun,
             Continue(w, [proc[w] EXCEPT !.pc = "place", !.plan = p]), UNCHANGED <<now, exec>>
      PROVE  IInv'
  <2> DEFINE l == [proc[w] EXCEPT !.pc = "place", !.plan = p]
  <2>1. p \in Plan /\ plans' \in [Plan -> PlanType]
    BY <1>2, <1>3, <1>5 DEF PlanFor
  <2>2. /\ l \in ProcType /\ l.pc = "place" /\ l.plan = p /\ l.read = proc[w].read
        /\ l.expo = proc[w].expo /\ l.prev = proc[w].prev
    BY <1>2, <2>1, ProcFacts DEF ProcType, Step
  <2> HIDE DEF l
  <2>3. Sound(l) /\ TaskLocal(w, l)
    BY <1>1, <1>2, <1>5, <2>1, <2>2 DEF Sound, TaskLocal, Reading
  <2>4. Goes(w, l)
    BY <1>5, <2>2 DEF Goes, l
  <2> QED BY <1>1, <1>5, <2>1, <2>2, <2>3, <2>4, PlanStep
<1>6. ASSUME NEW p \in PlanFor(id), plans' = [plans EXCEPT ![p] = id],
             exec[p].status = "none", now' = now + 1,
             exec' = CreateOrderExecution(p, "dry_run", 0, now'), Finish(w)
      PROVE  IInv'
  <2> DEFINE r == Row("dry_run", 0, now + 1)
  <2>1. p \in Plan /\ plans' \in [Plan -> PlanType]
    BY <1>2, <1>3, <1>6 DEF PlanFor
  <2>2. /\ exec' = [exec EXCEPT ![p] = r]
        /\ r \in ExecType /\ r.status = "dry_run" /\ r.at = now + 1
    <3>1. exec' = CreateOrderExecution(p, "dry_run", 0, now + 1)
      BY <1>6
    <3>2. "dry_run" \in ExecStatus /\ 0 \in Int
      BY DEF ExecStatus
    <3> HIDE DEF r
    <3>3. CreateOrderExecution(p, "dry_run", 0, now + 1) = [exec EXCEPT ![p] = r]
      BY <1>6 DEF CreateOrderExecution, Row, r
    <3>4. r \in ExecType /\ r.status = "dry_run" /\ r.at = now + 1
      BY <1>6, <2>1, <3>2, RowType DEF r
    <3> QED BY <3>1, <3>3, <3>4
  <2> HIDE DEF r
  <2>4. Goes(w, Idle) /\ Idle.pc \in Reading \cup {"idle", "exposure"}
    BY <1>6, IdleOK DEF Goes
  <2> QED BY <1>1, <1>2, <1>6, <2>1, <2>2, <2>4, IdleOK, IdleSound, ExecStep
<1>7. ASSUME NEW p \in PlanFor(id), plans' = [plans EXCEPT ![p] = id], exec[p].status = "filled",
             Continue(w, [proc[w] EXCEPT !.pc = "refresh", !.plan = p, !.filled = exec[p].filled]),
             UNCHANGED <<now, exec>>
      PROVE  IInv'
  <2> DEFINE f == exec[p].filled
             l == [proc[w] EXCEPT !.pc = "refresh", !.plan = p, !.filled = f]
  <2>1. p \in Plan /\ plans' \in [Plan -> PlanType] /\ f \in Int
    BY <1>2, <1>3, <1>7 DEF PlanFor, ExecType
  <2> HIDE DEF f
  <2>2. /\ l \in ProcType /\ l.pc = "refresh" /\ l.plan = p /\ l.read = proc[w].read
    BY <1>2, <2>1, ProcFacts DEF ProcType, Step
  <2> HIDE DEF l
  <2>3. Sound(l) /\ TaskLocal(w, l)
    BY <1>1, <1>2, <2>1, <2>2 DEF Sound, TaskLocal, Reading
  <2>4. Goes(w, l)
    BY <1>7, <2>2 DEF Goes, l, f
  <2> QED BY <1>1, <1>7, <2>1, <2>2, <2>3, <2>4, PlanStep
<1>8. ASSUME NEW p \in PlanFor(id), plans' = [plans EXCEPT ![p] = id], Finish(w),
             UNCHANGED <<now, exec>>
      PROVE  IInv'
  <2>1. plans' \in [Plan -> PlanType]
    BY <1>2, <1>3, <1>8 DEF PlanFor
  <2>2. Goes(w, Idle)
    BY <1>8 DEF Goes
  <2> QED BY <1>1, <1>8, <2>1, <2>2, IdleOK, IdleSound, PlanStep
<1> QED BY <1>4, <1>5, <1>6, <1>7, <1>8 DEF CreatePlan, id

\* The exchange takes an order of a run.
LEMMA OrderStep ==
    ASSUME IInv, NEW w \in Proc, NEW l \in ProcType, proc[w].pc = "place",
           Goes(w, l), l.pc \in {"record", "record_failed"}, l.plan = proc[w].plan,
           l.expo = proc[w].expo, l.prev = proc[w].prev, l.read = proc[w].read,
           NEW o \in OrderType, Take(proc[w].plan, o), o.status # "none",
           l.pc = "record" => l.status = o.status /\ (o.status = "filled" => l.filled = o.filled),
           live' \in Int,
           UNCHANGED <<now, dryRun, dbVars, visible, sync>>
    PROVE  IInv'
<1>0. /\ w \in Worker /\ TaskLocal(w, l) /\ Sound(proc[w]) /\ proc[w].plan \in Plan
      /\ exec[proc[w].plan].status = "none" /\ orders \in [Plan -> OrderType]
  BY ProcFacts, DecidersRun, Constants DEF Deciding, TaskLocal, Sound
<1>1. /\ LockInv' /\ TaskControl'
      /\ proc' \in [Proc -> ProcType] /\ holders' \subseteq Worker
      /\ proc'[w] = l
      /\ \A x \in Proc : x # w => proc'[x] = proc[x]
  BY <1>0, Moves
<1>2. /\ orders' \in [Plan -> OrderType] /\ strays' \in [Plan -> Seq(OrderType)]
      /\ orders'[proc[w].plan] = o
      /\ \A q \in Plan : q # proc[w].plan => orders'[q] = orders[q]
  <2>1. TypeOK
    BY DEF IInv
  <2>2. orders' = [orders EXCEPT ![proc[w].plan] = o] /\ strays' \in [Plan -> Seq(OrderType)]
    BY <1>0, <2>1, StraysType
  <2> QED BY <1>0, <2>2
<1>3. TypeOK' /\ Stamped'
  BY <1>1, <1>2 DEF IInv, TypeOK, Stamped, dbVars
<1>4. RecordsAreTrue'
  BY <1>0, <1>2 DEF IInv, RecordsAreTrue, dbVars
<1>5. Sound(l)'
  BY <1>0, <1>2 DEF Sound, Knows, Reading, dbVars
<1>6. ASSUME NEW x \in Proc, x # w PROVE Sound(proc[x])'
  <2>1. Sound(proc[x]) /\ proc'[x] = proc[x]
    BY <1>1, <1>6 DEF IInv
  <2>2. proc[x].pc # "record"
    BY <1>0, <1>6, OneRun, DecidersRun DEF Deciding
  <2>3. proc[x].pc \in {"fetch", "persist"} => proc[x].plan \in Plan /\ proc[x].plan # proc[w].plan
    BY <1>0, <2>1 DEF Sound
  <2> QED BY <1>2, <2>1, <2>2, <2>3 DEF Sound, Knows, dbVars
<1> QED BY <1>1, <1>3, <1>4, <1>5, <1>6 DEF IInv

\* The order of a worker at "place" is one, of the quantity it decided on.
LEMMA OrderOfType ==
    ASSUME IInv, NEW w \in Proc, proc[w].pc = "place"
    PROVE  /\ OrderOf(w) \in OrderType /\ OrderOf(w).status = "submitted"
           /\ OrderOf(w).qty = proc[w].ordered /\ OrderOf(w).filled = 0
           /\ OrderOf(w).reduceOnly = DecisionOn(proc[w].expo, proc[w].prev).reduceOnly
           /\ FillOf(OrderOf(w), live) \in Int
           /\ \A f \in Int : [OrderOf(w) EXCEPT !.status = "filled", !.filled = f] \in OrderType
           /\ [OrderOf(w) EXCEPT !.status = "canceled"] \in OrderType
<1> DEFINE ro == DecisionOn(proc[w].expo, proc[w].prev).reduceOnly
<1>1. proc[w] \in ProcType /\ Sound(proc[w]) /\ live \in Int
  BY ProcFacts
<1>2. ro \in BOOLEAN
  BY <1>1, DecisionShape DEF Sound, ProcType
<1>3. proc[w].ordered \in Int
  BY <1>1 DEF ProcType
<1> HIDE DEF ro
<1>4. OrderOf(w) = [status |-> "submitted", qty |-> proc[w].ordered, filled |-> 0, reduceOnly |-> ro]
  BY DEF OrderOf, ro
<1>5. /\ OrderOf(w) \in OrderType /\ OrderOf(w).status = "submitted"
      /\ OrderOf(w).qty = proc[w].ordered /\ OrderOf(w).filled = 0
      /\ OrderOf(w).reduceOnly = ro
  BY <1>2, <1>3, <1>4 DEF OrderType, OrderStatus
<1>6. FillOf(OrderOf(w), live) \in Int
  BY <1>1, <1>3, <1>5 DEF FillOf
<1>7. \A f \in Int : [OrderOf(w) EXCEPT !.status = "filled", !.filled = f] \in OrderType
  BY <1>5 DEF OrderType, OrderStatus
<1>8. [OrderOf(w) EXCEPT !.status = "canceled"] \in OrderType
  BY <1>5 DEF OrderType, OrderStatus
<1> QED BY <1>5, <1>6, <1>7, <1>8 DEF ro

\* PlaceOrder.
LEMMA PlaceOrderInv == ASSUME IInv, NEW w \in Proc, PlaceOrder(w) PROVE IInv'
<1> DEFINE p == proc[w].plan
           o == OrderOf(w)
           f == FillOf(o, live)
           full == [o EXCEPT !.status = "filled", !.filled = f]
           none == [o EXCEPT !.status = "canceled"]
           failed == [proc[w] EXCEPT !.pc = "record_failed"]
<1>1. proc[w].pc = "place" /\ UNCHANGED <<now, dryRun, dbVars, visible, sync>>
  BY DEF PlaceOrder, At
<1>2. /\ o \in OrderType /\ o.status = "submitted" /\ f \in Int /\ full \in OrderType
      /\ none \in OrderType /\ proc[w] \in ProcType /\ Sound(proc[w]) /\ live \in Int
  BY <1>1, OrderOfType, ProcFacts
<1>3. full.status = "filled" /\ full.filled = f /\ none.status = "canceled"
  BY <1>2 DEF OrderType
<1> HIDE DEF o, f
<1>4. /\ failed \in ProcType /\ failed.pc = "record_failed" /\ failed.plan = p
      /\ failed.expo = proc[w].expo /\ failed.prev = proc[w].prev /\ failed.read = proc[w].read
  BY <1>2 DEF ProcType, Step
<1>5. CASE /\ Take(p, o) /\ live' = live
           /\ \/ Continue(w, [proc[w] EXCEPT !.pc = "record", !.status = "submitted"])
              \/ Continue(w, failed)
  <2> DEFINE l == [proc[w] EXCEPT !.pc = "record", !.status = "submitted"]
  <2>1. /\ l \in ProcType /\ l.pc = "record" /\ l.plan = p /\ l.status = "submitted"
        /\ l.expo = proc[w].expo /\ l.prev = proc[w].prev /\ l.read = proc[w].read
    BY <1>2 DEF ProcType, Step, OrderStatus
  <2> HIDE DEF l, failed
  <2>2. CASE Continue(w, l)
    BY <1>1, <1>2, <1>5, <2>1, <2>2, OrderStep DEF Goes
  <2>3. CASE Continue(w, failed)
    BY <1>1, <1>2, <1>4, <1>5, <2>3, OrderStep DEF Goes
  <2> QED BY <1>5, <2>2, <2>3 DEF l
<1>6. CASE /\ Take(p, full) /\ live' = live + f
           /\ Continue(w, [proc[w] EXCEPT !.pc = "record", !.status = "filled", !.filled = f])
  <2> DEFINE l == [proc[w] EXCEPT !.pc = "record", !.status = "filled", !.filled = f]
  <2>1. /\ l \in ProcType /\ l.pc = "record" /\ l.plan = p /\ l.status = "filled" /\ l.filled = f
        /\ l.expo = proc[w].expo /\ l.prev = proc[w].prev /\ l.read = proc[w].read
    BY <1>2 DEF ProcType, Step, OrderStatus
  <2>2. Goes(w, l) /\ live' \in Int
    BY <1>2, <1>6, <2>1 DEF Goes
  <2> HIDE DEF l, full
  <2> QED BY <1>1, <1>2, <1>3, <1>6, <2>1, <2>2, OrderStep
<1>7. CASE /\ Take(p, none) /\ live' = live
           /\ Continue(w, [proc[w] EXCEPT !.pc = "record", !.status = "canceled"])
  <2> DEFINE l == [proc[w] EXCEPT !.pc = "record", !.status = "canceled"]
  <2>1. /\ l \in ProcType /\ l.pc = "record" /\ l.plan = p /\ l.status = "canceled"
        /\ l.expo = proc[w].expo /\ l.prev = proc[w].prev /\ l.read = proc[w].read
    BY <1>2 DEF ProcType, Step, OrderStatus
  <2>2. Goes(w, l) /\ live' \in Int
    BY <1>2, <1>7, <2>1 DEF Goes
  <2> HIDE DEF l, none
  <2> QED BY <1>1, <1>2, <1>3, <1>7, <2>1, <2>2, OrderStep
<1>8. CASE Continue(w, failed) /\ UNCHANGED <<orders, strays, live>>
  <2> HIDE DEF failed
  <2>1. Sound(failed) /\ TaskLocal(w, failed) /\ Goes(w, failed)
    BY <1>1, <1>2, <1>4, <1>8, DecidersRun, Constants DEF Sound, TaskLocal, Goes, Deciding, Reading
  <2> QED BY <1>1, <1>4, <1>8, <2>1, LocalStep DEF exchangeVars
<1> QED BY <1>5, <1>6, <1>7, <1>8 DEF PlaceOrder, o, f

\* createPlanAndExecute records the exchange's answer, or that there was none.
LEMMA RecordInv ==
    ASSUME IInv, NEW w \in Proc, RecordExecution(w) \/ RecordFailed(w)
    PROVE  IInv'
<1> DEFINE p == proc[w].plan
           s == IF proc[w].pc = "record" THEN proc[w].status ELSE "failed"
           f == IF proc[w].pc = "record" THEN proc[w].filled ELSE 0
           r == Row(s, f, now + 1)
<1>0. SUFFICES ASSUME ~(proc[w].pc = "record" /\ proc[w].status = "canceled") PROVE IInv'
  <2>1. CASE proc[w].pc = "record" /\ proc[w].status = "canceled"
    BY <2>1, FinishStep DEF RecordExecution, RecordFailed, At, dbVars
  <2> QED BY <2>1
<1>1. /\ proc[w].pc \in {"record", "record_failed"} /\ now' = now + 1
      /\ UNCHANGED <<dryRun, exposure, stored, plans, exchangeVars, sync>>
  BY <1>0 DEF RecordExecution, RecordFailed, At
<1>2. /\ p \in Plan /\ exec[p].status = "none" /\ proc[w] \in ProcType /\ Sound(proc[w])
      /\ proc[w].pc = "record" => Knows(proc[w])
      /\ w \in Worker /\ w \notin Reconciler
      /\ exec \in [Plan -> ExecType] /\ now \in Nat /\ plans \in [Plan -> PlanType]
  BY <1>1, ProcFacts, DecidersRun, Constants DEF Sound, Deciding, IInv, TypeOK
<1>3. exec' = CreateOrderExecution(p, s, f, now + 1)
  BY <1>0, <1>1 DEF RecordExecution, RecordFailed, At
<1>4. s \in ExecStatus /\ f \in Int /\ s # "none"
  BY <1>0, <1>2 DEF ProcType, OrderStatus, ExecStatus, Knows
<1>5. /\ s \in {"submitted", "filled"} => orders[p].status # "none"
      /\ s = "filled" => orders[p].status = "filled" /\ f = orders[p].filled
  BY <1>1, <1>2 DEF Knows
<1> HIDE DEF p, s, f, r
<1>6. exec' = [exec EXCEPT ![p] = r]
  BY <1>2, <1>3 DEF CreateOrderExecution, Row, r
<1>7. r \in ExecType /\ r.status = s /\ r.at = now + 1 /\ r.filled = f
  BY <1>4, RowType DEF r
<1>8. ASSUME NEW l \in ProcType, TaskLocal(w, l), Goes(w, l), Sound(l),
             l.pc \in Reading \cup {"idle", "exposure"}
      PROVE  IInv'
  BY <1>1, <1>2, <1>4, <1>5, <1>6, <1>7, <1>8, ExecStep
<1>9. CASE Finish(w)
  BY <1>8, <1>9, IdleSound, IdleOK DEF Goes
<1>10. CASE Continue(w, [proc[w] EXCEPT !.pc = "refresh"])
  <2> DEFINE l == [proc[w] EXCEPT !.pc = "refresh"]
  <2>1. l \in ProcType /\ l.pc = "refresh" /\ l.plan = p /\ l.read = proc[w].read
    BY <1>2 DEF ProcType, Step, p
  <2>2. TaskLocal(w, l) /\ Goes(w, l)
    BY <1>2, <1>10, <2>1 DEF TaskLocal, Goes
  <2> HIDE DEF l
  <2>3. Sound(l)
    BY <1>2, <2>1 DEF Sound, Reading
  <2> QED BY <1>8, <2>1, <2>2, <2>3 DEF Reading
<1> QED BY <1>0, <1>9, <1>10 DEF RecordExecution, RecordFailed

\* The initial state.
LEMMA InitInv == Init => IInv
<1> SUFFICES ASSUME Init PROVE IInv
  OBVIOUS
<1> USE Constants DEF Init
<1>1. proc \in [Proc -> ProcType] /\ holders = {} /\ \A x \in Proc : proc[x] = Idle
  BY IdleOK DEF Lock!Init
<1>2. exposure \in ExposureType /\ stored \in SnapshotType /\ stored.at = 0
  BY DEF ExposureType, NoSnapshot, SnapshotType
<1>3. /\ plans \in [Plan -> PlanType] /\ exec \in [Plan -> ExecType] /\ orders \in [Plan -> OrderType]
      /\ \A p \in Plan : exec[p] = NoExec /\ exec[p].status = "none" /\ exec[p].at = 0
  BY DEF NoPlan, PlanType, NoExec, ExecType, ExecStatus, NoOrderYet, OrderType, OrderStatus
<1>4. TypeOK
  <2>1. strays \in [Plan -> Seq(OrderType)]
    OBVIOUS
  <2> QED BY <1>1, <1>2, <1>3, <2>1, RunAssumption DEF TypeOK
<1>5. LockInv /\ TaskControl
  BY <1>1, IdleOK DEF LockInv, TaskControl, Proc
<1>6. Stamped /\ RecordsAreTrue
  BY <1>2, <1>3 DEF Stamped, RecordsAreTrue
<1>7. \A x \in Proc : Sound(proc[x])
  BY <1>1, IdleOK DEF Sound, Reading
<1> QED BY <1>4, <1>5, <1>6, <1>7 DEF IInv

\* Every step of every actor keeps the invariant.
LEMMA NextInv == IInv /\ [Next]_vars => IInv'
<1> SUFFICES ASSUME IInv, [Next]_vars PROVE IInv'
  OBVIOUS
<1>1. ASSUME NEW w \in Proc, ProcStep(w) PROVE IInv'
  BY <1>1, GuardInv, FetchSubmittedInv, BeginInv, PersistReconciledInv, LoadPreviousInv,
     RefreshFetchInv, RefreshWriteInv, RefreshErrorInv, GuardPositionInv, ReadExposureInv,
     ReadPositionInv, CreatePlanInv, PlaceOrderInv, RecordInv DEF ProcStep
<1>2. CASE UNCHANGED vars
  BY <1>2 DEF vars, dbVars, exchangeVars, IInv, TypeOK, LockInv, TaskControl, Stamped,
     RecordsAreTrue, Sound, Knows
<1> QED BY <1>1, <1>2, BeginInv, EnvironmentInv DEF Next

\* Whoever runs, crashes or loses an answer: the states stay well formed, ...
THEOREM RunTypeCorrect == Spec => []TypeOK
<1>1. IInv => TypeOK
  BY DEF IInv
<1> QED BY <1>1, InitInv, NextInv, PTL DEF Spec

\* ... and the database never shows an order the exchange does not have, nor a
\* fill other than the one it made.  This holds in every environment of the
\* model, with runs that skip the guard and with any number of reconcilers.
THEOREM RecordsTrue == Spec => []RecordsAreTrue
<1>1. IInv => RecordsAreTrue
  BY DEF IInv
<1> QED BY <1>1, InitInv, NextInv, PTL DEF Spec
------------------------------------------------------------------------------
(* Why runs of one configuration place no second order while one is pending,  *)
(* and keep the hedge within MaxNotionalUSDT.  The guard asks only for the    *)
(* latest execution, so PendInv says that it is enough to look there; CoreInv *)
(* relates the position the account has to the snapshot decisions are taken   *)
(* on.                                                                        *)


\* Execution p was written after every other one.
Newest(p) == \A q \in Plan \ {p} : exec[q].status # "none" => exec[q].at < exec[p].at

\* Where a run is once the guard let it pass.
PastGuard == Deciding \cup Reading \cup {"position_guard"}

\* Without runs that skip the guard, a submitted execution is the latest one, and
\* a worker that has left the guard behind saw none.
PendInv ==
    NothingLate =>
      /\ \A p \in Plan : exec[p].status = "submitted" => Newest(p)
      /\ \A w \in Worker : proc[w].pc \in PastGuard
                            => \A p \in Plan : exec[p].status # "submitted"

\* What cannot be mended: a finished execution was rewritten, an order ended
\* partly filled, or an order filled that the database does not know of.
Damaged ==
    \/ ~NothingLate
    \/ \E p \in Plan : orders[p].status = "canceled" /\ orders[p].filled # 0
    \/ \E p \in Plan : strays[p] # <<>>
    \/ \E p \in Plan : /\ orders[p].status = "filled"
                       /\ exec[p].status \notin {"submitted", "filled"}
                       /\ ~BeingRecorded(p)

\* The configuration waits for order p: for its end, its record, or a snapshot
\* that shows its fill.
Open(p) ==
    \/ exec[p].status = "submitted"
    \/ BeingRecorded(p)
    \/ exec[p].status = "filled" /\ stored.at < exec[p].at

\* It waits for one order at a time, the latest one.
OneOpen ==
    /\ \A p, q \in Plan : Open(p) /\ Open(q) => p = q
    /\ \A p \in Plan : Open(p) => BeingRecorded(p) \/ Newest(p)

\* The snapshot shows the position but for the fill of the open order, which
\* the position endpoint may not show yet.
PositionKnown ==
    \/ /\ \A p \in Plan : Open(p) => orders[p].status # "filled"
       /\ live = stored.qty /\ visible = live
    \/ \E p \in Plan : /\ Open(p) /\ orders[p].status = "filled"
                       /\ live = stored.qty + orders[p].filled
                       /\ visible \in {stored.qty, live}

\* The open order fits the snapshot: it fills completely, and to a hedge within
\* the cap.
OrdersFit ==
    /\ Abs(stored.qty) <= Cfg.max
    /\ \A p \in Plan : orders[p].status = "filled"
                          => orders[p].filled = orders[p].qty /\ orders[p].qty # 0
    /\ \A p \in Plan : Open(p) /\ orders[p].status \in {"submitted", "filled"}
                          => /\ orders[p].qty # 0
                             /\ FillOf(orders[p], stored.qty) = orders[p].qty
                             /\ Abs(stored.qty + orders[p].qty) <= Cfg.max

\* What a worker past the guard relies on.
RunSees(l) ==
    /\ l.pc \in Deciding \ {"record"} => \A p \in Plan : ~Open(p)
    /\ l.pc = "position_guard"
          => \A p \in Plan : /\ exec[p].status # "submitted"
                             /\ exec[p].status = "filled" => exec[p].at <= l.since
    /\ l.pc \in {"position", "plan", "place", "record"} => ~l.guarding
    /\ l.pc \in {"plan", "place", "record"} => l.prev = stored
    /\ l.pc \in {"plan", "place", "record"} => l.ordered = OrderQuantity(DecisionOn(l.expo, l.prev))

\* What a refresh relies on: it is about the open order, or (a run that met the
\* plan of an order it had seen filled before) nothing is open.
RefreshSees(x, l) ==
    l.pc \in Reading =>
      /\ exec[l.plan].status = "filled" /\ l.filled = orders[l.plan].filled
      /\ \A p \in Plan : exec[p].status # "submitted"
      /\ \A p \in Plan : Open(p) => p = l.plan
      /\ ~Open(l.plan) => x \in Worker /\ ~l.guarding /\ l.pc # "previous"
      /\ l.guarding => l.since = exec[l.plan].at
      /\ l.pc # "previous" => l.prev.qty = stored.qty
      /\ l.pc = "write" => l.read.at >= exec[l.plan].at /\ l.read.qty \in {stored.qty, visible}

Core ==
    /\ OneOpen
    /\ PositionKnown
    /\ OrdersFit
    /\ \A w \in Worker : RunSees(proc[w])
    /\ \A x \in Proc : RefreshSees(x, proc[x])
    /\ \A x, y \in Proc : proc[x].pc \in Reading /\ proc[y].pc \in Reading => x = y

CoreInv ==
    /\ sync.pc = "idle"
    /\ ~Damaged => Core
------------------------------------------------------------------------------
(* What the steps do to the local states *)

\* No other worker moves.
Alone(w) == \A x \in Proc : x # w => proc'[x] = proc[x]

\* Worker w ends.
Ends(w) == Alone(w) /\ proc'[w] = Idle /\ proc'[w].pc = "idle"

\* Goto changes one local state.
LEMMA GotoMoves ==
    ASSUME IInv, NEW w \in Proc, NEW l, Goto(w, l)
    PROVE  Alone(w) /\ proc'[w] = l
BY DEF IInv, TypeOK, Goto, Alone

\* Finish leaves the worker idle.
LEMMA FinishMoves == ASSUME IInv, NEW w \in Proc, Finish(w) PROVE Ends(w)
BY GotoMoves, IdleOK DEF Finish, Ends

\* The steps that look at the database or the exchange.
LEMMA GuardMoves ==
    ASSUME IInv, NEW w \in Proc, Guard(w)
    PROVE  LET s == IF Latest = 0 THEN "none" ELSE exec[Latest].status
           IN  /\ proc[w].pc = "guard" /\ Alone(w)
               /\ \/ proc'[w].pc \in {"idle", "fetch"}
                  \/ s \in {"none", "failed", "dry_run"} /\ proc'[w].pc = "exposure"
                  \/ /\ s = "filled" /\ proc'[w].pc = "position_guard"
                     /\ proc'[w].since = exec[Latest].at
<1> DEFINE s == IF Latest = 0 THEN "none" ELSE exec[Latest].status
           a == [proc[w] EXCEPT !.pc = "exposure"]
           b == [proc[w] EXCEPT !.pc = "fetch", !.plan = Latest]
           c == [proc[w] EXCEPT !.pc = "position_guard", !.since = exec[Latest].at]
<1>1. /\ proc[w].pc = "guard"
      /\ \/ s \in {"none", "failed", "dry_run"} /\ Goto(w, a)
         \/ Goto(w, b)
         \/ Finish(w)
         \/ s = "filled" /\ Goto(w, c)
  BY DEF Guard, At, Continue
<1>2. proc[w] \in ProcType
  BY ProcFacts
<1>3. a.pc = "exposure" /\ b.pc = "fetch" /\ c.pc = "position_guard" /\ c.since = exec[Latest].at
  BY <1>2 DEF ProcType
<1> HIDE DEF a, b, c, s
<1>4. /\ Alone(w)
      /\ \/ s \in {"none", "failed", "dry_run"} /\ proc'[w] = a
         \/ proc'[w] = b
         \/ proc'[w].pc = "idle"
         \/ s = "filled" /\ proc'[w] = c
  BY <1>1, GotoMoves, FinishMoves DEF Ends
<1> QED BY <1>1, <1>3, <1>4 DEF s

\* A lookup that failed, a run that stopped, or a reconciliation that began.
LEMMA BeginMoves ==
    ASSUME IInv, NEW w \in Proc,
           Begin(w) \/ TaskBegin(w) \/ FetchSubmitted(w) \/ FetchError(w) \/ Abort(w)
    PROVE  Alone(w) /\ proc'[w].pc \in {"idle", "guard", "fetch", "persist"}
<1>1. CASE Begin(w)
  <2> DEFINE l == [Idle EXCEPT !.pc = "guard", !.guarding = TRUE]
  <2>1. l.pc = "guard"
    BY IdleOK DEF ProcType
  <2> HIDE DEF l
  <2> QED BY <1>1, <2>1, GotoMoves DEF Begin, l
<1>2. CASE TaskBegin(w)
  <2>1. PICK p \in Plan : Goto(w, [Idle EXCEPT !.pc = "fetch", !.plan = p])
    BY <1>2 DEF TaskBegin, Continue
  <2> DEFINE l == [Idle EXCEPT !.pc = "fetch", !.plan = p]
  <2>2. l.pc = "fetch"
    BY IdleOK DEF ProcType
  <2> HIDE DEF l
  <2> QED BY <2>1, <2>2, GotoMoves DEF l
<1>3. CASE FetchSubmitted(w)
  <2> DEFINE o == orders[proc[w].plan]
             l == [proc[w] EXCEPT !.pc = "persist", !.status = o.status, !.filled = o.filled]
  <2>1. l.pc = "persist"
    BY ProcFacts DEF ProcType
  <2> HIDE DEF l
  <2> QED BY <1>3, <2>1, GotoMoves DEF FetchSubmitted, Continue, l
<1>4. CASE FetchError(w) \/ Abort(w)
  BY <1>4, FinishMoves DEF FetchError, Abort, Ends
<1> QED BY <1>1, <1>2, <1>3, <1>4

\* The steps of a refresh.
LEMMA LoadPreviousMoves ==
    ASSUME IInv, NEW w \in Proc, LoadPrevious(w)
    PROVE  /\ proc[w].pc = "previous" /\ Alone(w) /\ proc'[w].pc = "refresh"
           /\ proc'[w].plan = proc[w].plan /\ proc'[w].filled = proc[w].filled
           /\ proc'[w].guarding = proc[w].guarding /\ proc'[w].since = proc[w].since
           /\ proc'[w].prev = stored
<1> DEFINE l == [proc[w] EXCEPT !.pc = "refresh", !.prev = stored, !.ordered = proc[w].filled]
<1>1. /\ l.pc = "refresh" /\ l.plan = proc[w].plan /\ l.filled = proc[w].filled
      /\ l.guarding = proc[w].guarding /\ l.since = proc[w].since /\ l.prev = stored
  BY ProcFacts DEF ProcType
<1> HIDE DEF l
<1>2. proc[w].pc = "previous" /\ Goto(w, l)
  BY DEF LoadPrevious, At, Continue, l
<1> QED BY <1>1, <1>2, GotoMoves

\* FetchPositions of a refresh takes what the endpoint shows.
LEMMA RefreshFetchMoves ==
    ASSUME IInv, NEW w \in Proc, RefreshFetch(w)
    PROVE  /\ proc[w].pc = "refresh" /\ Alone(w) /\ proc'[w].pc = "write"
           /\ proc'[w].plan = proc[w].plan /\ proc'[w].filled = proc[w].filled
           /\ proc'[w].guarding = proc[w].guarding /\ proc'[w].since = proc[w].since
           /\ proc'[w].prev = proc[w].prev
           /\ proc'[w].read.qty = visible /\ proc'[w].read.at = now
<1> DEFINE r == [known |-> TRUE, qty |-> visible, at |-> now]
           l == [proc[w] EXCEPT !.pc = "write", !.read = r]
<1>0. r.qty = visible /\ r.at = now
  OBVIOUS
<1> HIDE DEF r
<1>1. /\ l.pc = "write" /\ l.plan = proc[w].plan /\ l.filled = proc[w].filled
      /\ l.guarding = proc[w].guarding /\ l.since = proc[w].since /\ l.prev = proc[w].prev
      /\ l.read = r
  BY ProcFacts DEF ProcType
<1> HIDE DEF l
<1>2. proc[w].pc = "refresh" /\ Goto(w, l)
  BY DEF RefreshFetch, At, Continue, l, r
<1> QED BY <1>0, <1>1, <1>2, GotoMoves

\* The end of a refresh.
LEMMA AfterRefreshMoves ==
    ASSUME IInv, NEW w \in Proc, proc[w].pc \in Reading, AfterRefresh(w)
    PROVE  /\ Alone(w)
           /\ \/ proc'[w].pc = "idle"
              \/ /\ proc'[w].pc = "position_guard" /\ proc'[w].since = proc[w].since
                 /\ proc[w].guarding
<1> DEFINE l == [proc[w] EXCEPT !.pc = "position_guard"]
<1>1. l.pc = "position_guard" /\ l.since = proc[w].since
  BY ProcFacts DEF ProcType
<1> HIDE DEF l
<1>2. Finish(w) \/ (proc[w].guarding /\ Goto(w, l))
  BY DEF AfterRefresh, Continue, l
<1> QED BY <1>1, <1>2, GotoMoves, FinishMoves DEF Ends

\* The steps of a run from the guard to the plan.
LEMMA GuardPositionMoves ==
    ASSUME IInv, NEW w \in Proc, GuardPosition(w)
    PROVE  /\ proc[w].pc = "position_guard" /\ Alone(w)
           /\ \/ proc'[w].pc = "idle"
              \/ proc'[w].pc = "exposure" /\ stored.at >= proc[w].since
<1> DEFINE l == [Idle EXCEPT !.pc = "exposure"]
<1>1. l.pc = "exposure"
  BY IdleOK DEF ProcType
<1> HIDE DEF l
<1>2. proc[w].pc = "position_guard" /\ (Finish(w) \/ (stored.at >= proc[w].since /\ Goto(w, l)))
  BY DEF GuardPosition, At, Continue, l
<1> QED BY <1>1, <1>2, GotoMoves, FinishMoves DEF Ends

\* From the exposure on, a run no longer counts as guarding.
LEMMA ReadExposureMoves ==
    ASSUME IInv, NEW w \in Proc, ReadExposure(w)
    PROVE  /\ proc[w].pc = "exposure" /\ Alone(w)
           /\ proc'[w].pc = "idle" \/ (proc'[w].pc = "position" /\ proc'[w].guarding = FALSE)
<1> DEFINE l == [Idle EXCEPT !.pc = "position", !.expo = exposure]
<1>1. l.pc = "position" /\ l.guarding = FALSE
  BY IdleOK DEF ProcType
<1> HIDE DEF l
<1>2. proc[w].pc = "exposure" /\ (Finish(w) \/ Goto(w, l))
  BY DEF ReadExposure, At, Continue, l
<1> QED BY <1>1, <1>2, GotoMoves, FinishMoves DEF Ends

\* The decision is taken on the snapshot as it is.
LEMMA ReadPositionMoves ==
    ASSUME IInv, NEW w \in Proc, ReadPosition(w)
    PROVE  /\ proc[w].pc = "position" /\ Alone(w)
           /\ \/ proc'[w].pc = "idle"
              \/ /\ proc'[w].pc = "plan" /\ proc'[w].guarding = proc[w].guarding
                 /\ proc'[w].prev = stored /\ proc'[w].expo = proc[w].expo
                 /\ proc'[w].ordered = OrderQuantity(DecisionOn(proc[w].expo, stored))
<1> DEFINE k == OrderQuantity(DecisionOn(proc[w].expo, stored))
           l == [proc[w] EXCEPT !.pc = "plan", !.prev = stored, !.ordered = k]
<1> HIDE DEF k
<1>1. /\ l.pc = "plan" /\ l.guarding = proc[w].guarding /\ l.prev = stored
      /\ l.expo = proc[w].expo /\ l.ordered = k
  BY ProcFacts DEF ProcType
<1> HIDE DEF l
<1>2. proc[w].pc = "position" /\ (Finish(w) \/ Goto(w, l))
  BY DEF ReadPosition, At, Continue, l, k
<1> QED BY <1>1, <1>2, GotoMoves, FinishMoves DEF Ends, k

\* The plan's execution decides where createPlanAndExecute goes.
LEMMA CreatePlanMoves ==
    ASSUME IInv, NEW w \in Proc, CreatePlan(w)
    PROVE  /\ proc[w].pc = "plan" /\ Alone(w)
           /\ \/ proc'[w].pc = "idle" /\ exec' = exec /\ now' = now
              \/ /\ exec' = exec /\ now' = now
                 /\ proc'[w].pc = "place" /\ proc'[w].prev = proc[w].prev
                 /\ proc'[w].expo = proc[w].expo /\ proc'[w].ordered = proc[w].ordered
                 /\ proc'[w].guarding = proc[w].guarding
              \/ /\ proc'[w].pc = "idle" /\ now' = now + 1
                 /\ \E p \in Plan : /\ exec[p].status = "none"
                                    /\ exec' = [exec EXCEPT ![p] = Row("dry_run", 0, now + 1)]
              \/ \E p \in Plan : /\ exec' = exec /\ now' = now /\ exec[p].status = "filled"
                                 /\ proc'[w].pc = "refresh" /\ proc'[w].plan = p
                                 /\ proc'[w].filled = exec[p].filled
                                 /\ proc'[w].guarding = proc[w].guarding
                                 /\ proc'[w].prev = proc[w].prev
<1> DEFINE id == ClientOrderID(proc[w].expo, proc[w].prev)
           a(p) == [proc[w] EXCEPT !.pc = "place", !.plan = p]
           b(p, f) == [proc[w] EXCEPT !.pc = "refresh", !.plan = p, !.filled = f]
<1>1. /\ proc[w].pc = "plan"
      /\ \/ Finish(w) /\ UNCHANGED <<now, exec>>
         \/ \E p \in PlanFor(id) : Goto(w, a(p)) /\ UNCHANGED <<now, exec>>
         \/ \E p \in PlanFor(id) : /\ exec[p].status = "none" /\ now' = now + 1 /\ Finish(w)
                                   /\ exec' = CreateOrderExecution(p, "dry_run", 0, now')
         \/ \E p \in PlanFor(id) : /\ exec[p].status = "filled" /\ UNCHANGED <<now, exec>>
                                   /\ Goto(w, b(p, exec[p].filled))
  BY DEF CreatePlan, At, Continue
<1>2. proc[w] \in ProcType
  BY ProcFacts
<1>3. \A p \in PlanFor(id) : p \in Plan
  BY DEF PlanFor
<1> HIDE DEF id
<1>4. CASE Finish(w) /\ UNCHANGED <<now, exec>>
  BY <1>1, <1>4, FinishMoves DEF Ends
<1>5. ASSUME NEW p \in PlanFor(id), Goto(w, a(p)), UNCHANGED <<now, exec>>
      PROVE  /\ exec' = exec /\ now' = now /\ Alone(w)
             /\ proc'[w].pc = "place" /\ proc'[w].prev = proc[w].prev
             /\ proc'[w].expo = proc[w].expo /\ proc'[w].ordered = proc[w].ordered
             /\ proc'[w].guarding = proc[w].guarding
  <2> DEFINE l == a(p)
  <2>1. /\ l.pc = "place" /\ l.prev = proc[w].prev /\ l.expo = proc[w].expo
        /\ l.ordered = proc[w].ordered /\ l.guarding = proc[w].guarding
    BY <1>2 DEF ProcType
  <2> HIDE DEF l
  <2> QED BY <1>5, <2>1, GotoMoves DEF l
<1>6. ASSUME NEW p \in PlanFor(id), exec[p].status = "none", now' = now + 1, Finish(w),
             exec' = CreateOrderExecution(p, "dry_run", 0, now')
      PROVE  /\ Alone(w) /\ proc'[w].pc = "idle"
             /\ exec' = [exec EXCEPT ![p] = Row("dry_run", 0, now + 1)]
  BY <1>6, FinishMoves DEF Ends, CreateOrderExecution, Row
<1>7. ASSUME NEW p \in PlanFor(id), exec[p].status = "filled", UNCHANGED <<now, exec>>,
             Goto(w, b(p, exec[p].filled))
      PROVE  /\ Alone(w)
             /\ proc'[w].pc = "refresh" /\ proc'[w].plan = p /\ proc'[w].filled = exec[p].filled
             /\ proc'[w].guarding = proc[w].guarding /\ proc'[w].prev = proc[w].prev
  <2> DEFINE f == exec[p].filled
             l == b(p, f)
  <2> HIDE DEF f
  <2>1. /\ l.pc = "refresh" /\ l.plan = p /\ l.filled = f
        /\ l.guarding = proc[w].guarding /\ l.prev = proc[w].prev
    BY <1>2 DEF ProcType
  <2> HIDE DEF l
  <2> QED BY <1>7, <2>1, GotoMoves DEF l, f
<1> HIDE DEF a, b
<1> QED BY <1>1, <1>3, <1>4, <1>5, <1>6, <1>7

\* reconcileSubmittedOrder after the write.
LEMMA PersistMoves ==
    ASSUME IInv, NEW w \in Proc, PersistReconciled(w)
    PROVE  LET p == proc[w].plan
               s == PersistedStatus(proc[w].status)
           IN  /\ proc[w].pc = "persist" /\ Alone(w) /\ now' = now + 1
               /\ p \in Plan /\ exec[p].status # "none" /\ Knows(proc[w])
               /\ exec' = [exec EXCEPT ![p] = [status |-> s, at |-> now + 1, filled |-> proc[w].filled,
                                               late |-> exec[p].late \/ exec[p].status # "submitted"]]
               /\ \/ /\ s = "filled" /\ proc'[w].pc = "previous" /\ proc'[w].since = now + 1
                     /\ proc'[w].plan = p /\ proc'[w].filled = proc[w].filled
                     /\ proc'[w].guarding = proc[w].guarding
                  \/ s # "filled" /\ proc'[w].pc = "idle"
                  \/ s \notin {"submitted", "filled"} /\ proc'[w].pc = "exposure"
<1> DEFINE p == proc[w].plan
           s == PersistedStatus(proc[w].status)
           n == now'
           a == [proc[w] EXCEPT !.pc = "previous", !.since = n]
           b == [Idle EXCEPT !.pc = "exposure"]
<1>1. /\ proc[w].pc = "persist" /\ now' = now + 1
      /\ \/ s = "filled" /\ Goto(w, a)
         \/ s # "filled" /\ Finish(w)
         \/ s \notin {"filled", "submitted"} /\ Goto(w, b)
  BY DEF PersistReconciled, At, Continue
<1>2. p \in Plan /\ exec[p].status # "none" /\ Knows(proc[w]) /\ proc[w] \in ProcType
  BY <1>1, ProcFacts DEF Sound
<1>3. exec' = [exec EXCEPT ![p] = [status |-> s, at |-> now + 1, filled |-> proc[w].filled,
                                   late |-> exec[p].late \/ exec[p].status # "submitted"]]
  BY <1>1, <1>2 DEF PersistReconciled, UpdateOrderExecutionStatus
<1> HIDE DEF n
<1>4. /\ a.pc = "previous" /\ a.since = n /\ a.plan = p /\ a.filled = proc[w].filled
      /\ a.guarding = proc[w].guarding
  BY <1>2 DEF ProcType
<1>5. b.pc = "exposure"
  BY IdleOK DEF ProcType
<1> HIDE DEF a, b, s, p
<1>6. CASE s = "filled" /\ Goto(w, a)
  BY <1>1, <1>2, <1>3, <1>4, <1>6, GotoMoves DEF n, s, p
<1>7. CASE s # "filled" /\ Finish(w)
  BY <1>1, <1>2, <1>3, <1>7, FinishMoves DEF Ends, s, p
<1>8. CASE s \notin {"filled", "submitted"} /\ Goto(w, b)
  BY <1>1, <1>2, <1>3, <1>5, <1>8, GotoMoves DEF s, p
<1> QED BY <1>1, <1>6, <1>7, <1>8

\* The insert of worker w's execution is refused: it has no status the table knows.
Refused(w) == At(w, "record") /\ proc[w].status = "canceled"

\* createPlanAndExecute after the refused insert.
LEMMA RefusedMoves ==
    ASSUME IInv, NEW w \in Proc, RecordExecution(w) \/ RecordFailed(w), Refused(w)
    PROVE  /\ Ends(w) /\ w \in Worker /\ proc[w].pc = "record" /\ proc[w].plan \in Plan
           /\ orders[proc[w].plan].status = "canceled"
           /\ UNCHANGED <<stored, exec, orders, live, visible>>
<1>1. /\ proc[w].pc = "record" /\ Finish(w) /\ proc[w].status = "canceled"
      /\ UNCHANGED <<stored, exec, orders, live, visible>>
  BY DEF RecordExecution, RecordFailed, Refused, At, exchangeVars
<1>2. Ends(w)
  BY <1>1, FinishMoves
<1> QED BY <1>1, <1>2, ProcFacts, DecidersRun DEF Sound, Knows, Deciding

\* createPlanAndExecute after the write.
LEMMA RecordMoves ==
    ASSUME IInv, NEW w \in Proc, RecordExecution(w) \/ RecordFailed(w), ~Refused(w)
    PROVE  \E st \in ExecStatus, f \in Int :
               LET p == proc[w].plan
               IN  /\ proc[w].pc \in {"record", "record_failed"} /\ Alone(w) /\ now' = now + 1
                   /\ p \in Plan /\ exec[p].status = "none" /\ w \in Worker
                   /\ exec' = [exec EXCEPT ![p] = Row(st, f, now + 1)]
                   /\ proc[w].pc = "record" => /\ Knows(proc[w])
                                               /\ st = proc[w].status /\ f = proc[w].filled
                   /\ proc[w].pc = "record_failed" => st = "failed"
                   /\ \/ /\ st = "filled" /\ proc[w].pc = "record"
                         /\ proc'[w].pc = "refresh" /\ proc'[w].plan = p
                         /\ proc'[w].filled = f /\ proc'[w].prev = proc[w].prev
                         /\ proc'[w].guarding = proc[w].guarding
                      \/ st # "filled" /\ proc'[w].pc = "idle"
<1> DEFINE p == proc[w].plan
           st == IF proc[w].pc = "record" THEN proc[w].status ELSE "failed"
           f == IF proc[w].pc = "record" THEN proc[w].filled ELSE 0
           l == [proc[w] EXCEPT !.pc = "refresh"]
<1>1. /\ proc[w].pc \in {"record", "record_failed"} /\ now' = now + 1
      /\ exec' = CreateOrderExecution(p, st, f, now')
      /\ IF proc[w].pc = "record" /\ st = "filled" THEN Goto(w, l) ELSE Finish(w)
  BY DEF RecordExecution, RecordFailed, Refused, At, Continue
<1>2. /\ p \in Plan /\ exec[p].status = "none" /\ proc[w] \in ProcType
      /\ proc[w].pc = "record" => Knows(proc[w])
      /\ w \in Worker
  BY <1>1, ProcFacts, DecidersRun DEF Sound, Deciding
<1>3. st \in ExecStatus /\ f \in Int
  BY <1>2 DEF ProcType, OrderStatus, ExecStatus, Refused, At
<1>4. exec' = [exec EXCEPT ![p] = Row(st, f, now + 1)]
  BY <1>1, <1>2 DEF CreateOrderExecution, Row
<1>5. /\ l.pc = "refresh" /\ l.plan = p /\ l.filled = proc[w].filled /\ l.prev = proc[w].prev
      /\ l.guarding = proc[w].guarding
  BY <1>2 DEF ProcType
<1> HIDE DEF l
<1>6. /\ Alone(w)
      /\ IF proc[w].pc = "record" /\ st = "filled" THEN proc'[w] = l ELSE proc'[w].pc = "idle"
  BY <1>1, GotoMoves, FinishMoves DEF Ends
<1>7. /\ proc[w].pc = "record" => st = proc[w].status /\ f = proc[w].filled
      /\ proc[w].pc = "record_failed" => st = "failed"
  OBVIOUS
<1> HIDE DEF st, f
<1> QED BY <1>1, <1>2, <1>3, <1>4, <1>5, <1>6, <1>7

\* An order the exchange takes is the latest one under its client order id; one
\* that came to something before it is not forgotten.
LEMMA TakeMoves ==
    ASSUME NEW p \in Plan, NEW o, orders \in [Plan -> OrderType],
           strays \in [Plan -> Seq(OrderType)], Take(p, o)
    PROVE  /\ orders'[p] = o /\ \A q \in Plan : q # p => orders'[q] = orders[q]
           /\ Void(p) \/ strays'[p] # <<>>
           /\ \A q \in Plan : strays[q] # <<>> => strays'[q] # <<>>
<1>1. orders' = [orders EXCEPT ![p] = o]
  BY DEF Take
<1>2. CASE Void(p) /\ strays' = strays
  BY <1>1, <1>2
<1>3. CASE strays' = [strays EXCEPT ![p] = Append(strays[p], orders[p])]
  <2>1. strays[p] \in Seq(OrderType) /\ orders[p] \in OrderType
    OBVIOUS
  <2> DEFINE longer == Append(strays[p], orders[p])
  <2>2. Len(longer) # 0
    BY <2>1
  <2>3. longer # <<>>
    BY <2>2
  <2> HIDE DEF longer
  <2> QED BY <1>1, <1>3, <2>3 DEF longer
<1> QED BY <1>2, <1>3 DEF Take

\* PlaceOrder makes the order of the worker's plan, or makes none.
LEMMA PlaceOrderMoves ==
    ASSUME IInv, NEW w \in Proc, PlaceOrder(w)
    PROVE  LET p == proc[w].plan
               o == OrderOf(w)
           IN  /\ proc[w].pc = "place" /\ Alone(w) /\ w \in Worker
               /\ p \in Plan /\ exec[p].status = "none"
               /\ proc'[w].plan = p /\ proc'[w].prev = proc[w].prev
               /\ proc'[w].expo = proc[w].expo /\ proc'[w].ordered = proc[w].ordered
               /\ proc'[w].guarding = proc[w].guarding
               /\ \A q \in Plan : strays[q] # <<>> => strays'[q] # <<>>
               /\ \/ orders' = orders /\ live' = live /\ proc'[w].pc = "record_failed"
                  \/ /\ Void(p) \/ strays'[p] # <<>>
                     /\ orders'[p].status \in {"submitted", "filled", "canceled"}
                     /\ orders'[p].qty = o.qty /\ orders'[p].reduceOnly = o.reduceOnly
                     /\ orders'[p].filled = IF orders'[p].status = "filled"
                                            THEN FillOf(o, live) ELSE 0
                     /\ live' = live + orders'[p].filled
                     /\ \A q \in Plan : q # p => orders'[q] = orders[q]
                     /\ \/ proc'[w].pc = "record"
                        \/ proc'[w].pc = "record_failed" /\ orders'[p].status = "submitted"
<1> DEFINE p == proc[w].plan
           o == OrderOf(w)
           f == FillOf(o, live)
           full == [o EXCEPT !.status = "filled", !.filled = f]
           none == [o EXCEPT !.status = "canceled"]
           a(s) == [proc[w] EXCEPT !.pc = "record", !.status = s]
           b == [proc[w] EXCEPT !.pc = "record", !.status = "filled", !.filled = f]
           c == [proc[w] EXCEPT !.pc = "record_failed"]
<1>1. /\ proc[w].pc = "place"
      /\ \/ /\ Take(p, o) /\ live' = live
            /\ Goto(w, a("submitted")) \/ Goto(w, c)
         \/ /\ Take(p, full)
            /\ live' = live + f /\ Goto(w, b)
         \/ /\ Take(p, none)
            /\ live' = live /\ Goto(w, a("canceled"))
         \/ orders' = orders /\ strays' = strays /\ live' = live /\ Goto(w, c)
  BY DEF PlaceOrder, At, Continue
<1>2. /\ proc[w] \in ProcType /\ p \in Plan /\ exec[p].status = "none" /\ w \in Worker
      /\ orders \in [Plan -> OrderType] /\ live \in Int
      /\ strays \in [Plan -> Seq(OrderType)]
  BY <1>1, ProcFacts, DecidersRun DEF Sound, Deciding, IInv, TypeOK
<1>3. /\ o \in OrderType /\ o.status = "submitted" /\ o.filled = 0 /\ f \in Int
  BY <1>1, OrderOfType
<1> HIDE DEF o, f
<1>4. /\ full.status = "filled" /\ full.filled = f /\ full.qty = o.qty
      /\ full.reduceOnly = o.reduceOnly
      /\ none.status = "canceled" /\ none.filled = 0 /\ none.qty = o.qty
      /\ none.reduceOnly = o.reduceOnly
  BY <1>3 DEF OrderType
<1>5. \A s : /\ a(s).pc = "record" /\ a(s).plan = p /\ a(s).prev = proc[w].prev
             /\ a(s).expo = proc[w].expo /\ a(s).ordered = proc[w].ordered
             /\ a(s).guarding = proc[w].guarding
  BY <1>2 DEF ProcType
<1>6. /\ b.pc = "record" /\ b.plan = p /\ b.prev = proc[w].prev
      /\ b.expo = proc[w].expo /\ b.ordered = proc[w].ordered /\ b.guarding = proc[w].guarding
      /\ c.pc = "record_failed" /\ c.plan = p /\ c.prev = proc[w].prev
      /\ c.expo = proc[w].expo /\ c.ordered = proc[w].ordered /\ c.guarding = proc[w].guarding
  BY <1>2 DEF ProcType
<1> HIDE DEF full, none, a, b, c
<1>7. /\ Alone(w) /\ proc'[w] \in {a("submitted"), a("canceled"), b, c}
  BY <1>1, GotoMoves
<1>8. /\ proc'[w].plan = p /\ proc'[w].prev = proc[w].prev
      /\ proc'[w].expo = proc[w].expo /\ proc'[w].ordered = proc[w].ordered
      /\ proc'[w].guarding = proc[w].guarding
  BY <1>5, <1>6, <1>7
<1>9. CASE /\ Take(p, o) /\ live' = live
           /\ Goto(w, a("submitted")) \/ Goto(w, c)
  <2>1. /\ orders'[p] = o /\ \A q \in Plan : q # p => orders'[q] = orders[q]
        /\ Void(p) \/ strays'[p] # <<>>
        /\ \A q \in Plan : strays[q] # <<>> => strays'[q] # <<>>
    BY <1>2, <1>9, TakeMoves
  <2>2. proc'[w].pc = "record" \/ proc'[w].pc = "record_failed"
    BY <1>5, <1>6, <1>9, GotoMoves
  <2> QED BY <1>1, <1>2, <1>3, <1>7, <1>8, <1>9, <2>1, <2>2 DEF o
<1>10. CASE /\ Take(p, full)
            /\ live' = live + f /\ Goto(w, b)
  <2>1. /\ orders'[p] = full /\ \A q \in Plan : q # p => orders'[q] = orders[q]
        /\ Void(p) \/ strays'[p] # <<>>
        /\ \A q \in Plan : strays[q] # <<>> => strays'[q] # <<>>
    BY <1>2, <1>10, TakeMoves
  <2>2. proc'[w].pc = "record"
    BY <1>6, <1>10, GotoMoves
  <2> QED BY <1>1, <1>2, <1>3, <1>4, <1>7, <1>8, <1>10, <2>1, <2>2 DEF o, f
<1>11. CASE /\ Take(p, none)
            /\ live' = live /\ Goto(w, a("canceled"))
  <2>1. /\ orders'[p] = none /\ \A q \in Plan : q # p => orders'[q] = orders[q]
        /\ Void(p) \/ strays'[p] # <<>>
        /\ \A q \in Plan : strays[q] # <<>> => strays'[q] # <<>>
    BY <1>2, <1>11, TakeMoves
  <2>2. proc'[w].pc = "record"
    BY <1>5, <1>11, GotoMoves
  <2> QED BY <1>1, <1>2, <1>3, <1>4, <1>7, <1>8, <1>11, <2>1, <2>2 DEF o
<1>12. CASE orders' = orders /\ strays' = strays /\ live' = live /\ Goto(w, c)
  BY <1>1, <1>2, <1>6, <1>7, <1>8, <1>12, GotoMoves
<1> QED BY <1>1, <1>9, <1>10, <1>11, <1>12
------------------------------------------------------------------------------
(* At most one pending execution *)

\* A step that writes no execution, and sends no run past the guard.
LEMMA QuietPend ==
    ASSUME PendInv, exec' = exec,
           \A v \in Worker : proc'[v].pc \in PastGuard => proc[v].pc \in PastGuard
    PROVE  PendInv'
BY DEF PendInv, NothingLate, Newest

\* A run that leaves the guard has seen that nothing is pending.
LEMMA GuardPend == ASSUME IInv, PendInv, NEW w \in Proc, Guard(w) PROVE PendInv'
<1>1. exec' = exec
  BY DEF Guard, dbVars
<1>2. proc[w].pc = "guard" /\ Alone(w) /\ w \in Worker
  BY GuardMoves, DecidersRun
<1>3. CASE proc'[w].pc \in {"idle", "fetch"}
  BY <1>1, <1>2, <1>3, QuietPend DEF Alone, Proc, PastGuard, Deciding, Reading
<1>4. CASE proc'[w].pc \notin {"idle", "fetch"}
  <2> SUFFICES ASSUME NothingLate PROVE \A q \in Plan : exec[q].status # "submitted"
    BY <1>1 DEF PendInv, NothingLate, Newest
  <2>1. Latest = 0 \/ exec[Latest].status # "submitted"
    BY <1>4, GuardMoves
  <2> SUFFICES ASSUME NEW q \in Plan, exec[q].status = "submitted" PROVE FALSE
    OBVIOUS
  <2>2. Latest \in Plan /\ exec[Latest].status # "none" /\ exec[q].at <= exec[Latest].at
        /\ Latest # q
    BY <2>1, LatestFacts
  <2>3. exec[Latest].at < exec[q].at
    BY <2>2 DEF PendInv, Newest
  <2>4. exec[Latest].at \in Nat /\ exec[q].at \in Nat
    BY <2>2, ProcFacts DEF ExecType
  <2> QED BY <2>2, <2>3, <2>4
<1> QED BY <1>3, <1>4

\* A step that writes the row of plan p, of a run past the guard or of one that
\* finds p submitted.
LEMMA WritePend ==
    ASSUME IInv, PendInv, NEW w \in Proc, Alone(w), NEW p \in Plan, NEW r,
           exec' = [exec EXCEPT ![p] = r], r.at = now + 1,
           exec[p].late => r.late,
           ~r.late => \/ exec[p].status = "submitted"
                      \/ w \in Worker /\ proc[w].pc \in PastGuard,
           w \in Worker /\ proc'[w].pc \in PastGuard => r.status # "submitted"
    PROVE  PendInv'
<1> SUFFICES ASSUME NothingLate'
             PROVE  /\ \A q \in Plan : exec'[q].status = "submitted" => Newest(q)'
                    /\ \A v \in Worker : proc'[v].pc \in PastGuard
                          => \A q \in Plan : exec'[q].status # "submitted"
  BY DEF PendInv
<1>1. /\ exec \in [Plan -> ExecType] /\ now \in Nat
      /\ \A q \in Plan : exec[q].at \in Nat /\ exec[q].at <= now
  BY DEF IInv, TypeOK, Stamped, ExecType
<1>2. exec'[p] = r /\ \A q \in Plan : q # p => exec'[q] = exec[q]
  BY <1>1
<1>3. NothingLate /\ ~r.late
  BY <1>2 DEF NothingLate
<1>4. \A q \in Plan : q # p => exec[q].status # "submitted"
  <2>1. CASE exec[p].status = "submitted"
    <3> SUFFICES ASSUME NEW q \in Plan, q # p, exec[q].status = "submitted" PROVE FALSE
      OBVIOUS
    <3>1. exec[q].at < exec[p].at /\ exec[p].at < exec[q].at
      BY <1>3, <2>1 DEF PendInv, Newest
    <3> QED BY <1>1, <3>1
  <2>2. CASE w \in Worker /\ proc[w].pc \in PastGuard
    BY <1>3, <2>2 DEF PendInv
  <2> QED BY <1>3, <2>1, <2>2
<1>5. Newest(p)'
  BY <1>1, <1>2 DEF Newest
<1>6. ASSUME NEW v \in Worker, proc'[v].pc \in PastGuard, r.status = "submitted" PROVE FALSE
  <2>1. v # w /\ proc'[v] = proc[v]
    BY <1>6 DEF Alone, Proc
  <2>2. exec[p].status # "submitted" /\ v \in Worker /\ proc[v].pc \in PastGuard
    BY <1>3, <1>6, <2>1 DEF PendInv
  <2>3. w \in Worker /\ proc[w].pc \in PastGuard
    BY <1>3, <2>2
  <2> QED BY <2>1, <2>2, <2>3, OneRun DEF PastGuard, Deciding, Reading
<1> QED BY <1>2, <1>4, <1>5, <1>6

\* What the steps of a worker do to PendInv, in an environment without runs that
\* skip the guard.
LEMMA StepPend ==
    ASSUME IInv, PendInv, NEW w \in Proc, "manual" \notin Environment,
           Begin(w) \/ BeginManual(w) \/ TaskBegin(w) \/ ProcStep(w) \/ Abort(w)
    PROVE  PendInv'
<1> USE DEF PastGuard, Deciding, Reading
<1>1. CASE Begin(w) \/ TaskBegin(w) \/ FetchSubmitted(w) \/ FetchError(w) \/ Abort(w)
  <2>1. exec' = exec
    BY <1>1 DEF Begin, TaskBegin, FetchSubmitted, FetchError, Abort, dbVars
  <2>2. Alone(w) /\ proc'[w].pc \in {"idle", "guard", "fetch", "persist"}
    BY <1>1, BeginMoves
  <2> QED BY <2>1, <2>2, QuietPend DEF Alone, Proc
<1>2. CASE BeginManual(w)
  BY <1>2 DEF BeginManual, Can
<1>3. CASE Guard(w)
  BY <1>3, GuardPend
<1>4. CASE LoadPrevious(w) \/ RefreshFetch(w)
  <2>1. exec' = exec
    BY <1>4 DEF LoadPrevious, RefreshFetch, dbVars
  <2>2. Alone(w) /\ proc[w].pc \in Reading
    BY <1>4, LoadPreviousMoves, RefreshFetchMoves
  <2> QED BY <2>1, <2>2, QuietPend DEF Alone, Proc
<1>5. CASE RefreshWrite(w) \/ RefreshError(w)
  <2>1. exec' = exec /\ AfterRefresh(w) /\ proc[w].pc \in Reading
    BY <1>5 DEF RefreshWrite, RefreshError, dbVars, At
  <2>2. Alone(w)
    BY <2>1, AfterRefreshMoves
  <2> QED BY <2>1, <2>2, QuietPend DEF Alone, Proc
<1>6. CASE GuardPosition(w) \/ ReadExposure(w) \/ ReadPosition(w)
  <2>1. exec' = exec
    BY <1>6 DEF GuardPosition, ReadExposure, ReadPosition, dbVars
  <2>2. Alone(w) /\ proc[w].pc \in PastGuard
    BY <1>6, GuardPositionMoves, ReadExposureMoves, ReadPositionMoves
  <2> QED BY <2>1, <2>2, QuietPend DEF Alone, Proc
<1>7. CASE CreatePlan(w)
  <2>1. proc[w].pc = "plan" /\ Alone(w) /\ w \in Worker
    BY <1>7, CreatePlanMoves, DecidersRun
  <2>2. CASE exec' = exec
    BY <2>1, <2>2, QuietPend DEF Alone, Proc
  <2>3. CASE exec' # exec
    <3>1. PICK p \in Plan : /\ exec[p].status = "none" /\ proc'[w].pc = "idle"
                            /\ exec' = [exec EXCEPT ![p] = Row("dry_run", 0, now + 1)]
      BY <1>7, <2>3, CreatePlanMoves
    <3> DEFINE r == Row("dry_run", 0, now + 1)
    <3>2. exec[p] = NoExec
      BY <3>1 DEF IInv, Stamped
    <3>3. r.at = now + 1 /\ r.status = "dry_run" /\ (exec[p].late => r.late)
      BY <3>2 DEF Row, NoExec
    <3> HIDE DEF r
    <3> QED BY <2>1, <3>1, <3>3, WritePend DEF r
  <2> QED BY <2>2, <2>3
<1>8. CASE PlaceOrder(w)
  <2>1. exec' = exec
    BY <1>8 DEF PlaceOrder, dbVars
  <2>2. Alone(w) /\ proc[w].pc = "place"
    BY <1>8, PlaceOrderMoves
  <2> QED BY <2>1, <2>2, QuietPend DEF Alone, Proc
<1>11. CASE (RecordExecution(w) \/ RecordFailed(w)) /\ Refused(w)
  BY <1>11, RefusedMoves, QuietPend DEF Ends, Alone, Proc
<1>9. CASE (RecordExecution(w) \/ RecordFailed(w)) /\ ~Refused(w)
  <2> DEFINE p == proc[w].plan
  <2>1. PICK st \in ExecStatus, f \in Int :
             /\ proc[w].pc \in {"record", "record_failed"} /\ Alone(w)
             /\ p \in Plan /\ exec[p].status = "none" /\ w \in Worker
             /\ exec' = [exec EXCEPT ![p] = Row(st, f, now + 1)]
             /\ st = "submitted" => proc'[w].pc = "idle"
    BY <1>9, RecordMoves
  <2> DEFINE r == Row(st, f, now + 1)
  <2>2. exec[p] = NoExec
    BY <2>1 DEF IInv, Stamped
  <2>3. r.at = now + 1 /\ r.status = st /\ (exec[p].late => r.late)
    BY <2>2 DEF Row, NoExec
  <2> HIDE DEF r, p
  <2> QED BY <2>1, <2>3, WritePend DEF r
<1>10. CASE PersistReconciled(w)
  <2> DEFINE p == proc[w].plan
             s == PersistedStatus(proc[w].status)
             late == exec[p].late \/ exec[p].status # "submitted"
             r == [status |-> s, at |-> now + 1, filled |-> proc[w].filled, late |-> late]
  <2>1. /\ Alone(w) /\ p \in Plan /\ exec' = [exec EXCEPT ![p] = r]
        /\ s = "submitted" => proc'[w].pc = "idle"
    BY <1>10, PersistMoves
  <2> HIDE DEF late, p, s
  <2>2. r.at = now + 1 /\ r.status = s /\ r.late = late
    OBVIOUS
  <2> HIDE DEF r
  <2>3. (exec[p].late => r.late) /\ (~r.late => exec[p].status = "submitted")
    BY <2>2 DEF late
  <2> QED BY <2>1, <2>2, <2>3, WritePend
<1> QED BY <1>1, <1>2, <1>3, <1>4, <1>5, <1>6, <1>7, <1>8, <1>9, <1>10, <1>11 DEF ProcStep

\* No step of the system but a worker's writes executions or moves a worker.
LEMMA NextPend ==
    ASSUME "manual" \notin Environment
    PROVE  IInv /\ PendInv /\ [Next]_vars => PendInv'
<1> SUFFICES ASSUME IInv, PendInv, [Next]_vars PROVE PendInv'
  OBVIOUS
<1>1. CASE exec' = exec /\ proc' = proc
  BY <1>1, QuietPend
<1>2. CASE UNCHANGED vars
  BY <1>1, <1>2 DEF vars, dbVars
<1>3. CASE ExposureSync \/ SyncFetch \/ SyncWrite \/ ExchangePublish
  BY <1>1, <1>3 DEF ExposureSync, SyncFetch, SyncWrite, ExchangePublish, dbVars
<1>4. ASSUME NEW p \in Plan, ExchangeFill(p) \/ ExchangeCancel(p) \/ StrayEnds(p) PROVE PendInv'
  BY <1>1, <1>4 DEF ExchangeFill, ExchangeCancel, StrayEnds, dbVars
<1> QED BY <1>2, <1>3, <1>4, StepPend DEF Next

\* At most one execution of the configuration is waiting for the exchange, in
\* any mix of crashes, lost answers, cancellations, reconciliation tasks and
\* position syncs, if every run asks the guard.
THEOREM OnePending ==
    ASSUME "manual" \notin Environment
    PROVE  Spec => []OnePendingExecution
<1>1. Init => PendInv
  BY DEF Init, PendInv, NoExec, Idle, PastGuard, Deciding, Reading, Proc
<1>2. IInv /\ PendInv => OnePendingExecution
  <2> SUFFICES ASSUME IInv, PendInv, NothingLate, NEW p \in Plan, NEW q \in Plan,
                      exec[p].status = "submitted", exec[q].status = "submitted", p # q
               PROVE  FALSE
    BY DEF OnePendingExecution
  <2>1. exec[p].at < exec[q].at /\ exec[q].at < exec[p].at
    BY DEF PendInv, Newest
  <2>2. exec[p].at \in Nat /\ exec[q].at \in Nat
    BY DEF IInv, TypeOK, ExecType
  <2> QED BY <2>1, <2>2
<1>3. IInv /\ PendInv /\ [Next]_vars => PendInv'
  BY NextPend
<1> QED BY <1>1, <1>2, <1>3, InitInv, NextInv, PTL DEF Spec
------------------------------------------------------------------------------
(* What is damaged stays damaged *)

\* An order that came to something does not change any more, unless the exchange
\* takes another one under its client order id; then it is a stray.
LEMMA EndsAreFinal ==
    ASSUME IInv, [Next]_vars, NEW p \in Plan,
           orders[p].status \in {"filled", "canceled"}, ~Void(p)
    PROVE  orders'[p] = orders[p] \/ strays'[p] # <<>>
<1> DEFINE G == orders'[p] = orders[p] \/ strays'[p] # <<>>
<1>0. orders \in [Plan -> OrderType]
  BY DEF IInv, TypeOK
<1>1. ASSUME NEW w \in Proc, PlaceOrder(w) PROVE G
  BY <1>1, PlaceOrderMoves
<1>2. ASSUME NEW q \in Plan, ExchangeFill(q) PROVE G
  BY <1>0, <1>2 DEF ExchangeFill
<1>3. ASSUME NEW q \in Plan, ExchangeCancel(q) PROVE G
  BY <1>0, <1>3 DEF ExchangeCancel
<1>4. ASSUME NEW w \in Proc, ProcStep(w) PROVE G
  BY <1>1, <1>4 DEF ProcStep, Guard, FetchSubmitted, FetchError, PersistReconciled, LoadPrevious,
     RefreshFetch, RefreshWrite, RefreshError, GuardPosition, ReadExposure, ReadPosition, CreatePlan,
     RecordExecution, RecordFailed, exchangeVars
<1>5. ASSUME NEW w \in Proc, Begin(w) \/ BeginManual(w) \/ TaskBegin(w) \/ Abort(w)
      PROVE  G
  BY <1>5 DEF Begin, BeginManual, TaskBegin, Abort, exchangeVars
<1>6. CASE \/ ExposureSync \/ SyncFetch \/ SyncWrite \/ ExchangePublish \/ UNCHANGED vars
           \/ \E q \in Plan : StrayEnds(q)
  BY <1>6 DEF ExposureSync, SyncFetch, SyncWrite, ExchangePublish, StrayEnds, vars, exchangeVars
<1> QED BY <1>2, <1>3, <1>4, <1>5, <1>6 DEF Next

\* The exchange does not forget that it took an order twice.
LEMMA StraysStay ==
    ASSUME IInv, [Next]_vars, NEW p \in Plan, strays[p] # <<>>
    PROVE  strays'[p] # <<>>
<1>0. strays \in [Plan -> Seq(OrderType)]
  BY DEF IInv, TypeOK
<1>1. ASSUME NEW w \in Proc, PlaceOrder(w) PROVE strays'[p] # <<>>
  BY <1>1, PlaceOrderMoves
<1>2. ASSUME NEW q \in Plan, StrayEnds(q) PROVE strays'[p] # <<>>
  <2>1. PICK i \in DOMAIN strays[q] : \E o : strays' = [strays EXCEPT ![q][i] = o]
    BY <1>2 DEF StrayEnds
  <2>2. PICK o : strays' = [strays EXCEPT ![q][i] = o]
    BY <2>1
  <2> DEFINE changed == [strays[q] EXCEPT ![i] = o]
  <2>3. strays'[p] = IF p = q THEN changed ELSE strays[p]
    BY <1>0, <2>2
  <2>4. i \in DOMAIN changed /\ DOMAIN <<>> = {}
    BY <2>1
  <2> HIDE DEF changed
  <2> QED BY <2>3, <2>4
<1>4. ASSUME NEW w \in Proc, ProcStep(w) PROVE strays'[p] # <<>>
  BY <1>1, <1>4 DEF ProcStep, Guard, FetchSubmitted, FetchError, PersistReconciled, LoadPrevious,
     RefreshFetch, RefreshWrite, RefreshError, GuardPosition, ReadExposure, ReadPosition, CreatePlan,
     RecordExecution, RecordFailed, exchangeVars
<1>5. ASSUME NEW w \in Proc, Begin(w) \/ BeginManual(w) \/ TaskBegin(w) \/ Abort(w)
      PROVE  strays'[p] # <<>>
  BY <1>5 DEF Begin, BeginManual, TaskBegin, Abort, exchangeVars
<1>6. CASE \/ ExposureSync \/ SyncFetch \/ SyncWrite \/ ExchangePublish \/ UNCHANGED vars
           \/ \E q \in Plan : ExchangeFill(q) \/ ExchangeCancel(q)
  BY <1>6 DEF ExposureSync, SyncFetch, SyncWrite, ExchangePublish, ExchangeFill, ExchangeCancel,
     vars, exchangeVars
<1> QED BY <1>2, <1>4, <1>5, <1>6 DEF Next

\* How a step changes the rows: not at all; a first record; or a rewrite, which
\* is marked late unless the row was submitted.
LEMMA RowsGrow ==
    ASSUME IInv, [Next]_vars, NEW p \in Plan
    PROVE  \/ exec'[p] = exec[p]
           \/ /\ exec[p].status = "none" /\ ~exec[p].late
              /\ exec'[p].status \in {"submitted", "filled"} => BeingRecorded(p)
           \/ exec'[p].late \/ (exec[p].status = "submitted" /\ ~exec[p].late)
<1>0. exec \in [Plan -> ExecType] /\ (exec[p].status = "none" => ~exec[p].late)
  BY DEF IInv, TypeOK, Stamped, NoExec
<1>1. ASSUME NEW w \in Proc, PersistReconciled(w)
      PROVE  exec'[p] = exec[p] \/ exec'[p].late \/ (exec[p].status = "submitted" /\ ~exec[p].late)
  <2> DEFINE q == proc[w].plan
             s == PersistedStatus(proc[w].status)
             late == exec[q].late \/ exec[q].status # "submitted"
             r == [status |-> s, at |-> now + 1, filled |-> proc[w].filled, late |-> late]
  <2>1. q \in Plan /\ exec' = [exec EXCEPT ![q] = r]
    BY <1>1, PersistMoves
  <2> HIDE DEF late, q, s
  <2>2. r.late = late
    OBVIOUS
  <2> HIDE DEF r
  <2>3. exec'[p] = IF p = q THEN r ELSE exec[p]
    BY <1>0, <2>1
  <2>4. late \/ (exec[q].status = "submitted" /\ ~exec[q].late)
    BY DEF late
  <2> QED BY <2>2, <2>3, <2>4
<1>2. ASSUME NEW w \in Proc, CreatePlan(w)
      PROVE  \/ exec'[p] = exec[p]
             \/ exec[p].status = "none" /\ exec'[p].status = "dry_run"
  BY <1>0, <1>2, CreatePlanMoves DEF Row
<1>3. ASSUME NEW w \in Proc, RecordExecution(w) \/ RecordFailed(w)
      PROVE  \/ exec'[p] = exec[p]
             \/ /\ exec[p].status = "none"
                /\ exec'[p].status \in {"submitted", "filled"} => BeingRecorded(p)
  <2> DEFINE q == proc[w].plan
  <2>0. SUFFICES ASSUME ~Refused(w)
                 PROVE  \/ exec'[p] = exec[p]
                        \/ /\ exec[p].status = "none"
                           /\ exec'[p].status \in {"submitted", "filled"} => BeingRecorded(p)
    BY <1>3, RefusedMoves
  <2>1. PICK st \in ExecStatus, f \in Int :
             /\ q \in Plan /\ exec[q].status = "none" /\ w \in Worker
             /\ exec' = [exec EXCEPT ![q] = Row(st, f, now + 1)]
             /\ proc[w].pc = "record" \/ st = "failed"
    BY <1>3, <2>0, RecordMoves
  <2> DEFINE r == Row(st, f, now + 1)
  <2>2. r.status = st
    BY DEF Row
  <2> HIDE DEF r
  <2>3. exec'[p] = IF p = q THEN r ELSE exec[p]
    BY <1>0, <2>1 DEF r
  <2> QED BY <2>1, <2>2, <2>3 DEF BeingRecorded, At
<1>4. ASSUME NEW w \in Proc, ProcStep(w), ~PersistReconciled(w), ~CreatePlan(w),
             ~RecordExecution(w), ~RecordFailed(w)
      PROVE  exec' = exec
  BY <1>4 DEF ProcStep, Guard, FetchSubmitted, FetchError, LoadPrevious, PlaceOrder,
     RefreshFetch, RefreshWrite, RefreshError, GuardPosition, ReadExposure, ReadPosition, dbVars
<1>5. ASSUME NEW w \in Proc, Begin(w) \/ BeginManual(w) \/ TaskBegin(w) \/ Abort(w)
      PROVE  exec' = exec
  BY <1>5 DEF Begin, BeginManual, TaskBegin, Abort, dbVars
<1>6. CASE \/ ExposureSync \/ SyncFetch \/ SyncWrite \/ ExchangePublish \/ UNCHANGED vars
           \/ \E q \in Plan : ExchangeFill(q) \/ ExchangeCancel(q) \/ StrayEnds(q)
  BY <1>6 DEF ExposureSync, SyncFetch, SyncWrite, ExchangePublish, ExchangeFill, ExchangeCancel,
     StrayEnds, vars, dbVars
<1> QED BY <1>0, <1>1, <1>2, <1>3, <1>4, <1>5, <1>6 DEF Next

\* A run has an order to record only when it has just placed it.
LEMMA RecordStarts ==
    ASSUME IInv, [Next]_vars, "manual" \notin Environment, NEW v \in Worker,
           proc'[v].pc = "record"
    PROVE  \/ proc'[v] = proc[v]
           \/ LET p == proc'[v].plan IN Void(p) \/ strays'[p] # <<>>
<1> DEFINE Placed(x) == LET p == proc'[x].plan IN Void(p) \/ strays'[p] # <<>>
<1>1. CASE proc' = proc
  BY <1>1
<1>2. CASE \/ ExposureSync \/ SyncFetch \/ SyncWrite \/ ExchangePublish \/ UNCHANGED vars
           \/ \E q \in Plan : ExchangeFill(q) \/ ExchangeCancel(q) \/ StrayEnds(q)
  BY <1>1, <1>2 DEF ExposureSync, SyncFetch, SyncWrite, ExchangePublish, ExchangeFill,
     ExchangeCancel, StrayEnds, vars
<1>3. ASSUME NEW w \in Proc,
             Begin(w) \/ BeginManual(w) \/ TaskBegin(w) \/ ProcStep(w) \/ Abort(w)
      PROVE  \/ proc'[v] = proc[v]
             \/ Placed(v)
  <2> SUFFICES Alone(w) /\ (proc'[w].pc = "record" => Placed(w))
    BY DEF Alone, Proc
  <2>1. CASE Begin(w) \/ TaskBegin(w) \/ FetchSubmitted(w) \/ FetchError(w) \/ Abort(w)
    BY <2>1, BeginMoves
  <2>2. CASE BeginManual(w)
    BY <2>2 DEF BeginManual, Can
  <2>3. CASE RefreshWrite(w) \/ RefreshError(w)
    <3>1. AfterRefresh(w) /\ proc[w].pc \in Reading
      BY <2>3 DEF RefreshWrite, RefreshError, At, Reading
    <3> QED BY <3>1, AfterRefreshMoves
  <2>4. CASE Guard(w) \/ LoadPrevious(w) \/ RefreshFetch(w) \/ GuardPosition(w)
    BY <2>4, GuardMoves, LoadPreviousMoves, RefreshFetchMoves, GuardPositionMoves
  <2>5. CASE ReadExposure(w) \/ ReadPosition(w)
    BY <2>5, ReadExposureMoves, ReadPositionMoves
  <2>6. CASE CreatePlan(w)
    BY <2>6, CreatePlanMoves
  <2>7. CASE PlaceOrder(w)
    BY <2>7, PlaceOrderMoves
  <2>8. CASE RecordExecution(w) \/ RecordFailed(w)
    BY <2>8, RecordMoves, RefusedMoves DEF Ends
  <2>9. CASE PersistReconciled(w)
    BY <2>9, PersistMoves
  <2> QED BY <1>3, <2>1, <2>2, <2>3, <2>4, <2>5, <2>6, <2>7, <2>8, <2>9 DEF ProcStep
<1> QED BY <1>2, <1>3 DEF Next

\* No step mends what is damaged.
LEMMA DamageStays ==
    ASSUME IInv, [Next]_vars, "manual" \notin Environment, Damaged
    PROVE  Damaged'
<1>1. CASE ~NothingLate
  <2>1. PICK p \in Plan : exec[p].late
    BY <1>1 DEF NothingLate
  <2>2. exec'[p].late
    BY <2>1, RowsGrow
  <2> QED BY <2>2 DEF Damaged, NothingLate
<1>2. ASSUME NEW p \in Plan, orders[p].status = "canceled", orders[p].filled # 0 PROVE Damaged'
  BY <1>2, EndsAreFinal DEF Damaged, Void
<1>3. ASSUME NEW p \in Plan, orders[p].status = "filled",
             exec[p].status \notin {"submitted", "filled"}, ~BeingRecorded(p)
      PROVE  Damaged'
  <2>0. SUFFICES ASSUME strays'[p] = <<>> PROVE Damaged'
    BY DEF Damaged
  <2>1. orders'[p].status = "filled"
    BY <1>3, <2>0, EndsAreFinal DEF Void
  <2>2. exec'[p].late \/ exec'[p].status \notin {"submitted", "filled"}
    BY <1>3, RowsGrow
  <2>3. ~BeingRecorded(p)'
    BY <1>3, <2>0, RecordStarts DEF BeingRecorded, At, Void
  <2> QED BY <2>1, <2>2, <2>3 DEF Damaged, NothingLate
<1>4. ASSUME NEW p \in Plan, strays[p] # <<>> PROVE Damaged'
  BY <1>4, StraysStay DEF Damaged
<1> QED BY <1>1, <1>2, <1>3, <1>4 DEF Damaged
------------------------------------------------------------------------------
(* The steps of a run on the exchange and the snapshot *)

\* No two workers run, so nobody else records while w does something else.
LEMMA RecordedBy ==
    ASSUME IInv, NEW w \in Worker, proc[w].pc # "idle", NEW p
    PROVE  BeingRecorded(p) <=> proc[w].pc = "record" /\ proc[w].plan = p
BY OneRun DEF BeingRecorded, At

\* While a run decides, places or records, nobody refreshes the position.
LEMMA DeciderAlone ==
    ASSUME IInv, Core, NEW w \in Worker, proc[w].pc \in Deciding
    PROVE  \A x \in Proc : proc[x].pc \notin Reading
<1> SUFFICES ASSUME NEW x \in Proc, proc[x].pc \in Reading PROVE FALSE
  OBVIOUS
<1> DEFINE l == proc[x]
<1>1. RefreshSees(x, l) /\ RunSees(proc[w])
  BY DEF Core
<1>2. l.plan \in Plan
  BY ProcFacts DEF Sound
<1>3. x # w
  BY DEF Deciding, Reading
<1>4. x \notin Worker
  BY <1>3, OneRun DEF Reading, Deciding
<1>5. Open(l.plan)
  BY <1>1, <1>2, <1>4 DEF RefreshSees
<1>6. proc[w].pc = "record"
  BY <1>1, <1>2, <1>5 DEF RunSees
<1>7. proc[w].plan \in Plan /\ exec[proc[w].plan].status = "none" /\ Open(proc[w].plan)
  <2>1. proc[w].plan \in Plan /\ exec[proc[w].plan].status = "none"
    BY <1>6, ProcFacts DEF Sound, Proc
  <2> QED BY <1>6, <2>1 DEF Open, BeingRecorded, At
<1>8. exec[l.plan].status = "filled" /\ proc[w].plan = l.plan
  BY <1>1, <1>7 DEF RefreshSees
<1> QED BY <1>7, <1>8

\* A step that leaves database, exchange and the recording run alone.
LEMMA QuietCore ==
    ASSUME Core, NEW w \in Proc, Alone(w),
           UNCHANGED <<stored, exec, orders, live, visible>>,
           proc[w].pc # "record", proc'[w].pc # "record",
           w \in Worker => RunSees(proc[w])',
           RefreshSees(w, proc[w])',
           proc'[w].pc \in Reading => \A x \in Proc : x # w => proc[x].pc \notin Reading
    PROVE  Core'
<1>1. \A p : BeingRecorded(p)' <=> BeingRecorded(p)
  BY DEF BeingRecorded, At, Alone, Proc
<1>2. \A p : Open(p)' <=> Open(p)
  BY <1>1 DEF Open
<1>3. OneOpen'
  BY <1>1, <1>2 DEF Core, OneOpen, Newest
<1>4. PositionKnown'
  BY <1>2 DEF Core, PositionKnown
<1>5. OrdersFit'
  BY <1>2 DEF Core, OrdersFit, FillOf
<1>6. ASSUME NEW v \in Worker, v # w PROVE RunSees(proc[v])'
  <2>1. proc'[v] = proc[v] /\ RunSees(proc[v])
    BY <1>6 DEF Alone, Proc, Core
  <2> QED BY <1>2, <2>1 DEF RunSees
<1>7. ASSUME NEW x \in Proc, x # w PROVE RefreshSees(x, proc[x])'
  <2>1. proc'[x] = proc[x] /\ RefreshSees(x, proc[x])
    BY <1>7 DEF Alone, Core
  <2> QED BY <1>2, <2>1 DEF RefreshSees
<1>8. \A x, y \in Proc : proc'[x].pc \in Reading /\ proc'[y].pc \in Reading => x = y
  BY DEF Alone, Core
<1> QED BY <1>3, <1>4, <1>5, <1>6, <1>7, <1>8 DEF Core

\* Nobody but the run itself could be recording while it asks the guard, and an
\* open order that is not being recorded is the latest one.
LEMMA OpenIsLatest ==
    ASSUME IInv, Core, NEW q \in Plan, Open(q), ~BeingRecorded(q)
    PROVE  q = Latest /\ exec[q].status # "none"
<1>1. exec[q].status # "none" /\ Newest(q)
  BY DEF Core, OneOpen, Open
<1>2. Latest \in Plan /\ exec[Latest].status # "none" /\ exec[q].at <= exec[Latest].at
  BY <1>1, LatestFacts
<1>3. exec[Latest].at \in Nat /\ exec[q].at \in Nat
  BY <1>2 DEF IInv, TypeOK, ExecType
<1> QED BY <1>1, <1>2, <1>3 DEF Newest

\* The guard lets a run pass only if nothing is open, or hands it the time of the
\* fill that may be.
LEMMA GuardCore == ASSUME IInv, Core, NEW w \in Proc, Guard(w) PROVE Core'
<1>1. UNCHANGED <<stored, exec, orders, live, visible>>
  BY DEF Guard, dbVars, exchangeVars
<1>2. proc[w].pc = "guard" /\ Alone(w) /\ w \in Worker
  BY GuardMoves, DecidersRun
<1>3. proc'[w].pc \in {"idle", "fetch", "exposure", "position_guard"}
  BY GuardMoves
<1>4. \A p : BeingRecorded(p)' <=> BeingRecorded(p)
  BY <1>2, <1>3 DEF BeingRecorded, At, Alone, Proc
<1>5. \A p : ~BeingRecorded(p)
  BY <1>2, RecordedBy
<1>6. CASE proc'[w].pc = "exposure"
  <2>1. Latest = 0 \/ exec[Latest].status \in {"none", "failed", "dry_run"}
    BY <1>6, GuardMoves
  <2>2. \A q \in Plan : ~Open(q)
    <3> SUFFICES ASSUME NEW q \in Plan, Open(q) PROVE FALSE
      OBVIOUS
    <3>1. q = Latest
      BY <1>5, OpenIsLatest
    <3>2. exec[q].status \in {"submitted", "filled"}
      BY <1>5 DEF Open
    <3> QED BY <2>1, <3>1, <3>2 DEF Plan
  <2>3. RunSees(proc[w])'
    BY <1>1, <1>4, <1>6, <2>2 DEF RunSees, Open
  <2> QED BY <1>1, <1>2, <1>6, <2>3, QuietCore DEF RefreshSees, Reading
<1>7. CASE proc'[w].pc = "position_guard"
  <2>1. exec[Latest].status = "filled" /\ Latest # 0 /\ proc'[w].since = exec[Latest].at
    BY <1>7, GuardMoves
  <2>2. \A q \in Plan : exec[q].status # "submitted"
    <3> SUFFICES ASSUME NEW q \in Plan, exec[q].status = "submitted" PROVE FALSE
      OBVIOUS
    <3>1. q = Latest
      BY <1>5, OpenIsLatest DEF Open
    <3> QED BY <2>1, <3>1
  <2>3. \A q \in Plan : exec[q].status = "filled" => exec[q].at <= exec[Latest].at
    BY <2>1, LatestFacts
  <2>4. RunSees(proc[w])'
    BY <1>1, <1>7, <2>1, <2>2, <2>3 DEF RunSees, Deciding
  <2> QED BY <1>1, <1>2, <1>7, <2>4, QuietCore DEF RefreshSees, Reading
<1>8. CASE proc'[w].pc \in {"idle", "fetch"}
  BY <1>1, <1>2, <1>8, QuietCore DEF RefreshSees, RunSees, Reading, Deciding
<1> QED BY <1>3, <1>6, <1>7, <1>8

\* The steps that only look something up for a refresh.
LEMMA RefreshReadCore ==
    ASSUME IInv, Core, NEW w \in Proc, LoadPrevious(w) \/ RefreshFetch(w)
    PROVE  Core'
<1>1. UNCHANGED <<stored, exec, orders, live, visible>>
  BY DEF LoadPrevious, RefreshFetch, dbVars, exchangeVars
<1>2. /\ proc[w].pc \in Reading /\ Alone(w) /\ proc'[w].pc \in Reading
      /\ proc[w].pc \notin {"record", "write"} /\ proc'[w].pc \notin {"record", "previous"}
      /\ proc'[w].plan = proc[w].plan /\ proc'[w].filled = proc[w].filled
      /\ proc'[w].guarding = proc[w].guarding /\ proc'[w].since = proc[w].since
      /\ proc'[w].prev.qty = stored.qty
      /\ proc'[w].pc = "write" => proc'[w].read.qty = visible /\ proc'[w].read.at = now
  <2>1. CASE LoadPrevious(w)
    BY <2>1, LoadPreviousMoves DEF Reading
  <2>2. CASE RefreshFetch(w)
    BY <2>2, RefreshFetchMoves DEF Core, RefreshSees, Reading
  <2> QED BY <2>1, <2>2
<1>3. \A p : Open(p)' <=> Open(p)
  BY <1>1, <1>2 DEF Open, BeingRecorded, At, Alone, Proc, Reading
<1>4. proc[w].plan \in Plan /\ exec[proc[w].plan].at <= now
  BY <1>2, ProcFacts DEF Sound, IInv, Stamped
<1>5. RefreshSees(w, proc[w])
  BY DEF Core
<1>6. RefreshSees(w, proc[w])'
  BY <1>1, <1>2, <1>3, <1>4, <1>5 DEF RefreshSees
<1>7. RunSees(proc[w])'
  BY <1>2 DEF RunSees, Reading, Deciding
<1>8. \A x \in Proc : x # w => proc[x].pc \notin Reading
  BY <1>2 DEF Core
<1> QED BY <1>1, <1>2, <1>6, <1>7, <1>8, QuietCore

\* The guard goes on with the time of the fill it has just recorded, which is
\* the latest one.
LEMMA SinceIsLatest ==
    ASSUME IInv, Core, NEW w \in Proc, proc[w].pc \in Reading, proc[w].guarding
    PROVE  /\ w \in Worker
           /\ \A p \in Plan : /\ exec[p].status # "submitted"
                              /\ exec[p].status = "filled" => exec[p].at <= proc[w].since
<1> DEFINE q == proc[w].plan
<1>1. RefreshSees(w, proc[w]) /\ w \in Worker
  BY DEF Core, IInv, TaskControl, Proc
<1>2. q \in Plan
  BY ProcFacts DEF Sound
<1>3. /\ exec[q].status = "filled" /\ Open(q) /\ proc[w].since = exec[q].at
      /\ \A p \in Plan : exec[p].status # "submitted"
  BY <1>1, <1>2 DEF RefreshSees
<1>4. ~BeingRecorded(q)
  BY <1>1, RecordedBy DEF Reading
<1>5. Newest(q)
  BY <1>2, <1>3, <1>4 DEF Core, OneOpen
<1>6. \A p \in Plan : exec[p].at \in Nat
  BY DEF IInv, TypeOK, ExecType
<1> QED BY <1>1, <1>2, <1>3, <1>5, <1>6 DEF Newest

\* A refresh that ends without a snapshot.
LEMMA RefreshEndCore ==
    ASSUME IInv, Core, NEW w \in Proc, proc[w].pc \in Reading, AfterRefresh(w),
           UNCHANGED <<stored, exec, orders, live, visible>>
    PROVE  Core'
<1>1. /\ Alone(w) /\ proc[w].pc # "record"
      /\ \/ proc'[w].pc = "idle"
         \/ /\ proc'[w].pc = "position_guard" /\ proc'[w].since = proc[w].since
            /\ proc[w].guarding
  BY AfterRefreshMoves DEF Reading
<1>2. RunSees(proc[w])'
  BY <1>1, SinceIsLatest DEF RunSees, Deciding
<1>3. RefreshSees(w, proc[w])'
  BY <1>1 DEF RefreshSees, Reading
<1> QED BY <1>1, <1>2, <1>3, QuietCore DEF Reading

\* A refresh stores the snapshot only if that shows the fill, and then it shows
\* the position the account has.
LEMMA RefreshWriteCore == ASSUME IInv, Core, NEW w \in Proc, RefreshWrite(w) PROVE Core'
<1> DEFINE l == proc[w]
           q == l.plan
<1>1. /\ l.pc = "write" /\ l.pc \in Reading /\ AfterRefresh(w)
      /\ UNCHANGED <<exec, orders, live, visible>>
      /\ stored' = IF ReflectsFill(l) THEN l.read ELSE stored
  BY DEF RefreshWrite, At, Reading, exchangeVars
<1>2. CASE ~ReflectsFill(l)
  BY <1>1, <1>2, RefreshEndCore
<1>3. CASE ReflectsFill(l)
  <2>1. /\ q \in Plan /\ l \in ProcType /\ stored \in SnapshotType
        /\ exec \in [Plan -> ExecType] /\ orders \in [Plan -> OrderType]
    BY <1>1, ProcFacts DEF Sound
  <2>2. /\ exec[q].status = "filled" /\ l.filled = orders[q].filled
        /\ \A p \in Plan : exec[p].status # "submitted"
        /\ \A p \in Plan : Open(p) => p = q
        /\ l.prev.qty = stored.qty /\ l.read.at >= exec[q].at
        /\ l.read.qty \in {stored.qty, visible}
    BY <1>1 DEF Core, RefreshSees
  <2>3. /\ orders[q].status = "filled" /\ orders[q].filled = orders[q].qty /\ orders[q].qty # 0
        /\ orders[q].qty \in Int /\ stored.qty \in Int /\ l.ordered \in Int
    BY <2>1, <2>2 DEF IInv, RecordsAreTrue, Core, OrdersFit, OrderType, SnapshotType, ProcType
  <2>4. l.read.qty = stored.qty + orders[q].qty
    BY <1>3, <2>2, <2>3 DEF ReflectsFill, Expected
  <2>5. visible = l.read.qty /\ visible # stored.qty
    BY <2>2, <2>3, <2>4
  <2>6. Open(q) /\ live = stored.qty + orders[q].qty /\ visible = live
    BY <2>2, <2>3, <2>4, <2>5 DEF Core, PositionKnown
  <2>7. ~BeingRecorded(q)
    <3> SUFFICES ASSUME NEW v \in Worker, proc[v].pc = "record", proc[v].plan = q PROVE FALSE
      BY DEF BeingRecorded, At
    <3> QED BY <2>2, ProcFacts DEF Sound, Proc
  <2>8. Newest(q)
    BY <2>1, <2>6, <2>7 DEF Core, OneOpen
  <2>9. /\ Alone(w)
        /\ \/ proc'[w].pc = "idle"
           \/ /\ proc'[w].pc = "position_guard" /\ proc'[w].since = l.since
              /\ l.guarding
    BY <1>1, AfterRefreshMoves
  <2>10. stored' = l.read
    BY <1>1, <1>3
  <2>11. \A p \in Plan : ~Open(p)'
    <3> SUFFICES ASSUME NEW p \in Plan, Open(p)' PROVE FALSE
      OBVIOUS
    <3>1. ~BeingRecorded(p)'
      <4>1. BeingRecorded(p)' => BeingRecorded(p)
        BY <2>9 DEF BeingRecorded, At, Alone, Proc
      <4> QED BY <2>2, <2>7, <4>1 DEF Open
    <3>2. exec[p].status = "filled" /\ l.read.at < exec[p].at
      BY <1>1, <2>2, <2>10, <3>1 DEF Open
    <3>3. exec[p].at <= exec[q].at
      BY <2>1, <2>8, <3>2 DEF Newest, ExecType
    <3>4. l.read.at \in Nat /\ exec[p].at \in Nat /\ exec[q].at \in Nat
      BY <2>1 DEF ProcType, SnapshotType, ExecType
    <3> QED BY <2>2, <3>2, <3>3, <3>4
  <2>12. OneOpen' /\ PositionKnown'
    BY <1>1, <2>5, <2>6, <2>10, <2>11 DEF OneOpen, PositionKnown
  <2>13. OrdersFit'
    <3>1. Abs(l.read.qty) <= Cfg.max
      BY <2>1, <2>3, <2>4, <2>6 DEF Core, OrdersFit
    <3> QED BY <1>1, <2>10, <2>11, <3>1 DEF Core, OrdersFit
  <2>14. ASSUME NEW v \in Worker PROVE RunSees(proc[v])'
    <3>1. CASE v = w
      BY <1>1, <2>9, <3>1, SinceIsLatest DEF RunSees, Deciding, Proc
    <3>2. CASE v # w
      <4>1. proc'[v] = proc[v] /\ RunSees(proc[v])
        BY <2>9, <3>2 DEF Alone, Proc, Core
      <4>2. proc[v].pc \notin Deciding
        BY <1>1, DeciderAlone
      <4> QED BY <1>1, <4>1, <4>2 DEF RunSees, Deciding
    <3> QED BY <3>1, <3>2
  <2>15. \A x \in Proc : proc'[x].pc \notin Reading
    BY <1>1, <2>9 DEF Alone, Core, Reading
  <2> QED BY <2>12, <2>13, <2>14, <2>15 DEF Core, RefreshSees
<1> QED BY <1>2, <1>3

\* The steps of a run from the position guard to the decision.
LEMMA ReadCore ==
    ASSUME IInv, Core, NEW w \in Proc, GuardPosition(w) \/ ReadExposure(w) \/ ReadPosition(w)
    PROVE  Core'
<1>1. UNCHANGED <<stored, exec, orders, live, visible>>
  BY DEF GuardPosition, ReadExposure, ReadPosition, dbVars, exchangeVars
<1>2. /\ proc[w].pc \in {"position_guard", "exposure", "position"} /\ Alone(w)
      /\ proc'[w].pc \in {"idle", "exposure", "position", "plan"}
  BY GuardPositionMoves, ReadExposureMoves, ReadPositionMoves
<1>3. w \in Worker /\ RunSees(proc[w])
  BY <1>2, DecidersRun DEF Core, Deciding
<1>4. \A p : ~BeingRecorded(p)
  BY <1>2, <1>3, RecordedBy
<1>5. \A p : ~BeingRecorded(p)'
  BY <1>2, <1>4 DEF BeingRecorded, At, Alone, Proc
<1>6. \A p : Open(p)' <=> Open(p)
  BY <1>1, <1>4, <1>5 DEF Open
<1>7. RunSees(proc[w])'
  <2>1. CASE GuardPosition(w)
    <3>1. CASE proc'[w].pc = "idle"
      BY <3>1 DEF RunSees, Deciding
    <3>2. CASE proc'[w].pc = "exposure" /\ stored.at >= proc[w].since
      <4> SUFFICES ASSUME NEW p \in Plan, Open(p) PROVE FALSE
        BY <1>6, <3>2 DEF RunSees
      <4>1. proc[w].pc = "position_guard"
        BY <2>1, GuardPositionMoves
      <4>a. /\ exec[p].status # "submitted"
            /\ exec[p].status = "filled" => exec[p].at <= proc[w].since
        BY <1>3, <4>1 DEF RunSees
      <4>2. exec[p].status = "filled" /\ stored.at < exec[p].at /\ exec[p].at <= proc[w].since
        BY <1>4, <4>a DEF Open
      <4>3. stored.at \in Nat /\ exec[p].at \in Nat /\ proc[w].since \in Nat
        BY ProcFacts DEF SnapshotType, ExecType, ProcType
      <4> QED BY <3>2, <4>2, <4>3
    <3> QED BY <2>1, <3>1, <3>2, GuardPositionMoves
  <2>2. CASE ReadExposure(w)
    <3>1. proc[w].pc = "exposure"
          /\ (proc'[w].pc = "idle" \/ (proc'[w].pc = "position" /\ proc'[w].guarding = FALSE))
      BY <2>2, ReadExposureMoves
    <3> QED BY <1>3, <1>6, <3>1 DEF RunSees, Deciding
  <2>3. CASE ReadPosition(w)
    <3>1. /\ proc[w].pc = "position"
          /\ \/ proc'[w].pc = "idle"
             \/ /\ proc'[w].pc = "plan" /\ proc'[w].guarding = proc[w].guarding
                /\ proc'[w].prev = stored /\ proc'[w].expo = proc[w].expo
                /\ proc'[w].ordered = OrderQuantity(DecisionOn(proc[w].expo, stored))
      BY <2>3, ReadPositionMoves
    <3> QED BY <1>1, <1>3, <1>6, <3>1 DEF RunSees, Deciding
  <2> QED BY <2>1, <2>2, <2>3
<1> QED BY <1>1, <1>2, <1>7, QuietCore DEF RefreshSees, Reading

\* A step of the one run while nothing is open and nobody refreshes, to a state
\* in which nothing is open either: only the worker's own state is left to check.
LEMMA ClosedCore ==
    ASSUME IInv, Core, NEW w \in Worker, Alone(w), proc[w].pc \in Deciding,
           \A p \in Plan : ~Open(p),
           UNCHANGED <<stored, live, visible>>,
           \A p \in Plan : orders'[p].status = "filled" => orders'[p] = orders[p],
           \A p \in Plan : exec'[p] # exec[p] => exec'[p].status \notin {"submitted", "filled"},
           proc'[w].pc # "record",
           RunSees(proc[w])', RefreshSees(w, proc[w])'
    PROVE  Core'
<1>1. \A x \in Proc : x # w => /\ proc'[x] = proc[x] /\ proc'[x].pc \notin Reading
                               /\ x \in Worker => proc'[x].pc = "idle"
  BY DeciderAlone, OneRun DEF Alone, Deciding
<1>2. \A p : ~BeingRecorded(p)'
  BY <1>1 DEF BeingRecorded, At, Proc
<1>3. \A p \in Plan : ~Open(p)'
  BY <1>2 DEF Open
<1>4. OneOpen' /\ PositionKnown' /\ OrdersFit'
  BY <1>3 DEF Core, OneOpen, PositionKnown, OrdersFit
<1>5. ASSUME NEW v \in Worker PROVE RunSees(proc[v])'
  BY <1>1 DEF RunSees, Deciding, Proc
<1>6. ASSUME NEW x \in Proc PROVE RefreshSees(x, proc[x])'
  BY <1>1 DEF RefreshSees
<1> QED BY <1>1, <1>4, <1>5, <1>6 DEF Core

\* createPlanAndExecute up to the order.
LEMMA CreatePlanCore == ASSUME IInv, Core, NEW w \in Proc, CreatePlan(w) PROVE Core'
<1>1. proc[w].pc = "plan" /\ Alone(w) /\ w \in Worker
  BY CreatePlanMoves, DecidersRun DEF Deciding
<1>2. UNCHANGED <<stored, orders, live, visible>>
  BY DEF CreatePlan, exchangeVars
<1>3. RunSees(proc[w]) /\ proc[w].pc \in Deciding /\ exec \in [Plan -> ExecType]
  BY <1>1 DEF Core, Deciding, IInv, TypeOK
<1>4. \A p \in Plan : ~Open(p)
  BY <1>1, <1>3 DEF RunSees
<1>5. CASE exec' = exec /\ proc'[w].pc = "idle"
  BY <1>1, <1>2, <1>3, <1>4, <1>5, ClosedCore DEF RunSees, RefreshSees, Reading, Deciding
<1>6. CASE /\ exec' = exec
           /\ proc'[w].pc = "place" /\ proc'[w].prev = proc[w].prev
           /\ proc'[w].expo = proc[w].expo /\ proc'[w].ordered = proc[w].ordered
           /\ proc'[w].guarding = proc[w].guarding
  <2>1. \A p \in Plan : ~Open(p)'
    BY <1>1, <1>2, <1>4, <1>6 DEF Open, BeingRecorded, At, Alone, Proc
  <2>2. RunSees(proc[w])'
    BY <1>1, <1>2, <1>3, <1>6, <2>1 DEF RunSees, Deciding
  <2> QED BY <1>1, <1>2, <1>3, <1>4, <1>6, <2>2, ClosedCore DEF RefreshSees, Reading
<1>7. ASSUME proc'[w].pc = "idle", NEW p \in Plan, exec[p].status = "none",
             exec' = [exec EXCEPT ![p] = Row("dry_run", 0, now + 1)]
      PROVE  Core'
  <2>1. \A q \in Plan : exec'[q] # exec[q] => exec'[q].status = "dry_run"
    BY <1>3, <1>7 DEF Row
  <2> QED BY <1>1, <1>2, <1>3, <1>4, <1>7, <2>1, ClosedCore DEF RunSees, RefreshSees, Reading, Deciding
<1>8. ASSUME NEW p \in Plan, exec' = exec, exec[p].status = "filled",
             proc'[w].pc = "refresh", proc'[w].plan = p, proc'[w].filled = exec[p].filled,
             proc'[w].guarding = proc[w].guarding, proc'[w].prev = proc[w].prev
      PROVE  Core'
  <2>1. \A q \in Plan : ~Open(q)'
    BY <1>1, <1>2, <1>4, <1>8 DEF Open, BeingRecorded, At, Alone, Proc
  <2>2. exec[p].filled = orders[p].filled
    BY <1>8 DEF IInv, RecordsAreTrue
  <2>3. ~proc[w].guarding /\ proc[w].prev = stored
    BY <1>1, <1>3 DEF RunSees
  <2>4. \A q \in Plan : exec[q].status # "submitted"
    BY <1>4 DEF Open
  <2>5. RefreshSees(w, proc[w])'
    BY <1>1, <1>2, <1>8, <2>1, <2>2, <2>3, <2>4 DEF RefreshSees
  <2>6. RunSees(proc[w])'
    BY <1>8 DEF RunSees, Deciding
  <2> QED BY <1>1, <1>2, <1>3, <1>4, <1>8, <2>5, <2>6, ClosedCore
<1> QED BY <1>5, <1>6, <1>7, <1>8, CreatePlanMoves

\* A run starts, stops or looks an order up.  One that stops before it has
\* recorded its order leaves an order behind that is damage once it fills.
LEMMA BeginCore ==
    ASSUME IInv, Core, ~Damaged', NEW w \in Proc,
           Begin(w) \/ TaskBegin(w) \/ FetchSubmitted(w) \/ FetchError(w) \/ Abort(w)
    PROVE  Core'
<1>1. UNCHANGED <<stored, exec, orders, live, visible>>
  BY DEF Begin, TaskBegin, FetchSubmitted, FetchError, Abort, dbVars, exchangeVars
<1>2. Alone(w) /\ proc'[w].pc \in {"idle", "guard", "fetch", "persist"}
  BY BeginMoves
<1>3. RunSees(proc[w])' /\ RefreshSees(w, proc[w])'
  BY <1>2 DEF RunSees, RefreshSees, Reading, Deciding
<1>4. CASE proc[w].pc # "record"
  BY <1>1, <1>2, <1>3, <1>4, QuietCore DEF Reading
<1>5. CASE proc[w].pc = "record"
  <2> DEFINE q == proc[w].plan
  <2>1. w \in Worker /\ q \in Plan /\ exec[q].status = "none" /\ proc[w].pc \in Deciding
    BY <1>5, DecidersRun, ProcFacts DEF Sound, Deciding
  <2>2. \A x \in Proc : x # w => /\ proc'[x] = proc[x] /\ proc'[x].pc \notin Reading
                                 /\ x \in Worker => proc'[x].pc = "idle"
    BY <1>2, <2>1, DeciderAlone, OneRun DEF Alone, Deciding
  <2>3. \A p : ~BeingRecorded(p)'
    BY <1>2, <2>2 DEF BeingRecorded, At, Proc
  <2>4. Open(q) /\ \A p \in Plan : Open(p) => p = q
    BY <1>5, <2>1 DEF Core, OneOpen, Open, BeingRecorded, At
  <2>5. \A p \in Plan : ~Open(p)'
    BY <1>1, <2>1, <2>3, <2>4 DEF Open
  <2>6. orders[q].status # "filled"
    BY <1>1, <2>1, <2>3 DEF Damaged
  <2>7. OneOpen' /\ PositionKnown' /\ OrdersFit'
    BY <1>1, <2>4, <2>5, <2>6 DEF Core, OneOpen, PositionKnown, OrdersFit
  <2>8. ASSUME NEW v \in Worker PROVE RunSees(proc[v])'
    BY <1>3, <2>2 DEF RunSees, Deciding, Proc
  <2>9. ASSUME NEW x \in Proc PROVE RefreshSees(x, proc[x])'
    BY <1>3, <2>2 DEF RefreshSees
  <2>10. \A x \in Proc : proc'[x].pc \notin Reading
    BY <1>2, <2>2 DEF Reading
  <2> QED BY <2>7, <2>8, <2>9, <2>10 DEF Core
<1> QED BY <1>4, <1>5

\* The order a run places fits the snapshot it was decided on: all of it can
\* fill, and that leaves a hedge within the cap.
LEMMA OrderFits ==
    ASSUME IInv, Core, Cfg.max > 0, NEW w \in Worker, proc[w].pc = "place"
    PROVE  LET o == OrderOf(w)
           IN  /\ o.qty \in Int /\ o.qty # 0 /\ stored.qty \in Int
               /\ FillOf(o, stored.qty) = o.qty
               /\ Abs(stored.qty + o.qty) <= Cfg.max
<1> DEFINE l == proc[w]
           o == OrderOf(w)
           d == DecisionOn(l.expo, l.prev)
           g == Goal(Cfg, l.expo.notional, l.prev.qty)
<1>1. /\ l \in ProcType /\ l.expo \in ExposureType /\ l.prev \in SnapshotType
      /\ d.action \in OrderActions /\ stored \in SnapshotType
  BY ProcFacts DEF Sound, ProcType, Proc
<1>2. l.prev = stored /\ l.ordered = OrderQuantity(d)
  BY DEF Core, RunSees
<1>3. o.qty = l.ordered /\ o.reduceOnly = d.reduceOnly
  BY OrderOfType DEF Proc
<1>4. /\ d.adjustment \in Int /\ d.adjustment # 0 /\ OrderQuantity(d) = d.adjustment
      /\ g \in Int /\ l.prev.qty + d.adjustment \in {0, g}
      /\ d.reduceOnly => /\ l.prev.qty # 0 /\ Sign(d.adjustment) # Sign(l.prev.qty)
                         /\ Abs(d.adjustment) <= Abs(l.prev.qty)
  BY <1>1, DecisionShape
<1>5. Cfg \in ConfigType /\ Cfg.max \in Int /\ l.expo.notional \in Int /\ stored.qty \in Int
  BY <1>1, Constants DEF ConfigType, ExposureType, SnapshotType
<1>6. Abs(g) <= Cfg.max
  BY <1>1, <1>2, <1>5, GoalWithinCap
<1> HIDE DEF d, g, o
<1>7. o.qty \in Int /\ o.qty # 0 /\ stored.qty + o.qty \in {0, g} /\ o.qty = d.adjustment
  BY <1>2, <1>3, <1>4
<1>8. Abs(stored.qty + o.qty) <= Cfg.max
  BY <1>5, <1>6, <1>7, <1>4 DEF Abs
<1>9. FillOf(o, stored.qty) = o.qty
  <2>1. CASE ~o.reduceOnly
    BY <2>1 DEF FillOf
  <2>2. CASE o.reduceOnly
    BY <1>2, <1>3, <1>4, <1>7, <2>2 DEF FillOf
  <2> QED BY <2>1, <2>2
<1> QED BY <1>5, <1>7, <1>8, <1>9 DEF o

\* PlaceOrder.
LEMMA PlaceOrderCore ==
    ASSUME IInv, Core, Cfg.max > 0, NEW w \in Proc, PlaceOrder(w) PROVE Core'
<1> DEFINE p == proc[w].plan
           o == OrderOf(w)
<1>1. /\ proc[w].pc = "place" /\ Alone(w) /\ w \in Worker
      /\ p \in Plan /\ exec[p].status = "none"
      /\ proc'[w].plan = p /\ proc'[w].prev = proc[w].prev
      /\ proc'[w].expo = proc[w].expo /\ proc'[w].ordered = proc[w].ordered
      /\ proc'[w].guarding = proc[w].guarding
  BY PlaceOrderMoves
<1>2. UNCHANGED <<stored, exec, visible>>
  BY DEF PlaceOrder, dbVars
<1>3. RunSees(proc[w]) /\ proc[w].pc \in Deciding
  BY <1>1 DEF Core, Deciding
<1>4. \A q \in Plan : ~Open(q)
  BY <1>1, <1>3 DEF RunSees
<1>5. CASE proc'[w].pc = "record_failed"
  <2>1. /\ live' = live
        /\ \A q \in Plan : orders'[q].status = "filled" => orders'[q] = orders[q]
    <3>1. CASE orders' = orders /\ live' = live
      BY <3>1
    <3>2. CASE /\ orders'[p].status = "submitted" /\ orders'[p].filled = 0
               /\ live' = live + orders'[p].filled
               /\ \A q \in Plan : q # p => orders'[q] = orders[q]
      BY <3>2, ProcFacts
    <3> QED BY <1>5, <3>1, <3>2, PlaceOrderMoves
  <2>2. \A q \in Plan : ~Open(q)'
    BY <1>1, <1>2, <1>4, <1>5 DEF Open, BeingRecorded, At, Alone, Proc
  <2>3. RunSees(proc[w])' /\ RefreshSees(w, proc[w])'
    BY <1>5, <2>2 DEF RunSees, RefreshSees, Reading
  <2> QED BY <1>1, <1>2, <1>3, <1>4, <1>5, <2>1, <2>3, ClosedCore
<1>6. CASE proc'[w].pc # "record_failed"
  <2>1. /\ proc'[w].pc = "record"
        /\ orders'[p].status \in {"submitted", "filled", "canceled"}
        /\ orders'[p].qty = o.qty /\ orders'[p].reduceOnly = o.reduceOnly
        /\ orders'[p].filled = IF orders'[p].status = "filled" THEN FillOf(o, live) ELSE 0
        /\ live' = live + orders'[p].filled
        /\ \A q \in Plan : q # p => orders'[q] = orders[q]
    BY <1>6, PlaceOrderMoves
  <2>2. /\ o.qty \in Int /\ o.qty # 0 /\ stored.qty \in Int
        /\ FillOf(o, stored.qty) = o.qty
        /\ Abs(stored.qty + o.qty) <= Cfg.max
    BY <1>1, OrderFits
  <2>3. live = stored.qty /\ visible = live
    BY <1>4 DEF Core, PositionKnown
  <2> HIDE DEF o, p
  <2>4. FillOf(orders'[p], stored.qty) = o.qty
    BY <2>1, <2>2 DEF FillOf
  <2>5. \A x \in Proc : x # w => /\ proc'[x] = proc[x] /\ proc'[x].pc \notin Reading
                                 /\ x \in Worker => proc'[x].pc = "idle"
    BY <1>1, <1>3, DeciderAlone, OneRun DEF Alone, Deciding
  <2>6. \A q : BeingRecorded(q)' <=> q = p
    BY <1>1, <2>1, <2>5 DEF BeingRecorded, At, Proc
  <2>7. \A q \in Plan : Open(q)' <=> q = p
    BY <1>2, <1>4, <2>6 DEF Open
  <2>8. OneOpen'
    BY <2>6, <2>7 DEF OneOpen
  <2>9. PositionKnown'
    <3>1. CASE orders'[p].status = "filled"
      <4>1. live' = stored.qty + orders'[p].filled
        BY <2>1, <2>3
      <4> QED BY <1>1, <1>2, <2>3, <2>7, <3>1, <4>1 DEF PositionKnown
    <3>2. CASE orders'[p].status # "filled"
      <4>1. live' = live
        BY <2>1, <2>2, <2>3, <3>2
      <4> QED BY <1>2, <2>3, <2>7, <3>2, <4>1 DEF PositionKnown
    <3> QED BY <3>1, <3>2
  <2>10. OrdersFit'
    <3>1. Abs(stored'.qty) <= Cfg.max
      BY <1>2 DEF Core, OrdersFit
    <3>2. \A q \in Plan : orders'[q].status = "filled"
                            => orders'[q].filled = orders'[q].qty /\ orders'[q].qty # 0
      BY <2>1, <2>2, <2>3 DEF Core, OrdersFit
    <3>3. \A q \in Plan : Open(q)' /\ orders'[q].status \in {"submitted", "filled"}
                            => /\ orders'[q].qty # 0
                               /\ FillOf(orders'[q], stored'.qty) = orders'[q].qty
                               /\ Abs(stored'.qty + orders'[q].qty) <= Cfg.max
      BY <1>2, <2>1, <2>2, <2>4, <2>7
    <3> QED BY <3>1, <3>2, <3>3 DEF OrdersFit
  <2>11. RunSees(proc[w])'
    BY <1>1, <1>2, <1>3, <2>1 DEF RunSees
  <2>12. ASSUME NEW v \in Worker PROVE RunSees(proc[v])'
    BY <2>5, <2>11 DEF RunSees, Deciding, Proc
  <2>13. \A x \in Proc : proc'[x].pc \notin Reading
    BY <2>1, <2>5 DEF Reading
  <2> QED BY <2>8, <2>9, <2>10, <2>12, <2>13 DEF Core, RefreshSees
<1> QED BY <1>5, <1>6

\* The state of the one open order after its row was written: whatever became of
\* it, the snapshot, the exchange and the other orders are as they were.
LEMMA WriteCore ==
    ASSUME IInv, Core, NEW w \in Proc, Alone(w), NEW p \in Plan, Open(p),
           UNCHANGED <<stored, orders, live, visible>>,
           \A q \in Plan : q # p => exec'[q] = exec[q],
           exec'[p].at = now + 1,
           exec'[p].status \in {"submitted", "filled"} \/ orders[p].status # "filled",
           proc'[w].pc # "record",
           \A q \in Plan : BeingRecorded(q) => q = p,
           \A v \in Worker : v # w => proc[v].pc \notin PastGuard,
           \A x \in Proc : x # w => proc[x].pc \notin Reading,
           w \in Worker => proc'[w].pc \in Reading \cup {"idle", "exposure"},
           proc'[w].pc = "exposure" => exec'[p].status \notin {"submitted", "filled"},
           RefreshSees(w, proc[w])'
    PROVE  Core'
<1>1. /\ exec \in [Plan -> ExecType] /\ now \in Nat /\ stored.at \in Nat
      /\ \A q \in Plan : exec[q].at \in Nat /\ exec[q].at <= now
      /\ stored.at < now + 1
  BY DEF IInv, TypeOK, Stamped, ExecType, SnapshotType
<1>2. \A q : ~BeingRecorded(q)'
  BY DEF BeingRecorded, At, Alone, Proc, PastGuard, Deciding
<1>3. \A q \in Plan : Open(q) => q = p
  BY DEF Core, OneOpen
<1>4. \A q \in Plan : Open(q)' => q = p
  BY <1>2, <1>3 DEF Open
<1>5. Open(p)' <=> exec'[p].status \in {"submitted", "filled"}
  BY <1>1, <1>2 DEF Open
<1>6. Newest(p)'
  BY <1>1 DEF Newest
<1>7. OneOpen'
  BY <1>4, <1>6 DEF OneOpen
<1>8. PositionKnown'
  <2>1. CASE orders[p].status = "filled"
    <3>1. live = stored.qty + orders[p].filled /\ visible \in {stored.qty, live}
      BY <1>3, <2>1 DEF Core, PositionKnown
    <3> QED BY <1>5, <2>1, <3>1 DEF PositionKnown
  <2>2. CASE orders[p].status # "filled"
    <3>1. live = stored.qty /\ visible = live
      BY <1>3, <2>2 DEF Core, PositionKnown
    <3> QED BY <1>4, <2>2, <3>1 DEF PositionKnown
  <2> QED BY <2>1, <2>2
<1>9. OrdersFit'
  BY <1>4 DEF Core, OrdersFit
<1>10. ASSUME NEW v \in Worker PROVE RunSees(proc[v])'
  <2>1. CASE v # w
    BY <2>1 DEF RunSees, PastGuard, Deciding, Alone, Proc
  <2>2. CASE v = w /\ proc'[w].pc = "exposure"
    BY <1>4, <1>5, <2>2 DEF RunSees
  <2>3. CASE v = w /\ proc'[w].pc # "exposure"
    BY <2>3 DEF RunSees, Reading, Deciding
  <2> QED BY <2>1, <2>2, <2>3
<1>11. ASSUME NEW x \in Proc PROVE RefreshSees(x, proc[x])'
  BY DEF RefreshSees, Alone
<1>12. \A x, y \in Proc : proc'[x].pc \in Reading /\ proc'[y].pc \in Reading => x = y
  BY DEF Alone
<1> QED BY <1>7, <1>8, <1>9, <1>10, <1>11, <1>12 DEF Core

\* The insert is refused: the order that was cancelled at once leaves no trace.
LEMMA RefusedCore ==
    ASSUME IInv, Core, NEW w \in Proc, RecordExecution(w) \/ RecordFailed(w), Refused(w)
    PROVE  Core'
<1> DEFINE p == proc[w].plan
<1>1. /\ Alone(w) /\ proc'[w].pc = "idle" /\ w \in Worker /\ proc[w].pc = "record" /\ p \in Plan
      /\ orders[p].status = "canceled"
      /\ UNCHANGED <<stored, exec, orders, live, visible>>
  BY RefusedMoves DEF Ends
<1> HIDE DEF p
<1>2. Open(p)
  BY <1>1 DEF Open, BeingRecorded, At, p
<1>3. \A q \in Plan : Open(q) => q = p
  BY <1>1, <1>2 DEF Core, OneOpen
<1>4. live = stored.qty /\ visible = live
  BY <1>1, <1>3 DEF Core, PositionKnown
<1>5. \A x \in Proc : x # w => /\ proc'[x] = proc[x] /\ proc'[x].pc \notin Reading
                               /\ x \in Worker => proc'[x].pc = "idle"
  BY <1>1, DeciderAlone, OneRun DEF Alone, Deciding
<1>6. \A q : ~BeingRecorded(q)'
  BY <1>1, <1>5 DEF BeingRecorded, At, Proc
<1>7. exec[p].status = "none"
  BY <1>1, ProcFacts DEF Sound, p
<1>8. \A q \in Plan : ~Open(q)'
  BY <1>1, <1>3, <1>6, <1>7 DEF Open
<1>9. OneOpen' /\ PositionKnown' /\ OrdersFit'
  BY <1>1, <1>4, <1>8 DEF OneOpen, PositionKnown, Core, OrdersFit
<1>10. \A x \in Proc : proc'[x].pc \notin Reading
  BY <1>1, <1>5 DEF Reading
<1>11. \A v \in Worker : proc'[v].pc = "idle"
  BY <1>1, <1>5 DEF Proc
<1>12. \A v \in Worker : RunSees(proc[v])'
  BY <1>11 DEF RunSees, Deciding
<1> QED BY <1>9, <1>10, <1>12 DEF Core, RefreshSees

\* createPlanAndExecute records the order it placed.
LEMMA RecordCore ==
    ASSUME IInv, PendInv, Core, NothingLate, NEW w \in Proc,
           RecordExecution(w) \/ RecordFailed(w), ~Refused(w)
    PROVE  Core'
<1>0. PICK p \in Plan : p = proc[w].plan
  BY RecordMoves
<1>1. PICK st \in ExecStatus, f \in Int :
           /\ proc[w].pc \in {"record", "record_failed"} /\ Alone(w)
           /\ p \in Plan /\ exec[p].status = "none" /\ w \in Worker
           /\ exec' = [exec EXCEPT ![p] = Row(st, f, now + 1)]
           /\ proc[w].pc = "record" => /\ Knows(proc[w])
                                       /\ st = proc[w].status /\ f = proc[w].filled
           /\ proc[w].pc = "record_failed" => st = "failed"
           /\ \/ /\ st = "filled" /\ proc[w].pc = "record"
                 /\ proc'[w].pc = "refresh" /\ proc'[w].plan = p
                 /\ proc'[w].filled = f /\ proc'[w].prev = proc[w].prev
                 /\ proc'[w].guarding = proc[w].guarding
              \/ st # "filled" /\ proc'[w].pc = "idle"
  BY <1>0, RecordMoves
<1>2. UNCHANGED <<stored, orders, live, visible>>
  BY DEF RecordExecution, RecordFailed, exchangeVars
<1> DEFINE r == Row(st, f, now + 1)
<1>3. r.status = st /\ r.at = now + 1 /\ r.filled = f
  BY DEF Row
<1> HIDE DEF r
<1>4. exec'[p] = r /\ \A q \in Plan : q # p => exec'[q] = exec[q]
  BY <1>1 DEF IInv, TypeOK, r
<1>5. RunSees(proc[w]) /\ proc[w].pc \in Deciding /\ proc[w].pc \in PastGuard
  BY <1>1 DEF Core, Deciding, PastGuard
<1>6. CASE proc[w].pc = "record_failed"
  <2>1. \A q \in Plan : ~Open(q)
    BY <1>5, <1>6 DEF RunSees
  <2>2. RunSees(proc[w])' /\ RefreshSees(w, proc[w])' /\ proc'[w].pc = "idle"
    BY <1>1, <1>6 DEF RunSees, RefreshSees, Reading, Deciding
  <2> QED BY <1>1, <1>2, <1>3, <1>4, <1>5, <1>6, <2>1, <2>2, ClosedCore
<1>7. CASE proc[w].pc = "record"
  <2>1. Open(p) /\ \A q : BeingRecorded(q) => q = p
    BY <1>0, <1>1, <1>7, RecordedBy DEF Open
  <2>2. \A q \in Plan : exec[q].status # "submitted"
    BY <1>1, <1>5 DEF PendInv
  <2>3. /\ orders[p].status = "filled" => st \in {"submitted", "filled"}
        /\ st = "filled" => f = orders[p].filled
    BY <1>0, <1>1, <1>7 DEF Knows, ProcType, OrderStatus, IInv, TypeOK
  <2>4. \A x \in Proc : x # w => proc[x].pc \notin Reading
    BY <1>1, <1>5, DeciderAlone
  <2>5. \A v \in Worker : v # w => proc[v].pc \notin PastGuard
    BY <1>1, <1>5, OneRun DEF PastGuard, Deciding, Reading
  <2>6. \A q \in Plan : Open(q)' => q = p
    <3>1. \A q \in Plan : Open(q) => q = p
      BY <1>1, <2>1 DEF Core, OneOpen
    <3>2. \A q : ~BeingRecorded(q)'
      BY <1>1, <2>5 DEF BeingRecorded, At, Alone, Proc, PastGuard, Deciding
    <3> QED BY <1>2, <1>4, <3>1, <3>2 DEF Open
  <2>7. RefreshSees(w, proc[w])'
    <3>1. CASE st = "filled"
      <4>1. stored.at < now + 1
        BY DEF IInv, TypeOK, Stamped, SnapshotType
      <4>2. Open(p)'
        BY <1>2, <1>3, <1>4, <3>1, <4>1 DEF Open
      <4>3. ~proc[w].guarding /\ proc[w].prev = stored
        BY <1>5, <1>7 DEF RunSees
      <4>4. \A q \in Plan : exec'[q].status # "submitted"
        BY <1>3, <1>4, <2>2, <3>1
      <4> QED BY <1>1, <1>2, <1>3, <1>4, <2>3, <2>6, <3>1, <4>2, <4>3, <4>4 DEF RefreshSees
    <3>2. CASE st # "filled"
      BY <1>1, <3>2 DEF RefreshSees, Reading
    <3> QED BY <3>1, <3>2
  <2>8. proc'[w].pc \in Reading \cup {"idle"}
    BY <1>1 DEF Reading
  <2> QED BY <1>1, <1>2, <1>3, <1>4, <2>1, <2>3, <2>4, <2>5, <2>7, <2>8, WriteCore DEF Reading
<1> QED BY <1>1, <1>6, <1>7

\* reconcileSubmittedOrder records what became of the open order.
LEMMA PersistCore ==
    ASSUME IInv, PendInv, Core, NothingLate, NothingLate', NEW w \in Proc, PersistReconciled(w)
    PROVE  Core'
<1>0. PICK p \in Plan : p = proc[w].plan
  BY PersistMoves
<1> DEFINE s == PersistedStatus(proc[w].status)
           late == exec[p].late \/ exec[p].status # "submitted"
           r == [status |-> s, at |-> now + 1, filled |-> proc[w].filled, late |-> late]
<1>1. /\ proc[w].pc = "persist" /\ Alone(w) /\ p \in Plan /\ Knows(proc[w])
      /\ exec' = [exec EXCEPT ![p] = r]
      /\ \/ /\ s = "filled" /\ proc'[w].pc = "previous" /\ proc'[w].since = now + 1
            /\ proc'[w].plan = p /\ proc'[w].filled = proc[w].filled
            /\ proc'[w].guarding = proc[w].guarding
         \/ s # "filled" /\ proc'[w].pc = "idle"
         \/ s \notin {"submitted", "filled"} /\ proc'[w].pc = "exposure"
  BY <1>0, PersistMoves
<1>2. UNCHANGED <<stored, orders, live, visible>>
  BY DEF PersistReconciled, exchangeVars
<1>3. /\ s = "filled" => orders[p].status = "filled" /\ proc[w].filled = orders[p].filled
      /\ orders[p].status = "filled" => s \in {"submitted", "filled"}
  <2>1. proc[w].status \in {"submitted", "filled", "canceled"}
    BY <1>1, ProcFacts DEF Knows, ProcType, OrderStatus
  <2> QED BY <1>0, <1>1, <2>1 DEF Knows, PersistedStatus
<1> HIDE DEF late, s
<1>4. r.status = s /\ r.at = now + 1 /\ r.late = late /\ r.filled = proc[w].filled
  OBVIOUS
<1> HIDE DEF r
<1>5. exec'[p] = r /\ \A q \in Plan : q # p => exec'[q] = exec[q]
  BY <1>1 DEF IInv, TypeOK
<1>6. exec[p].status = "submitted"
  <2>1. ~late
    BY <1>1, <1>4, <1>5 DEF NothingLate
  <2> QED BY <2>1 DEF late
<1>7. Open(p) /\ \A q \in Plan : Open(q) => q = p
  BY <1>1, <1>6 DEF Core, OneOpen, Open
<1>8. \A v \in Worker : proc[v].pc \notin PastGuard
  BY <1>1, <1>6 DEF PendInv
<1>9. \A x \in Proc : proc[x].pc \notin Reading
  BY <1>1, <1>6 DEF Core, RefreshSees
<1>10. \A q \in Plan : BeingRecorded(q) => q = p
  BY <1>7 DEF Open
<1>11. \A q : ~BeingRecorded(q)'
  BY <1>1, <1>8 DEF BeingRecorded, At, Alone, Proc, PastGuard, Deciding
<1>12. \A q \in Plan : Open(q)' => q = p
  BY <1>2, <1>5, <1>7, <1>11 DEF Open
<1>13. RefreshSees(w, proc[w])'
  <2>1. CASE s = "filled"
    <3>1. stored.at < now + 1
      BY DEF IInv, TypeOK, Stamped, SnapshotType
    <3>2. Open(p)'
      BY <1>2, <1>4, <1>5, <2>1, <3>1 DEF Open
    <3>3. \A q \in Plan : exec'[q].status # "submitted"
      BY <1>4, <1>5, <1>7, <2>1 DEF Open
    <3> QED BY <1>1, <1>2, <1>3, <1>4, <1>5, <1>12, <2>1, <3>2, <3>3 DEF RefreshSees
  <2>2. CASE s # "filled"
    BY <1>1, <2>2 DEF RefreshSees, Reading
  <2> QED BY <2>1, <2>2
<1>14. proc'[w].pc \in Reading \cup {"idle", "exposure"} /\ proc'[w].pc # "record"
  BY <1>1 DEF Reading
<1>15. /\ proc'[w].pc = "exposure" => s \notin {"submitted", "filled"}
       /\ s \in {"submitted", "filled"} \/ orders[p].status # "filled"
  BY <1>1, <1>3
<1> QED BY <1>1, <1>2, <1>4, <1>5, <1>7, <1>8, <1>9, <1>10, <1>13, <1>14, <1>15, WriteCore

\* The exchange: an order that fills unknown to the database, or partly, is
\* damage; any other one is the open order, which fits.
LEMMA ExchangeCore ==
    ASSUME IInv, Core, ~Damaged', NEW p \in Plan, ExchangeFill(p) \/ ExchangeCancel(p)
    PROVE  Core'
<1> DEFINE o == orders[p]
<1>1. /\ UNCHANGED <<stored, exec, visible, proc>>
      /\ o.status = "submitted" /\ o \in OrderType
      /\ orders \in [Plan -> OrderType] /\ live \in Int
  BY DEF ExchangeFill, ExchangeCancel, dbVars, IInv, TypeOK
<1>2. \A q : (BeingRecorded(q)' <=> BeingRecorded(q)) /\ (Open(q)' <=> Open(q))
  BY <1>1 DEF Open, BeingRecorded, At
<1>3. exec[p].status # "filled"
  BY <1>1 DEF IInv, RecordsAreTrue
<1>4. /\ orders'[p].qty = o.qty /\ orders'[p].reduceOnly = o.reduceOnly
      /\ orders'[p].status \in {"filled", "canceled"}
      /\ orders'[p].status = "filled" => orders'[p].filled = FillOf(o, live)
      /\ live' = live + orders'[p].filled
      /\ \A q \in Plan : q # p => orders'[q] = orders[q]
  <2>1. CASE ExchangeFill(p)
    <3> DEFINE f == FillOf(o, live)
    <3>1. orders' = [orders EXCEPT ![p].status = "filled", ![p].filled = f] /\ live' = live + f
      BY <2>1 DEF ExchangeFill
    <3> HIDE DEF f
    <3> QED BY <1>1, <3>1 DEF OrderType, f
  <2>2. CASE ExchangeCancel(p)
    <3>1. PICK f : /\ orders' = [orders EXCEPT ![p].status = "canceled", ![p].filled = f]
                   /\ live' = live + f
      BY <2>2 DEF ExchangeCancel
    <3> QED BY <1>1, <3>1 DEF OrderType
  <2> QED BY <2>1, <2>2
<1>5. OneOpen'
  BY <1>1, <1>2 DEF Core, OneOpen, Newest
<1>6. ASSUME NEW v \in Worker PROVE RunSees(proc[v])'
  <2>1. RunSees(proc[v])
    BY DEF Core
  <2> QED BY <1>1, <1>2, <2>1 DEF RunSees
<1>7. ASSUME NEW x \in Proc PROVE RefreshSees(x, proc[x])'
  <2>1. RefreshSees(x, proc[x]) /\ (proc[x].pc \in Reading => proc[x].plan \in Plan)
    BY ProcFacts DEF Core, Sound
  <2>2. proc[x].pc \in Reading => orders'[proc[x].plan] = orders[proc[x].plan]
    BY <1>3, <1>4, <2>1 DEF RefreshSees
  <2> QED BY <1>1, <1>2, <2>1, <2>2 DEF RefreshSees
<1>8. \A x, y \in Proc : proc'[x].pc \in Reading /\ proc'[y].pc \in Reading => x = y
  BY <1>1 DEF Core
<1>9. PositionKnown' /\ OrdersFit'
  <2>1. CASE orders'[p].status = "canceled"
    <3>1. live' = live
      BY <1>1, <1>4, <2>1 DEF Damaged
    <3>2. PositionKnown'
      BY <1>1, <1>2, <1>4, <2>1, <3>1 DEF Core, PositionKnown
    <3>3. OrdersFit'
      BY <1>1, <1>2, <1>4, <2>1 DEF Core, OrdersFit
    <3> QED BY <3>2, <3>3
  <2>2. CASE orders'[p].status = "filled"
    <3>1. Open(p)
      BY <1>1, <1>2, <1>3, <2>2 DEF Damaged, Open
    <3>2. live = stored.qty /\ visible = live
      BY <1>1, <3>1 DEF Core, OneOpen, PositionKnown
    <3>3. o.qty # 0 /\ FillOf(o, stored.qty) = o.qty /\ Abs(stored.qty + o.qty) <= Cfg.max
      BY <1>1, <3>1 DEF Core, OrdersFit
    <3>4. orders'[p].filled = o.qty
      BY <1>4, <2>2, <3>2, <3>3
    <3> HIDE DEF o
    <3>5. PositionKnown'
      BY <1>1, <1>2, <1>4, <2>2, <3>1, <3>2, <3>4 DEF PositionKnown
    <3>6. FillOf(orders'[p], stored.qty) = o.qty
      BY <1>4, <3>3 DEF FillOf
    <3>7. \A q \in Plan : Open(q) => q = p
      BY <3>1 DEF Core, OneOpen
    <3>8. OrdersFit'
      BY <1>1, <1>2, <1>4, <3>3, <3>4, <3>6, <3>7 DEF Core, OrdersFit
    <3> QED BY <3>5, <3>8
  <2> QED BY <1>4, <2>1, <2>2
<1> QED BY <1>5, <1>6, <1>7, <1>8, <1>9 DEF Core

\* The position endpoint catches up.  A refresh that read it before holds the
\* snapshot's quantity.
LEMMA PublishCore == ASSUME Core, ExchangePublish PROVE Core'
<1>1. /\ UNCHANGED <<stored, exec, orders, live, proc>> /\ visible' = live /\ visible # live
  BY DEF ExchangePublish, dbVars
<1>2. \A q : (BeingRecorded(q)' <=> BeingRecorded(q)) /\ (Open(q)' <=> Open(q))
  BY <1>1 DEF Open, BeingRecorded, At
<1>3. visible = stored.qty
  BY <1>1 DEF Core, PositionKnown
<1>4. OneOpen' /\ PositionKnown'
  BY <1>1, <1>2 DEF Core, OneOpen, PositionKnown, Newest
<1>5. OrdersFit'
  BY <1>1, <1>2 DEF Core, OrdersFit
<1>6. ASSUME NEW v \in Worker PROVE RunSees(proc[v])'
  <2>1. RunSees(proc[v])
    BY DEF Core
  <2> QED BY <1>1, <1>2, <2>1 DEF RunSees
<1>7. ASSUME NEW x \in Proc PROVE RefreshSees(x, proc[x])'
  <2>1. RefreshSees(x, proc[x])
    BY DEF Core
  <2> QED BY <1>1, <1>2, <1>3, <2>1 DEF RefreshSees
<1>8. \A x, y \in Proc : proc'[x].pc \in Reading /\ proc'[y].pc \in Reading => x = y
  BY <1>1 DEF Core
<1> QED BY <1>4, <1>5, <1>6, <1>7, <1>8 DEF Core

\* A step that touches nothing Core speaks of.
LEMMA SameCore ==
    ASSUME Core, UNCHANGED <<stored, exec, orders, live, visible, proc>> PROVE Core'
<1>2. \A q : (BeingRecorded(q)' <=> BeingRecorded(q)) /\ (Open(q)' <=> Open(q))
  BY DEF Open, BeingRecorded, At
<1>4. OneOpen' /\ PositionKnown'
  BY <1>2 DEF Core, OneOpen, PositionKnown, Newest
<1>5. OrdersFit'
  BY <1>2 DEF Core, OrdersFit
<1>6. ASSUME NEW v \in Worker PROVE RunSees(proc[v])'
  <2>1. RunSees(proc[v])
    BY DEF Core
  <2> QED BY <1>2, <2>1 DEF RunSees
<1>7. ASSUME NEW x \in Proc PROVE RefreshSees(x, proc[x])'
  <2>1. RefreshSees(x, proc[x])
    BY DEF Core
  <2> QED BY <1>2, <2>1 DEF RefreshSees
<1>8. \A x, y \in Proc : proc'[x].pc \in Reading /\ proc'[y].pc \in Reading => x = y
  BY DEF Core
<1> QED BY <1>4, <1>5, <1>6, <1>7, <1>8 DEF Core

\* Every step keeps the relation between snapshot and position, unless it does
\* damage.
LEMMA NextCore ==
    ASSUME {"manual", "sync"} \cap Environment = {}, Cfg.max > 0
    PROVE  IInv /\ PendInv /\ CoreInv /\ [Next]_vars => CoreInv'
<1> SUFFICES ASSUME IInv, PendInv, CoreInv, [Next]_vars PROVE CoreInv'
  OBVIOUS
<1>0. "manual" \notin Environment /\ "sync" \notin Environment
  OBVIOUS
<1>1. ~SyncFetch /\ ~SyncWrite
  BY <1>0 DEF SyncFetch, SyncWrite, Can, CoreInv
<1>2. sync' = sync
  BY <1>1 DEF Next, ProcStep, Begin, BeginManual, TaskBegin, Abort, Guard, FetchSubmitted, FetchError,
     PersistReconciled, LoadPrevious, RefreshFetch, RefreshWrite, RefreshError, GuardPosition,
     ReadExposure, ReadPosition, CreatePlan, PlaceOrder, RecordExecution, RecordFailed, ExposureSync,
     ExchangeFill, ExchangeCancel, StrayEnds, ExchangePublish, vars
<1> SUFFICES ASSUME ~Damaged' PROVE Core'
  BY <1>2 DEF CoreInv
<1>3. ~Damaged /\ Core /\ NothingLate /\ NothingLate'
  BY <1>0, DamageStays DEF CoreInv, Damaged
<1>4. ASSUME NEW w \in Proc, ProcStep(w) PROVE Core'
  <2>1. CASE RefreshError(w)
    BY <1>3, <2>1, RefreshEndCore DEF RefreshError, Reading, dbVars, exchangeVars
  <2> QED BY <1>3, <1>4, <2>1, GuardCore, BeginCore, PersistCore, RefreshReadCore,
             RefreshWriteCore, ReadCore, CreatePlanCore, PlaceOrderCore, RecordCore, RefusedCore DEF ProcStep
<1>5. ASSUME NEW w \in Proc, Begin(w) \/ BeginManual(w) \/ TaskBegin(w) \/ Abort(w) PROVE Core'
  BY <1>0, <1>3, <1>5, BeginCore DEF BeginManual, Can
<1>6. ASSUME NEW p \in Plan, ExchangeFill(p) \/ ExchangeCancel(p) PROVE Core'
  BY <1>3, <1>6, ExchangeCore
<1>7. CASE ExchangePublish
  BY <1>3, <1>7, PublishCore
<1>8. CASE ExposureSync \/ UNCHANGED vars
  BY <1>3, <1>8, SameCore DEF ExposureSync, vars, dbVars, exchangeVars
<1>9. ASSUME NEW p \in Plan, StrayEnds(p) PROVE FALSE
  BY <1>3, <1>9 DEF StrayEnds, Damaged
<1> QED BY <1>1, <1>4, <1>5, <1>6, <1>7, <1>8, <1>9 DEF Next

\* At the start nothing is open and the hedge is flat.
LEMMA InitCore == ASSUME Cfg.max > 0 PROVE Init => CoreInv /\ PendInv
<1> SUFFICES ASSUME Init PROVE CoreInv /\ PendInv
  OBVIOUS
<1>1. /\ \A p \in Plan : exec[p].status = "none" /\ orders[p].status = "none"
      /\ \A x \in Proc : proc[x].pc = "idle"
      /\ live = 0 /\ visible = 0 /\ stored.qty = 0 /\ sync.pc = "idle"
  BY DEF Init, NoExec, NoOrderYet, Idle, NoSnapshot
<1>2. \A p \in Plan : ~Open(p)
  BY <1>1 DEF Open, BeingRecorded, At, Proc
<1>3. Abs(stored.qty) <= Cfg.max
  <2>1. Cfg.max \in Int
    BY Constants DEF ConfigType
  <2> QED BY <1>1, <2>1 DEF Abs
<1>4. OneOpen /\ PositionKnown /\ OrdersFit
  BY <1>1, <1>2, <1>3 DEF OneOpen, PositionKnown, OrdersFit
<1>5. PendInv
  BY <1>1 DEF PendInv
<1>6. Core
  BY <1>1, <1>4 DEF Core, RunSees, RefreshSees, Reading, Deciding, Proc
<1> QED BY <1>1, <1>5, <1>6 DEF CoreInv

\* The records are true and complete, so nothing is damaged.
LEMMA AccountedMeansCore ==
    ASSUME CoreInv, NothingLate, \A p \in Plan : ~Unaccounted(p)
    PROVE  Core
BY DEF CoreInv, Damaged, Unaccounted, Misrecorded

\* Lock, guard and idempotent plans keep the hedge within MaxNotionalUSDT: for
\* any number of workers and reconciliation tasks, and through crashes, lost
\* answers, cancellations and a lagging position endpoint, as long as every run
\* asks the guard, only refreshes write the snapshot, and the records are true.
THEOREM CapKept ==
    ASSUME {"manual", "sync"} \cap Environment = {}, Cfg.max > 0
    PROVE  Spec => []CapUnlessUnaccounted
<1>1. IInv /\ CoreInv => CapUnlessUnaccounted
  <2> SUFFICES ASSUME IInv, CoreInv, NothingLate, \A p \in Plan : ~Unaccounted(p)
               PROVE  WithinCap
    BY DEF CapUnlessUnaccounted
  <2>1. Core
    BY AccountedMeansCore
  <2>2. stored.qty \in Int /\ orders \in [Plan -> OrderType]
    BY DEF IInv, TypeOK, SnapshotType
  <2>3. Abs(live) <= Cfg.max
    BY <2>1, <2>2 DEF Core, PositionKnown, OrdersFit
  <2>4. ASSUME NEW p \in Plan, orders[p].status = "submitted"
        PROVE  Abs(live + FillOf(orders[p], live)) <= Cfg.max
    <3>1. Open(p)
      BY <2>4 DEF Unaccounted, Misrecorded, Open, IInv, RecordsAreTrue
    <3>2. live = stored.qty
      BY <2>1, <2>4, <3>1 DEF Core, OneOpen, PositionKnown
    <3> QED BY <2>1, <2>4, <3>1, <3>2 DEF Core, OrdersFit
  <2> QED BY <2>3, <2>4 DEF WithinCap
<1>2. IInv /\ PendInv /\ CoreInv /\ [Next]_vars => PendInv' /\ CoreInv'
  BY NextPend, NextCore
<1>3. Init => PendInv /\ CoreInv
  BY InitCore
<1> QED BY <1>1, <1>2, <1>3, InitInv, NextInv, PTL DEF Spec

\* A snapshot the guard takes for newer than the latest fill shows the position
\* the account has, under the same assumptions.
THEOREM FreshSnapshots ==
    ASSUME {"manual", "sync"} \cap Environment = {}, Cfg.max > 0
    PROVE  Spec => []FreshMeansReflected
<1>1. IInv /\ CoreInv => FreshMeansReflected
  <2> SUFFICES ASSUME IInv, CoreInv, Latest # 0, Settled, NothingLate,
                      \A q \in Plan : ~Unaccounted(q), stored.at >= exec[Latest].at
               PROVE  stored.qty = live
    BY DEF FreshMeansReflected
  <2>1. Core
    BY AccountedMeansCore
  <2> SUFFICES ASSUME NEW q \in Plan, Open(q), orders[q].status = "filled" PROVE FALSE
    BY <2>1 DEF Core, PositionKnown
  <2>2. exec[q].status = "filled"
    BY DEF Settled, PersistedStatus, IInv, TypeOK, ExecType, ExecStatus
  <2>3. ~BeingRecorded(q)
    BY <2>2, ProcFacts DEF BeingRecorded, At, Sound, Proc
  <2>4. stored.at < exec[q].at
    BY <2>2, <2>3 DEF Open
  <2>5. Latest \in Plan /\ exec[q].at <= exec[Latest].at
    BY <2>2, LatestFacts
  <2>6. stored.at \in Nat /\ exec[q].at \in Nat /\ exec[Latest].at \in Nat
    BY <2>5 DEF IInv, TypeOK, SnapshotType, ExecType
  <2> QED BY <2>4, <2>5, <2>6
<1>2. IInv /\ PendInv /\ CoreInv /\ [Next]_vars => PendInv' /\ CoreInv'
  BY NextPend, NextCore
<1>3. Init => PendInv /\ CoreInv
  BY InitCore
<1> QED BY <1>1, <1>2, <1>3, InitInv, NextInv, PTL DEF Spec
==============================================================================
