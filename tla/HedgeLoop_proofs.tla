-------------------------- MODULE HedgeLoop_proofs ---------------------------
(***************************************************************************)
(* Proofs about the closed loop, for any configurations the database       *)
(* accepts and any exposures, prices and bounds.                           *)
(***************************************************************************)
EXTENDS HedgeLoop, HedgeCalculator_proofs
------------------------------------------------------------------------------
(* The loop *)

\* Initially the hedge is empty, valued at the current price.
LEMMA InitIInv == Init => IInv
BY LoopAssumption DEF Init, IInv, TypeOK, Snapshot

\* What the exchange fills of an order is a number: whole lots, in the order's
\* direction, and of a reduce-only order at most the position.
LEMMA FillShape ==
    ASSUME NEW d, NEW q \in Int, d.quantity.num \in Nat, d.quantity.den \in Nat \ {0}
    PROVE  LET lots == d.quantity.num \div d.quantity.den
               f    == FillQuantity(d, q)
           IN  /\ lots \in Nat
               /\ f \in Int
               /\ ~d.reduceOnly => f = IF d.side = "BUY" THEN lots ELSE -lots
               /\ d.reduceOnly => /\ q >= 0 => q + f >= 0 /\ q + f <= q
                                  /\ q <= 0 => q + f <= 0 /\ q + f >= q
<1> DEFINE lots == d.quantity.num \div d.quantity.den
<1>1. lots \in Nat
  BY WholeLots
<1> HIDE DEF lots
<1> QED BY <1>1 DEF FillQuantity, Sign, Abs, lots

\* What the invariant says of the numbers a decision is made from.
LEMMA LoopFacts ==
    ASSUME IInv
    PROVE  /\ cfg \in ConfigType /\ cfg.min > 0 /\ cfg.ratio >= 0
           /\ mark \in Nat \ {0} /\ position.mark \in Nat \ {0}
           /\ position.quantity \in Int /\ position.notional \in Int
           /\ position.notional = position.quantity * position.mark
           /\ Notional \in Int
<1>1. mark \in Nat \ {0} /\ position.mark \in Nat \ {0} /\ exposure \in Int
  BY LoopAssumption DEF IInv, TypeOK
<1>2. Notional \in Int
  BY <1>1 DEF Notional
<1> QED BY <1>1, <1>2 DEF IInv, TypeOK

\* The facts every proof about an automatic order starts from: it takes the
\* position towards zero and not past it, or it moves the position away from
\* zero by whole lots worth at most the adjustment.
LEMMA RunOrderMoves ==
    ASSUME IInv, NEW reason \in Reasons, RunOrder(reason)
    PROVE  LET q   == position.quantity
               r   == position'.quantity
               adj == Goal(cfg, Notional, position.notional) - position.notional
           IN  /\ r \in Int /\ position' = Snapshot(r, mark)
               /\ \/ q >= r /\ r >= 0
                  \/ q <= r /\ r <= 0
                  \/ position.notional >= 0 /\ q >= 0 /\ r >= q /\ (r - q) * mark <= adj
                  \/ position.notional <= 0 /\ q <= 0 /\ r <= q /\ (q - r) * mark <= -adj
<1> DEFINE c   == CalculationConfigForRun(cfg, reason)
           d   == Calculate(c, Notional, mark, position)
           q   == position.quantity
           cur == position.notional
           adj == Goal(cfg, Notional, cur) - cur
           phase == Phase(c, Notional, cur)
           lots == d.quantity.num \div d.quantity.den
<1>1. /\ cfg \in ConfigType /\ cfg.min > 0
      /\ mark \in Nat \ {0} /\ position.mark \in Nat \ {0}
      /\ q \in Int /\ cur \in Int /\ cur = q * position.mark
      /\ Notional \in Int
  BY LoopFacts
<1>2. c \in ConfigType /\ c.min > 0 /\ adj = Goal(c, Notional, cur) - cur
  BY <1>1, RunConfig
<1>3. d.action \in {"open", "rebalance", "exit"}
  BY DEF RunOrder, Decision
<1>4. /\ adj \in Int
      /\ \/ cur # 0 /\ d = FlipClose(phase, position, mark)
         \/ d = Adjust(phase, cur, adj, mark) /\ ~WouldFlipPosition(cur, adj)
  BY <1>1, <1>2, <1>3, OrderShape
<1>5. /\ cur > 0 <=> q > 0
      /\ cur < 0 <=> q < 0
      /\ cur = 0 <=> q = 0
  BY <1>1, ProductSign
<1>6. d.quantity.num \in Nat /\ d.quantity.den \in Nat \ {0}
  <2>1. CASE cur # 0 /\ d = FlipClose(phase, position, mark)
    BY <2>1, <1>1, <1>5, AbsType DEF FlipClose, Whole
  <2>2. CASE d = Adjust(phase, cur, adj, mark)
    BY <2>2, <1>1, <1>4, AbsType DEF Adjust
  <2> QED BY <1>4, <2>1, <2>2
<1>7. position' = Snapshot(q + FillQuantity(d, q), mark) /\ FillQuantity(d, q) \in Int
  BY <1>1, <1>6, FillShape DEF RunOrder, Decision
<1>8. position'.quantity = q + FillQuantity(d, q) /\ position'.quantity \in Int
  BY <1>1, <1>7 DEF Snapshot
<1>9. CASE d.reduceOnly
  <2>1. \/ q >= position'.quantity /\ position'.quantity >= 0
        \/ q <= position'.quantity /\ position'.quantity <= 0
    BY <1>1, <1>6, <1>7, <1>8, <1>9, FillShape
  <2> QED BY <1>7, <1>8, <2>1
<1>10. CASE ~d.reduceOnly
  <2>1. d = Adjust(phase, cur, adj, mark) /\ ~WouldFlipPosition(cur, adj)
    BY <1>4, <1>10 DEF FlipClose
  <2>2. /\ ~ShouldReduceOnly(cur, adj) /\ d.side = SideOf(adj)
        /\ lots = Abs(adj) \div mark
    BY <1>10, <2>1 DEF Adjust
  <2>3. cur = 0 \/ Sign(cur) = Sign(adj)
    BY <1>1, <1>4, <2>1, <2>2, AbsType DEF WouldFlipPosition, ShouldReduceOnly
  <2>4. lots \in Nat /\ lots * mark <= Abs(adj)
    BY <1>1, <1>4, <2>2, AbsType, WholeLots
  <2>5. FillQuantity(d, q) = IF d.side = "BUY" THEN lots ELSE -lots
    BY <1>1, <1>6, <1>10, FillShape
  <2> HIDE DEF lots, d, adj, cur, q
  <2>6. CASE adj > 0
    <3>1. cur >= 0 /\ q >= 0 /\ d.side = "BUY"
      BY <1>1, <1>4, <1>5, <2>2, <2>3, <2>6 DEF Sign, SideOf
    <3>2. position'.quantity - q = lots /\ Abs(adj) = adj
      BY <1>1, <1>8, <2>4, <2>5, <2>6, <3>1, <1>4 DEF Abs
    <3>3. position'.quantity >= q /\ (position'.quantity - q) * mark <= adj
      BY <1>1, <1>8, <2>4, <3>2
    <3> QED BY <1>7, <1>8, <3>1, <3>3 DEF cur, q, adj
  <2>7. CASE ~(adj > 0)
    <3>1. cur <= 0 /\ q <= 0 /\ d.side = "SELL"
      BY <1>1, <1>4, <1>5, <2>2, <2>3, <2>7 DEF Sign, SideOf
    <3>2. q - position'.quantity = lots /\ Abs(adj) = -adj
      BY <1>1, <1>8, <2>4, <2>5, <2>7, <3>1, <1>4 DEF Abs
    <3>3. position'.quantity <= q /\ (q - position'.quantity) * mark <= -adj
      BY <1>1, <1>8, <2>4, <3>2
    <3> QED BY <1>7, <1>8, <3>1, <3>3 DEF cur, q, adj
  <2> QED BY <2>6, <2>7
<1> QED BY <1>9, <1>10

\* The same of a manual close, which only shrinks the position.
LEMMA ManualCloseMoves ==
    ASSUME IInv, ManualClose
    PROVE  LET q == position.quantity
               r == position'.quantity
           IN  /\ r \in Int /\ position' = Snapshot(r, mark)
               /\ q >= 0 => 0 <= r /\ r <= q
               /\ q <= 0 => q <= r /\ r <= 0
<1> DEFINE d == ClosePosition(position)
           q == position.quantity
<1>1. /\ mark \in Nat \ {0} /\ position.mark \in Nat \ {0}
      /\ q \in Int /\ position.notional = q * position.mark
  BY LoopAssumption DEF IInv, TypeOK
<1>2. d.action = "exit"
  BY DEF ManualClose
<1>3. q # 0
  BY <1>1, <1>2 DEF ClosePosition, CloseNotional, NoOrder
<1>4. d.quantity = Whole(Abs(q)) /\ d.reduceOnly = TRUE
  BY <1>2, <1>3 DEF ClosePosition, NoOrder
<1>5. d.quantity.num \in Nat /\ d.quantity.den \in Nat \ {0}
  BY <1>1, <1>4, AbsType DEF Whole
<1>6. /\ position' = Snapshot(q + FillQuantity(d, q), mark)
      /\ position'.quantity = q + FillQuantity(d, q)
  BY DEF ManualClose, Snapshot
<1> QED BY <1>1, <1>4, <1>5, <1>6, FillShape

\* Every step keeps the inductive invariant.
LEMMA NextIInv == IInv /\ [Next]_vars => IInv'
<1> SUFFICES ASSUME IInv, [Next]_vars PROVE IInv'
  OBVIOUS
<1>1. ASSUME NEW r \in Int, position' = Snapshot(r, mark), orders' \in Nat,
             UNCHANGED <<cfg, exposure, mark>>
      PROVE  IInv'
  BY <1>1, LoopAssumption DEF IInv, TypeOK, Snapshot
<1>2. ASSUME NEW reason \in Reasons, RunOrder(reason) PROVE IInv'
  <2>1. orders' \in Nat /\ UNCHANGED <<cfg, exposure, mark>>
    BY <1>2 DEF RunOrder, IInv, TypeOK
  <2> QED BY <1>1, <1>2, <2>1, RunOrderMoves
<1>3. CASE ManualClose
  BY <1>1, <1>3, ManualCloseMoves DEF ManualClose
<1>4. CASE Revalue
  BY <1>1, <1>4 DEF Revalue, IInv, TypeOK
<1>5. CASE ExposureMoves
  BY <1>5 DEF ExposureMoves, IInv, TypeOK
<1>6. CASE MarkMoves
  BY <1>6 DEF MarkMoves, IInv, TypeOK
<1>7. CASE RatioChanges
  BY <1>7, LoopAssumption DEF RatioChanges, IInv, TypeOK, ConfigType
<1>8. CASE UNCHANGED vars
  BY <1>8 DEF vars, IInv, TypeOK
<1> QED BY <1>2, <1>3, <1>4, <1>5, <1>6, <1>7, <1>8 DEF Next

\* Snapshots stay valued at their own price and the configuration stays valid.
THEOREM LoopInvariant == Spec => []IInv
BY InitIInv, NextIInv, PTL DEF Spec
------------------------------------------------------------------------------
(* Theorems *)

\* No order, however stale the prices it was sized with, takes the hedge from
\* one side of zero to the other.
THEOREM LoopNeverFlips == Spec => NeverFlips
<1>1. IInv /\ [Next]_vars => [position'.quantity * position.quantity >= 0]_position
  <2> SUFFICES ASSUME IInv, [Next]_vars, position' # position
               PROVE  position'.quantity * position.quantity >= 0
    OBVIOUS
  <2> DEFINE q == position.quantity
             r == position'.quantity
  <2>1. q \in Int
    BY LoopFacts
  <2>2. r \in Int /\ ((q >= 0 /\ r >= 0) \/ (q <= 0 /\ r <= 0))
    <3>1. ASSUME NEW reason \in Reasons, RunOrder(reason) PROVE <2>2!:
      BY <3>1, <2>1, RunOrderMoves
    <3>2. CASE ManualClose
      BY <3>2, <2>1, ManualCloseMoves
    <3>3. CASE Revalue
      BY <3>3, <2>1 DEF Revalue, Snapshot
    <3> QED BY <3>1, <3>2, <3>3 DEF Next, ExposureMoves, MarkMoves, RatioChanges, vars
  <2> HIDE DEF q, r
  <2>3. r * q >= 0
    BY <2>1, <2>2
  <2> QED BY <2>3 DEF q, r
<1> QED BY <1>1, LoopInvariant, PTL DEF Spec, NeverFlips

\* An order sized with current prices leaves the hedge within MaxNotionalUSDT,
\* or smaller than it was.
THEOREM LoopCapRespected == Spec => CapRespected
<1>1. IInv /\ [Next]_vars
        => [FreshlyValued /\ mark' = mark /\ cfg.max > 0 /\ position' # position
              => \/ Abs(position'.notional) <= cfg.max
                 \/ Abs(position'.notional) < Abs(position.notional)]_vars
  <2> SUFFICES ASSUME IInv, [Next]_vars, FreshlyValued, cfg.max > 0, position' # position
               PROVE  \/ Abs(position'.notional) <= cfg.max
                      \/ Abs(position'.notional) < Abs(position.notional)
    OBVIOUS
  <2> DEFINE q    == position.quantity
             r    == position'.quantity
             cur  == position.notional
             goal == Goal(cfg, Notional, cur)
  <2>1. /\ q \in Int /\ cur \in Int /\ cur = q * mark
        /\ mark \in Nat \ {0}
        /\ cfg \in ConfigType /\ Notional \in Int
        /\ position = Snapshot(q, mark)
    <3>1. position = Snapshot(q, position.mark)
      BY DEF IInv, TypeOK, Snapshot
    <3> QED BY <3>1, LoopFacts DEF FreshlyValued
  <2>2. goal \in Int /\ Abs(goal) <= cfg.max /\ cfg.max \in Int
    BY <2>1, GoalWithinCap DEF ConfigType
  <2>3. /\ r \in Int /\ position' = Snapshot(r, mark)
        /\ \/ q >= r /\ r >= 0
           \/ q <= r /\ r <= 0
           \/ cur >= 0 /\ q >= 0 /\ r >= q /\ (r - q) * mark <= goal - cur
           \/ cur <= 0 /\ q <= 0 /\ r <= q /\ (q - r) * mark <= -(goal - cur)
    <3>1. ASSUME NEW reason \in Reasons, RunOrder(reason) PROVE <2>3!:
      BY <3>1, RunOrderMoves
    <3>2. CASE ManualClose
      BY <3>2, <2>1, ManualCloseMoves
    <3>3. ~Revalue
      BY DEF Revalue
    <3> QED BY <3>1, <3>2, <3>3 DEF Next, ExposureMoves, MarkMoves, RatioChanges, vars
  <2>4. r # q /\ position'.notional = r * mark
    BY <2>1, <2>3 DEF Snapshot
  <2> HIDE DEF q, r, cur, goal
  <2>5. CASE (q >= r /\ r >= 0) \/ (q <= r /\ r <= 0)
    <3>1. \/ r * mark >= 0 /\ r * mark < q * mark
          \/ r * mark <= 0 /\ r * mark > q * mark
      BY <2>1, <2>3, <2>4, <2>5, ProductOrder, ProductSign
    <3>2. r * mark \in Int
      BY <2>1, <2>3
    <3> QED BY <2>1, <2>4, <3>1, <3>2 DEF Abs, cur
  <2>6. CASE cur >= 0 /\ q >= 0 /\ r >= q /\ (r - q) * mark <= goal - cur
    <3>1. r * mark \in Int /\ r * mark >= 0 /\ (r - q) * mark = r * mark - q * mark
      BY <2>1, <2>3, <2>6, ProductSum, ProductSign
    <3> QED BY <2>1, <2>2, <2>4, <2>6, <3>1 DEF Abs
  <2>7. CASE cur <= 0 /\ q <= 0 /\ r <= q /\ (q - r) * mark <= -(goal - cur)
    <3>1. r * mark \in Int /\ r * mark <= 0 /\ (q - r) * mark = q * mark - r * mark
      BY <2>1, <2>3, <2>7, ProductSum, ProductSign
    <3> QED BY <2>1, <2>2, <2>4, <2>7, <3>1 DEF Abs
  <2> QED BY <2>3, <2>5, <2>6, <2>7
<1> QED BY <1>1, LoopInvariant, PTL DEF Spec, CapRespected

\* In every reachable state, the orders a run would mark reduce-only are exactly
\* those that shrink the hedge.
THEOREM LoopReduceOnly == Spec => []ReduceOnlyIffShrinks
<1>1. IInv => ReduceOnlyIffShrinks
  <2> SUFFICES ASSUME IInv, NEW reason \in Reasons,
                      Decision(reason).action \in {"open", "rebalance", "exit"}
               PROVE  Decision(reason).reduceOnly
                        <=> Abs(position.notional + Decision(reason).adjustment)
                              < Abs(position.notional)
    BY DEF ReduceOnlyIffShrinks
  <2> DEFINE c     == CalculationConfigForRun(cfg, reason)
             d     == Calculate(c, Notional, mark, position)
             cur   == position.notional
             adj   == Goal(c, Notional, cur) - cur
             phase == Phase(c, Notional, cur)
  <2>1. c \in ConfigType /\ c.min > 0 /\ mark \in Int /\ Notional \in Int /\ cur \in Int
    BY LoopFacts, RunConfig
  <2>2. /\ adj \in Int /\ Abs(adj) >= c.min
        /\ \/ cur # 0 /\ d = FlipClose(phase, position, mark) /\ WouldFlipPosition(cur, adj)
           \/ d = Adjust(phase, cur, adj, mark) /\ ~WouldFlipPosition(cur, adj)
    BY <2>1, OrderShape DEF Decision
  <2>3. adj # 0
    BY <2>1, <2>2 DEF Abs, ConfigType
  <2> HIDE DEF adj, cur
  <2>4. CASE cur # 0 /\ d = FlipClose(phase, position, mark)
    <3>1. d.reduceOnly = TRUE /\ d.adjustment = -cur
      BY <2>4 DEF FlipClose, cur
    <3>2. Abs(cur + (-cur)) < Abs(cur)
      BY <2>1, <2>4 DEF Abs
    <3> QED BY <3>1, <3>2 DEF Decision, cur
  <2>5. CASE d = Adjust(phase, cur, adj, mark) /\ ~WouldFlipPosition(cur, adj)
    <3>1. d.reduceOnly = ShouldReduceOnly(cur, adj) /\ d.adjustment = adj
      BY <2>5 DEF Adjust
    <3>2. ShouldReduceOnly(cur, adj) <=> Abs(cur + adj) < Abs(cur)
      BY <2>1, <2>2, <2>3, <2>5 DEF ShouldReduceOnly, WouldFlipPosition, Sign, Abs
    <3> QED BY <3>1, <3>2 DEF Decision, cur
  <2> QED BY <2>2, <2>4, <2>5
<1> QED BY <1>1, LoopInvariant, PTL

\* A run without a reason decides with the configuration as it is.
LEMMA PlainDecision == Decision("") = Calculate(cfg, Notional, mark, position)
BY Zenon DEF Decision, CalculationConfigForRun

\* In every reachable state the dashboard asks for what an automatic run of an
\* enabled configuration would do.
THEOREM LoopMonitorAgrees == Spec => []MonitorAgrees
<1>1. ASSUME IInv, cfg.enabled
      PROVE  LET d == Calculate(cfg, Notional, mark, position)
                 m == MonitorAction(cfg, Notional, position.notional)
             IN  /\ d.action = "hold"      <=> m = "balanced"
                 /\ d.action = "open"      <=> m = "open_required"
                 /\ d.action = "rebalance" <=> m = "rebalance_required"
                 /\ d.action = "exit"      <=> m = "exit_required"
  <2>1. /\ cfg \in ConfigType /\ cfg.min > 0 /\ cfg.ratio >= 0
        /\ mark \in Nat \ {0} /\ Notional \in Int /\ position.notional \in Int
    BY <1>1, LoopFacts
  <2> QED BY <1>1, <2>1, MonitorAgreement
<1>2. IInv => MonitorAgrees
  BY <1>1, PlainDecision, Zenon DEF MonitorAgrees
<1> QED BY <1>2, LoopInvariant, PTL
------------------------------------------------------------------------------
(* Settling *)

\* The hedge is within an order of its target, which the thresholds let stand.
Settled ==
    /\ Abs(Notional) > cfg.exit
    /\ Abs(Target(cfg, Notional) - position.notional) < cfg.min

\* What makes "at most two orders" inductive: the first order of an undisturbed
\* loop closes the hedge or settles it, the second settles it.
SettleInv ==
    /\ \A m \in Marks : m <= cfg.min
    /\ orders \in 0 .. 2
    /\ orders > 0 => FreshlyValued /\ (position.quantity = 0 \/ Settled)
    /\ orders = 2 => Settled

\* No run orders anything when the hedge is settled.
LEMMA SettledHolds ==
    ASSUME IInv, Settled, NEW reason \in Reasons
    PROVE  ~RunOrder(reason)
<1> SUFFICES ASSUME RunOrder(reason) PROVE FALSE
  OBVIOUS
<1> DEFINE c   == CalculationConfigForRun(cfg, reason)
           cur == position.notional
           adj == Goal(c, Notional, cur) - cur
<1>1. /\ cfg \in ConfigType /\ cfg.min > 0 /\ mark \in Int /\ Notional \in Int /\ cur \in Int
  BY LoopFacts
<1>2. c \in ConfigType /\ c.min > 0 /\ c.min = cfg.min /\ adj = Goal(cfg, Notional, cur) - cur
  BY <1>1, RunConfig
<1>3. adj \in Int /\ Abs(adj) >= c.min
  BY <1>1, <1>2, OrderShape DEF RunOrder, Decision
<1>4. Goal(cfg, Notional, cur) = Target(cfg, Notional)
  BY <1>1, AbsType DEF Settled, Goal, Phase, ConfigType
<1> HIDE DEF adj
<1> QED BY <1>1, <1>2, <1>3, <1>4, AbsType DEF Settled, ConfigType

\* An order sized with current prices either closes the hedge or takes it to
\* less than a lot from the target; an opening order does the latter.
LEMMA OrderSettles ==
    ASSUME IInv, FreshlyValued, NEW reason \in Reasons, RunOrder(reason)
    PROVE  \/ position'.quantity = 0 /\ position.quantity # 0
           \/ /\ Abs(Notional) > cfg.exit
              /\ Abs(Target(cfg, Notional) - position'.notional) < mark
<1> DEFINE c     == CalculationConfigForRun(cfg, reason)
           d     == Calculate(c, Notional, mark, position)
           q     == position.quantity
           cur   == position.notional
           adj   == Goal(c, Notional, cur) - cur
           phase == Phase(c, Notional, cur)
           lots  == d.quantity.num \div d.quantity.den
           signed == IF d.side = "BUY" THEN lots ELSE -lots
<1>1. /\ cfg \in ConfigType /\ cfg.min > 0 /\ mark \in Nat \ {0} /\ Notional \in Int
      /\ q \in Int /\ cur \in Int /\ cur = q * mark
  BY LoopFacts DEF FreshlyValued
<1>2. /\ c \in ConfigType /\ c.min > 0 /\ c.exit = cfg.exit
      /\ Target(c, Notional) = Target(cfg, Notional)
  BY <1>1, RunConfig
<1>3. d.action \in {"open", "rebalance", "exit"}
  BY DEF RunOrder, Decision
<1>4. /\ adj \in Int /\ Abs(adj) >= c.min
      /\ phase = "exit" => cur # 0
      /\ \/ cur # 0 /\ d = FlipClose(phase, position, mark)
         \/ d = Adjust(phase, cur, adj, mark) /\ ~WouldFlipPosition(cur, adj)
  BY <1>1, <1>2, <1>3, OrderShape
<1>5. /\ cur > 0 <=> q > 0
      /\ cur < 0 <=> q < 0
      /\ cur = 0 <=> q = 0
      /\ Abs(cur) = Abs(q) * mark
  <2> HIDE DEF q, cur
  <2>1. Abs(cur) = Abs(q) * mark
    BY <1>1, AbsProduct
  <2> QED BY <1>1, <2>1, ProductSign
<1>6. /\ position'.quantity = q + FillQuantity(d, q)
      /\ position'.notional = (q + FillQuantity(d, q)) * mark
  BY DEF RunOrder, Decision, Snapshot
<1>7. ASSUME q # 0, lots = Abs(q), d.side = SideOf(-cur), d.reduceOnly = TRUE
      PROVE  q + FillQuantity(d, q) = 0
  <2> HIDE DEF lots, d, cur, q
  <2>1. signed = -q
    BY <1>1, <1>5, <1>7 DEF SideOf, Abs
  <2>2. Sign(-q) # Sign(q) /\ Abs(q) <= Abs(q)
    BY <1>1, <1>7, AbsType DEF Sign
  <2>3. FillQuantity(d, q) = IF Sign(signed) = Sign(q) THEN 0
                             ELSE IF lots <= Abs(q) THEN signed ELSE -q
    BY <1>7 DEF FillQuantity, lots
  <2> QED BY <1>1, <1>7, <2>1, <2>2, <2>3
<1>8. CASE cur # 0 /\ d = FlipClose(phase, position, mark)
  <2>1. d.quantity = Whole(Abs(q)) /\ d.side = SideOf(-cur) /\ d.reduceOnly = TRUE
    BY <1>5, <1>8 DEF FlipClose
  <2>2. lots = Abs(q)
    <3>1. Abs(q) \in Nat /\ Abs(q) * 1 = Abs(q)
      BY <1>1, AbsType
    <3>2. Abs(q) \div 1 = Abs(q)
      BY <3>1, LotsOfProduct
    <3> QED BY <2>1, <3>2 DEF Whole
  <2> QED BY <1>5, <1>6, <1>7, <1>8, <2>1, <2>2
<1>9. CASE phase = "exit" /\ d = Adjust(phase, cur, adj, mark)
  <2>1. adj = -cur /\ Abs(adj) = Abs(cur) /\ cur # 0
    BY <1>1, <1>4, <1>9 DEF Goal, Abs
  <2>2. d.side = SideOf(-cur) /\ d.quantity = [num |-> Abs(q) * mark, den |-> mark]
    BY <1>5, <1>9, <2>1 DEF Adjust
  <2>3. d.reduceOnly = TRUE
    <3>1. Sign(cur) # Sign(-cur)
      BY <1>1, <2>1 DEF Sign
    <3> QED BY <1>1, <1>9, <2>1, <3>1, AbsType DEF Adjust, ShouldReduceOnly
  <2>4. lots = Abs(q)
    <3>1. Abs(q) \in Nat
      BY <1>1, AbsType
    <3>2. (Abs(q) * mark) \div mark = Abs(q)
      BY <1>1, <3>1, LotsOfProduct
    <3> QED BY <2>2, <3>2
  <2> QED BY <1>5, <1>6, <1>7, <2>1, <2>2, <2>3, <2>4
<1>10. CASE phase # "exit" /\ d = Adjust(phase, cur, adj, mark) /\ ~WouldFlipPosition(cur, adj)
  <2>1. adj = Target(cfg, Notional) - cur
    BY <1>2, <1>10 DEF Goal
  <2>2. Abs(Notional) > cfg.exit
    <3>1. phase # "hold"
      BY <1>3, <1>10 DEF Adjust
    <3> QED BY <1>1, <1>2, <1>10, <3>1, AbsType DEF Phase, ConfigType
  <2>3. /\ d.side = SideOf(adj) /\ lots = Abs(adj) \div mark
        /\ d.reduceOnly = ShouldReduceOnly(cur, adj)
    BY <1>10 DEF Adjust
  <2>4. lots \in Nat /\ lots * mark <= Abs(adj) /\ Abs(adj) < lots * mark + mark
    BY <1>1, <1>4, <2>3, AbsType, WholeLots
  <2>5. d.reduceOnly => q # 0 /\ Sign(q) # Sign(adj) /\ lots <= Abs(q)
    <3> SUFFICES ASSUME d.reduceOnly PROVE q # 0 /\ Sign(q) # Sign(adj) /\ lots <= Abs(q)
      OBVIOUS
    <3>1. cur # 0 /\ Sign(cur) # Sign(adj) /\ Abs(adj) <= Abs(q) * mark
      BY <1>5, <2>3 DEF ShouldReduceOnly
    <3>2. Sign(q) = Sign(cur)
      BY <1>1, <1>5 DEF Sign
    <3> HIDE DEF lots, d, cur, q, adj
    <3>3. Abs(q) \in Nat /\ Abs(adj) \in Nat /\ lots * mark <= Abs(q) * mark
      BY <1>1, <1>4, <2>4, <3>1, AbsType
    <3>4. lots <= Abs(q)
      BY <1>1, <2>4, <3>3, ProductOrder
    <3> QED BY <1>5, <3>1, <3>2, <3>4
  <2> HIDE DEF lots, d, cur, q, adj
  <2>6. FillQuantity(d, q) = IF adj > 0 THEN lots ELSE -lots
    <3>1. signed = IF adj > 0 THEN lots ELSE -lots
      BY <2>3 DEF SideOf
    <3>2. FillQuantity(d, q) = IF ~d.reduceOnly THEN signed
                               ELSE IF Sign(signed) = Sign(q) THEN 0
                               ELSE IF lots <= Abs(q) THEN signed ELSE -q
      BY DEF FillQuantity, lots
    <3>3. d.reduceOnly => Sign(signed) # Sign(q)
      <4>1. adj # 0
        BY <1>2, <1>4 DEF Abs, ConfigType
      <4> QED BY <1>1, <1>4, <2>4, <2>5, <3>1, <4>1 DEF Sign
    <3> QED BY <2>5, <3>1, <3>2, <3>3
  <2>7. position'.notional = IF adj > 0 THEN cur + lots * mark ELSE cur - lots * mark
    BY <1>1, <1>6, <2>4, <2>6, ProductSum DEF q
  <2>8. lots * mark \in Int
    BY <1>1, <2>4
  <2>9. Abs(Target(cfg, Notional) - position'.notional) < mark
    <3>1. Target(cfg, Notional) \in Int
      BY <1>1, TargetWithinCap
    <3> DEFINE v == lots * mark
    <3> HIDE DEF v
    <3>2. v \in Int /\ v <= Abs(adj) /\ Abs(adj) < v + mark
      BY <2>4, <2>8 DEF v
    <3>3. position'.notional = IF adj > 0 THEN cur + v ELSE cur - v
      BY <2>7 DEF v
    <3> QED BY <1>1, <1>4, <2>1, <3>1, <3>2, <3>3 DEF Abs
  <2> QED BY <2>2, <2>9
<1> QED BY <1>4, <1>8, <1>9, <1>10

\* With lots worth no more than MinOrderUSDT, every step keeps the count.
LEMMA NextSettleInv ==
    ASSUME IInv, SettleInv, [Next]_vars
    PROVE  SettleInv'
<1>1. /\ mark \in Nat \ {0} /\ mark \in Marks /\ Marks \subseteq Nat \ {0}
      /\ cfg.min \in Int /\ mark <= cfg.min
  BY LoopAssumption, LoopFacts DEF IInv, TypeOK, SettleInv, ConfigType
<1>2. ASSUME orders' = 0, UNCHANGED cfg.min PROVE SettleInv'
  BY <1>2 DEF SettleInv
<1>3. ASSUME NEW reason \in Reasons, RunOrder(reason) PROVE SettleInv'
  <2>0. cfg' = cfg /\ mark' = mark /\ exposure' = exposure
    BY <1>3 DEF RunOrder
  <2>1. CASE ~FreshlyValued
    BY <1>2, <1>3, <2>0, <2>1 DEF RunOrder
  <2>2. CASE FreshlyValued
    <3>1. ~Settled
      BY <1>3, SettledHolds
    <3>2. orders' = orders + 1 /\ orders \in {0, 1}
      BY <1>3, <2>2, <3>1 DEF RunOrder, SettleInv
    <3>3. FreshlyValued'
      BY <1>3 DEF RunOrder, Snapshot, FreshlyValued
    <3>4. (position'.quantity = 0 /\ position.quantity # 0) \/ Settled'
      <4>1. \/ position'.quantity = 0 /\ position.quantity # 0
            \/ /\ Abs(Notional) > cfg.exit
               /\ Abs(Target(cfg, Notional) - position'.notional) < mark
        BY <1>3, <2>2, OrderSettles
      <4>2. position'.notional \in Int /\ Target(cfg, Notional) \in Int
        <5>1. position'.quantity \in Int /\ position' = Snapshot(position'.quantity, mark)
          BY <1>3, RunOrderMoves
        <5>2. position'.notional \in Int
          BY <1>1, <5>1 DEF Snapshot
        <5> QED BY <5>2, LoopFacts, TargetWithinCap
      <4>3. Abs(Target(cfg, Notional) - position'.notional) \in Int
        BY <4>2, AbsType
      <4>4. Notional' = Notional
        BY <2>0 DEF Notional
      <4> QED BY <1>1, <2>0, <4>1, <4>3, <4>4 DEF Settled
    <3>5. orders = 1 => position.quantity = 0
      BY <3>1, <3>2 DEF SettleInv
    <3> QED BY <2>0, <3>2, <3>3, <3>4, <3>5 DEF SettleInv
  <2> QED BY <2>1, <2>2
<1>4. CASE ManualClose
  BY <1>2, <1>4 DEF ManualClose
<1>5. CASE Revalue
  BY <1>2, <1>5 DEF Revalue
<1>6. CASE ExposureMoves
  BY <1>2, <1>6 DEF ExposureMoves
<1>7. CASE MarkMoves
  BY <1>2, <1>7 DEF MarkMoves
<1>8. CASE RatioChanges
  <2>1. cfg'.min = cfg.min
    BY <1>8 DEF RatioChanges, IInv, TypeOK, ConfigType
  <2> QED BY <1>2, <1>8, <2>1 DEF RatioChanges
<1>9. CASE UNCHANGED vars
  BY <1>9 DEF vars, SettleInv, FreshlyValued, Settled, Notional
<1> QED BY <1>3, <1>4, <1>5, <1>6, <1>7, <1>8, <1>9 DEF Next

\* An undisturbed loop settles after at most two orders, whatever the thresholds,
\* when no lot is worth more than MinOrderUSDT.  Without that condition an order
\* can round down to no lot at all and be repeated.
THEOREM LoopSettles ==
    ASSUME \A c \in Configs : \A m \in Marks : m <= c.min
    PROVE  Spec => []SettlesInTwoOrders
<1>1. Init => SettleInv
  BY DEF Init, SettleInv
<1>2. IInv /\ SettleInv /\ [Next]_vars => SettleInv'
  BY NextSettleInv
<1>3. SettleInv => SettlesInTwoOrders
  BY DEF SettleInv, SettlesInTwoOrders
<1> QED BY <1>1, <1>2, <1>3, LoopInvariant, PTL DEF Spec
==============================================================================
