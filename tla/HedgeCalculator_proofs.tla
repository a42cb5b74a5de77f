----------------------- MODULE HedgeCalculator_proofs ------------------------
(***************************************************************************)
(* Lemmas about the calculator's operators, for any configuration and any  *)
(* amounts.  The proofs about the loop and about the runs cite them.       *)
(***************************************************************************)
EXTENDS HedgeCalculator, TLAPS
------------------------------------------------------------------------------
(* Arithmetic *)

\* A product with a positive price keeps the sign.
LEMMA ProductSign ==
    ASSUME NEW a \in Int, NEW m \in Int, m > 0
    PROVE  /\ a * m \in Int
           /\ a * m > 0 <=> a > 0
           /\ a * m < 0 <=> a < 0
           /\ a * m = 0 <=> a = 0
OBVIOUS

\* Multiplying by a positive price keeps the order.
LEMMA ProductOrder ==
    ASSUME NEW a \in Int, NEW b \in Int, NEW m \in Int, m > 0
    PROVE  /\ a < b => a * m < b * m
           /\ a <= b => a * m <= b * m
OBVIOUS

\* A product distributes over sums and differences.
LEMMA ProductSum ==
    ASSUME NEW a \in Int, NEW b \in Int, NEW m \in Int
    PROVE  /\ (a + b) * m = a * m + b * m
           /\ (a - b) * m = a * m - b * m
           /\ (-a) * m = -(a * m)
OBVIOUS

\* Whole lots of an amount are worth no more than it, and less than one lot is
\* left.
LEMMA WholeLots ==
    ASSUME NEW a \in Nat, NEW m \in Nat, m > 0
    PROVE  /\ a \div m \in Nat
           /\ (a \div m) * m <= a
           /\ a < (a \div m) * m + m
OBVIOUS

\* A size is a natural number.
LEMMA AbsType == ASSUME NEW x \in Int PROVE Abs(x) \in Nat
BY DEF Abs

\* A number of whole lots divides out again.
LEMMA LotsOfProduct ==
    ASSUME NEW a \in Nat, NEW m \in Nat, m > 0
    PROVE  (a * m) \div m = a
<1>1. (a * m) \div m \in Nat /\ ((a * m) \div m) * m <= a * m /\ a * m < ((a * m) \div m) * m + m
  BY WholeLots
<1> DEFINE k == (a * m) \div m
<1> HIDE DEF k
<1>2. k \in Nat /\ k * m <= a * m /\ a * m < (k + 1) * m
  BY <1>1, ProductSum DEF k
<1>3. ~(k > a) /\ ~(k + 1 <= a)
  BY <1>2, ProductOrder
<1> QED BY <1>2, <1>3 DEF k

\* The size of a product is the product of the sizes.
LEMMA AbsProduct ==
    ASSUME NEW a \in Int, NEW m \in Nat, m > 0
    PROVE  Abs(a * m) = Abs(a) * m
<1>1. CASE a < 0
  BY <1>1, ProductSign, ProductSum DEF Abs
<1>2. CASE a >= 0
  BY <1>2, ProductSign DEF Abs
<1> QED BY <1>1, <1>2
------------------------------------------------------------------------------
(* The calculator *)

\* The target is a number, and within MaxNotionalUSDT when that is set.
LEMMA TargetWithinCap ==
    ASSUME NEW c \in ConfigType, NEW e \in Int
    PROVE  /\ Target(c, e) \in Int
           /\ c.max > 0 => Abs(Target(c, e)) <= c.max
<1> DEFINE want == (-e) * c.ratio
<1>1. want \in Int /\ c.max \in Int
  BY DEF ConfigType
<1>2. Target(c, e) = IF c.max > 0 /\ Abs(want) > c.max THEN Sign(want) * c.max ELSE want
  BY DEF Target
<1> HIDE DEF want
<1>3. Sign(want) \in {-1, 0, 1}
  BY <1>1 DEF Sign
<1>4. Sign(want) * c.max \in Int /\ (c.max > 0 => Abs(Sign(want) * c.max) <= c.max)
  BY <1>1, <1>3 DEF Abs
<1> QED BY <1>1, <1>2, <1>4 DEF Abs

\* So is the goal, which is the target or 0.
LEMMA GoalWithinCap ==
    ASSUME NEW c \in ConfigType, NEW e \in Int, NEW x \in Int
    PROVE  /\ Goal(c, e, x) \in Int
           /\ c.max > 0 => Abs(Goal(c, e, x)) <= c.max
BY TargetWithinCap DEF Goal, Abs, ConfigType

\* What an order of Calculate looks like: it closes a position it would take
\* through zero, or moves the position by the whole adjustment, which is worth
\* an order and does not take it through zero.
LEMMA OrderShape ==
    ASSUME NEW c \in ConfigType, c.min > 0, NEW e \in Int, NEW m \in Int, NEW pos,
           pos.notional \in Int,
           Calculate(c, e, m, pos).action \in {"open", "rebalance", "exit"}
    PROVE  LET d     == Calculate(c, e, m, pos)
               cur   == pos.notional
               adj   == Goal(c, e, cur) - cur
               phase == Phase(c, e, cur)
           IN  /\ adj \in Int /\ Abs(adj) >= c.min
               /\ phase = "exit" => cur # 0
               /\ phase = "rebalance" => cur # 0
               /\ phase = "open" => cur = 0
               /\ \/ cur # 0 /\ d = FlipClose(phase, pos, m) /\ WouldFlipPosition(cur, adj)
                  \/ d = Adjust(phase, cur, adj, m) /\ ~WouldFlipPosition(cur, adj)
<1> DEFINE cur == pos.notional
           adj == Goal(c, e, cur) - cur
           phase == Phase(c, e, cur)
<1>1. adj \in Int
  BY GoalWithinCap
<1>2. Calculate(c, e, m, pos) = Decide(c, e, m, pos)
  BY DEF Calculate, NoOrder
<1>3. ~(phase = "hold" \/ BelowOrderSize(c, phase, adj))
  BY <1>2 DEF Decide, NoOrder
<1>4. Abs(adj) >= c.min
  BY <1>1, <1>3, AbsType DEF BelowOrderSize, ConfigType
<1>5. Decide(c, e, m, pos) = IF WouldFlipPosition(cur, adj) THEN FlipClose(phase, pos, m)
                             ELSE Adjust(phase, cur, adj, m)
  BY <1>3 DEF Decide
<1>6. /\ phase = "exit" => cur # 0
      /\ phase = "rebalance" => cur # 0
      /\ phase = "open" => cur = 0
  BY DEF Phase
<1> QED BY <1>1, <1>2, <1>4, <1>5, <1>6 DEF WouldFlipPosition

\* A run with a reason works with a configuration that is as valid.
LEMMA RunConfig ==
    ASSUME NEW c \in ConfigType, NEW reason
    PROVE  LET r == CalculationConfigForRun(c, reason)
           IN  /\ r \in ConfigType
               /\ r.min = c.min /\ r.max = c.max /\ r.exit = c.exit
               /\ \A e, x : Target(r, e) = Target(c, e) /\ Goal(r, e, x) = Goal(c, e, x)
BY DEF CalculationConfigForRun, ConfigType, Target, Goal, Phase

\* The dashboard's action, which other code derives, is the one of Calculate for
\* an enabled configuration: thresholds, target and order size are read alike.
LEMMA MonitorAgreement ==
    ASSUME NEW c \in ConfigType, c.enabled, c.min > 0, c.ratio >= 0,
           NEW e \in Int, NEW mk \in Nat \ {0}, NEW pos, pos.notional \in Int
    PROVE  LET d == Calculate(c, e, mk, pos)
               m == MonitorAction(c, e, pos.notional)
           IN  /\ d.action = "hold"      <=> m = "balanced"
               /\ d.action = "open"      <=> m = "open_required"
               /\ d.action = "rebalance" <=> m = "rebalance_required"
               /\ d.action = "exit"      <=> m = "exit_required"
<1> DEFINE d     == Calculate(c, e, mk, pos)
           cur   == pos.notional
           phase == Phase(c, e, cur)
           adj   == Goal(c, e, cur) - cur
           madj  == MonitorTarget(c, e) - cur
<1>1. /\ cur \in Int /\ adj \in Int /\ Abs(e) \in Int /\ Abs(adj) \in Int
  <2>1. cur \in Int /\ adj \in Int
    BY GoalWithinCap
  <2> QED BY <2>1, AbsType
<1>2. d = Decide(c, e, mk, pos)
  BY DEF Calculate, ConfigType
<1>3. d.action = IF phase = "hold" \/ BelowOrderSize(c, phase, adj) THEN "hold" ELSE phase
  BY <1>2 DEF Decide, NoOrder, FlipClose, Adjust
<1>4. phase # "hold" => madj = adj
  BY <1>1 DEF MonitorTarget, Goal, Phase
<1>5. BelowOrderSize(c, phase, adj)
        <=> Abs(adj) < c.min \/ (phase = "rebalance" /\ Abs(adj) < c.rebalance)
  <2> HIDE DEF adj
  <2> QED BY <1>1 DEF BelowOrderSize, Abs, ConfigType
<1>6. phase = "exit" => Abs(adj) = Abs(cur)
  BY <1>1 DEF Goal, Abs
<1> HIDE DEF adj, cur, d
<1>7. CASE phase = "exit"
  BY <1>1, <1>3, <1>5, <1>6, <1>7, AbsType DEF MonitorAction, Phase, ConfigType, cur, d
<1>8. CASE phase = "rebalance"
  <2>1. cur # 0 /\ ~(Abs(e) <= c.exit)
    BY <1>8 DEF Phase
  <2>2. MonitorAction(c, e, cur)
          = IF Abs(madj) >= c.rebalance /\ Abs(madj) >= c.min
            THEN "rebalance_required" ELSE "balanced"
    BY <2>1 DEF MonitorAction
  <2> QED BY <1>1, <1>3, <1>4, <1>5, <1>8, <2>2 DEF ConfigType, cur, d
<1>9. CASE phase = "open"
  <2>1. cur = 0 /\ ~(Abs(e) <= c.exit) /\ ~(Abs(e) < c.first)
    BY <1>9 DEF Phase
  <2>2. MonitorAction(c, e, cur)
          = IF Abs(e) >= c.first /\ Abs(madj) >= c.min THEN "open_required" ELSE "balanced"
    BY <2>1 DEF MonitorAction
  <2> QED BY <1>1, <1>3, <1>4, <1>5, <1>9, <2>1, <2>2 DEF ConfigType, cur, d
<1>10. CASE phase = "hold"
  BY <1>1, <1>3, <1>10 DEF MonitorAction, Phase, ConfigType, cur, d
<1> QED BY <1>7, <1>8, <1>9, <1>10 DEF Phase, d, cur
==============================================================================
