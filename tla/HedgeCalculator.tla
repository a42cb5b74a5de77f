--------------------------- MODULE HedgeCalculator ---------------------------
(***************************************************************************)
(* The decision function of internal/hedge/calculator.go, and the action   *)
(* the dashboard derives from the same inputs                              *)
(* (internal/service/hedge_monitor_service.go).                            *)
(*                                                                         *)
(* Amounts are integers.  A hedge ratio is a whole number of hundredths    *)
(* (or of any other fixed fraction); target, current, adjustment and the   *)
(* limits they are compared with are counted in that fraction of a USDT,   *)
(* so that exposure * ratio is exact, as it is with decimals.  Quantities  *)
(* are fractions [num, den].  Limit prices, symbols and the wording of     *)
(* reasons are left out.                                                   *)
(***************************************************************************)
EXTENDS Integers

\* The part of hedge.Config the decision depends on.
ConfigType == [enabled : BOOLEAN, ratio : Int, first : Int, rebalance : Int,
               exit : Int, max : Int, min : Int]

Abs(x) == IF x < 0 THEN -x ELSE x

Sign(x) == IF x < 0 THEN -1 ELSE IF x > 0 THEN 1 ELSE 0

Whole(n) == [num |-> n, den |-> 1]

\* Mutated: no clamp.
TargetUnclamped(c, exposure) == (-exposure) * c.ratio

\* The notional the hedge should have, clamped to MaxNotionalUSDT if it is set.
Target(c, exposure) ==
    LET want == (-exposure) * c.ratio
    IN  IF c.max > 0 /\ Abs(want) > c.max THEN Sign(want) * c.max ELSE want

\* Mutated: an exposure equal to ExitUSDT does not exit.
PhaseStrictExit(c, exposure, current) ==
    IF Abs(exposure) < c.exit
    THEN IF current # 0 THEN "exit" ELSE "hold"
    ELSE IF current # 0 THEN "rebalance"
         ELSE IF Abs(exposure) < c.first THEN "hold" ELSE "open"

\* What the thresholds call for before the size of the order is looked at.
Phase(c, exposure, current) ==
    IF Abs(exposure) <= c.exit
    THEN IF current # 0 THEN "exit" ELSE "hold"
    ELSE IF current # 0 THEN "rebalance"
         ELSE IF Abs(exposure) < c.first THEN "hold" ELSE "open"

\* Exiting overrides the target.
Goal(c, exposure, current) ==
    IF Phase(c, exposure, current) = "exit" THEN 0 ELSE Target(c, exposure)

\* The adjustment is not worth an order.
BelowOrderSize(c, phase, adjustment) ==
    \/ adjustment = 0
    \/ Abs(adjustment) < c.min
    \/ phase = "rebalance" /\ Abs(adjustment) < c.rebalance

\* Mutated: reversals in one order.
WouldFlipNever(current, adjustment) == FALSE

\* The order would take the position through zero.
WouldFlipPosition(current, adjustment) ==
    /\ current # 0
    /\ Sign(current) # Sign(adjustment)
    /\ Abs(adjustment) > Abs(current)

\* Mutated: an order that closes the whole position is not reduce-only.
ShouldReduceOnlyPart(current, adjustment) ==
    /\ current # 0
    /\ Sign(current) # Sign(adjustment)
    /\ Abs(adjustment) < Abs(current)

\* The order takes the position towards zero and not past it.
ShouldReduceOnly(current, adjustment) ==
    /\ current # 0
    /\ Sign(current) # Sign(adjustment)
    /\ Abs(adjustment) <= Abs(current)

\* Mutated: the sides are swapped.
SideSwapped(adjustment) == IF adjustment > 0 THEN "SELL" ELSE "BUY"

\* The side that moves the position by an adjustment of this sign.
SideOf(adjustment) == IF adjustment > 0 THEN "BUY" ELSE "SELL"

NoOrder(action) == [action |-> action, adjustment |-> 0, side |-> "none",
                    quantity |-> Whole(0), reduceOnly |-> FALSE, reason |-> "none"]

ReasonOf(phase) == CASE phase = "open" -> "first_trigger"
                     [] phase = "exit" -> "exit_hedge"
                     [] OTHER          -> "rebalance"

\* A reversal only closes; the opposite side is left to a later run.
FlipClose(phase, position, mark) ==
    LET current == position.notional
    IN  [action     |-> phase,
         adjustment |-> -current,
         side       |-> SideOf(-current),
         quantity   |-> IF position.quantity # 0 THEN Whole(Abs(position.quantity))
                        ELSE [num |-> Abs(current), den |-> mark],
         reduceOnly |-> TRUE,
         reason     |-> "position_flip_close"]

Adjust(phase, current, adjustment, mark) ==
    [action     |-> phase,
     adjustment |-> adjustment,
     side       |-> SideOf(adjustment),
     quantity   |-> [num |-> Abs(adjustment), den |-> mark],
     reduceOnly |-> ShouldReduceOnly(current, adjustment),
     reason     |-> ReasonOf(phase)]

\* Calculate's answer for an enabled configuration and valid inputs.
Decide(c, exposure, mark, position) ==
    LET current    == position.notional
        phase      == Phase(c, exposure, current)
        adjustment == Goal(c, exposure, current) - current
    IN  IF phase = "hold" \/ BelowOrderSize(c, phase, adjustment) THEN NoOrder("hold")
        ELSE IF WouldFlipPosition(current, adjustment)
             THEN FlipClose(phase, position, mark)
             ELSE Adjust(phase, current, adjustment, mark)

\* Calculate.  "error" stands for a returned error.
Calculate(c, exposure, mark, position) ==
    IF ~c.enabled THEN NoOrder("skip")
    ELSE IF mark <= 0 \/ c.ratio < 0 THEN NoOrder("error")
         ELSE Decide(c, exposure, mark, position)

\* The mark price ClosePosition works with, as a fraction.
CloseMark(position) ==
    IF position.mark <= 0 /\ position.quantity # 0 /\ position.notional # 0
    THEN [num |-> Abs(position.notional), den |-> Abs(position.quantity)]
    ELSE Whole(position.mark)

\* ClosePosition's current notional; a missing notional is quantity times mark.
CloseNotional(position) ==
    IF position.notional = 0 /\ position.quantity # 0
    THEN position.quantity * position.mark
    ELSE position.notional

\* ClosePosition.
ClosePosition(position) ==
    LET mark    == CloseMark(position)
        current == CloseNotional(position)
    IN  IF current = 0 /\ position.quantity = 0 THEN NoOrder("hold")
        ELSE IF mark.num <= 0 THEN NoOrder("error")
        ELSE [action     |-> "exit",
              adjustment |-> -current,
              side       |-> SideOf(-current),
              quantity   |-> IF position.quantity # 0 THEN Whole(Abs(position.quantity))
                             ELSE [num |-> Abs(current) * mark.den, den |-> mark.num],
              reduceOnly |-> TRUE,
              reason     |-> "manual_close"]

\* A run for a changed hedge ratio ignores the rebalance threshold.
CalculationConfigForRun(c, reason) ==
    IF reason = "hedge_ratio_adjustment" THEN [c EXCEPT !.rebalance = 0] ELSE c
------------------------------------------------------------------------------
(* The dashboard *)

\* The target the monitor shows.
MonitorTarget(c, exposure) ==
    IF Abs(exposure) <= c.exit THEN 0 ELSE Target(c, exposure)

\* monitorAction.
MonitorAction(c, exposure, actual) ==
    LET adjustment == MonitorTarget(c, exposure) - actual
    IN  IF Abs(exposure) <= c.exit
        THEN IF actual # 0 /\ Abs(actual) >= c.min THEN "exit_required" ELSE "balanced"
        ELSE IF actual = 0
             THEN IF Abs(exposure) >= c.first /\ Abs(adjustment) >= c.min
                  THEN "open_required" ELSE "balanced"
             ELSE IF Abs(adjustment) >= c.rebalance /\ Abs(adjustment) >= c.min
                  THEN "rebalance_required" ELSE "balanced"
==============================================================================
