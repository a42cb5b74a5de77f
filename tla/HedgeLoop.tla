------------------------------ MODULE HedgeLoop ------------------------------
(***************************************************************************)
(* The control loop the calculator closes: exposure and mark price move,   *)
(* runs of RunOnce decide from the stored exposure and position snapshots, *)
(* every order is filled at once and the filled position is read back      *)
(* (refreshFilledPosition).  What concurrency, failures and slow fills do  *)
(* to this loop is the subject of HedgeRun; here the question is whether   *)
(* the decisions themselves drive the position where the thresholds say.   *)
(*                                                                         *)
(* A stored position carries the notional it had when it was observed, so  *)
(* after a price move the decision mixes an old valuation of the position  *)
(* with a new one of the exposure.                                         *)
(***************************************************************************)
EXTENDS HedgeCalculator

CONSTANTS Configs,        \* configurations to start from
          Ratios,         \* values the hedge ratio may be changed to
          Exposures,      \* platform net positions, in coins
          Marks,          \* mark prices
          MaxPosition     \* bound on the size of the hedge, in coins

ASSUME LoopAssumption ==
    /\ Configs \subseteq ConfigType
    \* applyHedgeConfigDefaults replaces 0; hedge_configs_ratio_check
    /\ \A c \in Configs : c.min > 0 /\ c.ratio >= 0
    /\ Ratios \subseteq Nat
    /\ Exposures \subseteq Int
    /\ Marks \subseteq Nat \ {0}
    /\ MaxPosition \in Nat

VARIABLES cfg,       \* the hedge configuration
          exposure,  \* net platform position, in coins
          mark,      \* current mark price
          position,  \* stored snapshot of the hedge position
          orders     \* orders since anything but the hedge itself last changed

vars == <<cfg, exposure, mark, position, orders>>

\* A snapshot of quantity q observed at mark price m.
Snapshot(q, m) == [quantity |-> q, notional |-> q * m, mark |-> m]

TypeOK ==
    /\ cfg \in ConfigType
    /\ exposure \in Exposures
    /\ mark \in Marks
    /\ position \in [quantity : Int, notional : Int, mark : Marks]
    /\ orders \in Nat

\* What the proofs need besides types: a snapshot is the value of its quantity
\* at its own price, and the configuration stays a valid one.
IInv ==
    /\ TypeOK
    /\ cfg.min > 0 /\ cfg.ratio >= 0
    /\ position.notional = position.quantity * position.mark

Notional == exposure * mark

Decision(reason) ==
    Calculate(CalculationConfigForRun(cfg, reason), Notional, mark, position)

Reasons == {"", "hedge_ratio_adjustment"}

\* The quantity the exchange fills of an order of decision d when the account
\* holds q: whole lots, and a reduce-only order never more than the position.
FillQuantity(d, q) ==
    LET lots   == d.quantity.num \div d.quantity.den
        signed == IF d.side = "BUY" THEN lots ELSE -lots
    IN  IF ~d.reduceOnly THEN signed
        ELSE IF Sign(signed) = Sign(q) THEN 0
        ELSE IF lots <= Abs(q) THEN signed ELSE -q

\* Whether the stored notional is the position's value at today's price.
FreshlyValued == position.mark = mark
------------------------------------------------------------------------------
Init ==
    /\ cfg \in Configs
    /\ exposure \in Exposures
    /\ mark \in Marks
    /\ position = Snapshot(0, mark)
    /\ orders = 0

\* A run of RunOnce places an order, which fills; the position is read back.
RunOrder(reason) ==
    LET d == Decision(reason)
        q == position.quantity + FillQuantity(d, position.quantity)
    IN  /\ d.action \in {"open", "rebalance", "exit"}
        /\ Abs(q) <= MaxPosition
        /\ position' = Snapshot(q, mark)
        /\ orders' = IF FreshlyValued THEN orders + 1 ELSE 0
        /\ UNCHANGED <<cfg, exposure, mark>>

\* ExitHedge closes the position whatever the thresholds say.
ManualClose ==
    LET d == ClosePosition(position)
    IN  /\ d.action = "exit"
        /\ position' = Snapshot(position.quantity + FillQuantity(d, position.quantity), mark)
        /\ orders' = 0
        /\ UNCHANGED <<cfg, exposure, mark>>

\* PositionSync re-reads the position: same quantity, new valuation.
Revalue ==
    /\ ~FreshlyValued
    /\ position' = Snapshot(position.quantity, mark)
    /\ orders' = 0
    /\ UNCHANGED <<cfg, exposure, mark>>

ExposureMoves ==
    /\ exposure' \in Exposures \ {exposure}
    /\ orders' = 0
    /\ UNCHANGED <<cfg, mark, position>>

MarkMoves ==
    /\ mark' \in Marks \ {mark}
    /\ orders' = 0
    /\ UNCHANGED <<cfg, exposure, position>>

RatioChanges ==
    /\ \E r \in Ratios \ {cfg.ratio} : cfg' = [cfg EXCEPT !.ratio = r]
    /\ orders' = 0
    /\ UNCHANGED <<exposure, mark, position>>

Next == \/ \E reason \in Reasons : RunOrder(reason)
        \/ ManualClose \/ Revalue \/ ExposureMoves \/ MarkMoves \/ RatioChanges

Spec == Init /\ [][Next]_vars
------------------------------------------------------------------------------
(* Properties *)

\* "When a rebalance would reverse the exchange position, the calculator emits
\* a reduce-only close order first" (README.md): no order takes the hedge from
\* one side of zero to the other, even when it was sized with a stale price.
NeverFlips == [][position'.quantity * position.quantity >= 0]_position

\* An undisturbed loop settles: at most two orders (close, then open on the
\* other side) and the calculator holds.
SettlesInTwoOrders == orders <= 2

\* MaxNotionalUSDT: an order sized with current prices never leaves a hedge
\* larger than the cap unless the hedge was larger before and shrank.
CapRespected ==
    [][FreshlyValued /\ mark' = mark /\ cfg.max > 0 /\ position' # position
          => \/ Abs(position'.notional) <= cfg.max
             \/ Abs(position'.notional) < Abs(position.notional)]_vars

\* Orders marked reduce-only are exactly those that shrink the hedge.
ReduceOnlyIffShrinks ==
    \A reason \in Reasons :
        LET d == Decision(reason)
        IN  d.action \in {"open", "rebalance", "exit"} /\ FreshlyValued
              => (d.reduceOnly <=> Abs(position.notional + d.adjustment) < Abs(position.notional))

\* What the dashboard says is required is what an automatic run would do.
MonitorAgrees ==
    cfg.enabled =>
      LET d == Decision("")
          m == MonitorAction(cfg, Notional, position.notional)
      IN  /\ d.action = "hold"      <=> m = "balanced"
          /\ d.action = "open"      <=> m = "open_required"
          /\ d.action = "rebalance" <=> m = "rebalance_required"
          /\ d.action = "exit"      <=> m = "exit_required"
==============================================================================
