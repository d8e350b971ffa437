---------------------------- MODULE OrderSizing ----------------------------
(***************************************************************************)
(* The arithmetic that turns a trade plan into a Bitget order:             *)
(* exchange/bitget_environment.py _build_order_plan and _round_size,       *)
(* risk/risk_validation.py calculate_max_safe_leverage and                 *)
(* risk/isolated_margin.py calculate_required_margin.                      *)
(*                                                                         *)
(* Prices, money and leverage are whole numbers; a size is counted in lots *)
(* of 1/lots of a coin, lots being 10^volumePlace.  Every comparison of    *)
(* quotients is multiplied out, so nothing is rounded that the code keeps  *)
(* exact.                                                                  *)
(*                                                                         *)
(* A ticket is what the payload of an order and the market data of its     *)
(* symbol say: side, entry, stop, target (0 for none), the last price, the *)
(* fixed risk, the leverage of the plan, and the contract's maxLever, lots,*)
(* step (sizeMultiplier in lots), minLots and minNotional.                 *)
(***************************************************************************)
EXTENDS Integers

(* A price equal to its stop has no size: calculate_required_margin and    *)
(* validate_signal_risk refuse it.                                         *)
IsTicket(t) ==
  /\ {t.entry, t.stop, t.lots, t.step, t.leverage, t.maxLever} \subseteq Nat \ {0}
  /\ {t.target, t.price, t.risk, t.minLots, t.minNotional} \subseteq Nat
  /\ t.side \in {"BUY", "SELL"}
  /\ t.entry # t.stop

Larger(a, b)  == IF a >= b THEN a ELSE b
Smaller(a, b) == IF a <= b THEN a ELSE b

Distance(t) == IF t.entry >= t.stop THEN t.entry - t.stop ELSE t.stop - t.entry

(* Maintenance margin rate and close fee, 0.004 + 0.0003, over the target  *)
(* margin ratio at the stop, 0.70.                                         *)
MarginRate   == 43
MarginTarget == 7000

(* The largest leverage whose margin outlives the stop: N / (risk + MM/t), *)
(* both sides divided by the size.                                         *)
SafeLeverage(t) ==
  Larger((MarginTarget * t.entry)
           \div (MarginTarget * Distance(t) + MarginRate * t.stop), 1)

EffectiveLeverage(t) ==
  Larger(Smaller(Smaller(t.leverage, t.maxLever), SafeLeverage(t)), 1)

(* Mutant: rounded to the nearest step. *)
LotsToNearest(t) ==
  ((((t.risk * t.lots) \div Distance(t)) + (t.step \div 2)) \div t.step) * t.step

(* fixed_risk / sl_distance, rounded down to a lot and then to a step. *)
Lots(t) == (((t.risk * t.lots) \div Distance(t)) \div t.step) * t.step

(* calculate_required_margin: the unrounded position at some leverage. *)
MarginFits(t, leverage, available) ==
  t.risk * t.entry <= available * Distance(t) * leverage

(* RISK_SIZE_ROUNDING_MISMATCH: further than 1 and than 3% from the risk.  *)
RoundingTolerated(t) ==
  100 * (t.risk * t.lots - Distance(t) * Lots(t))
    <= Larger(100 * t.lots, 3 * t.risk * t.lots)

(* STALE_SETUP_TP_INVALID. *)
TargetAhead(t) ==
  \/ t.target = 0
  \/ t.side = "BUY" /\ t.target > t.price
  \/ t.side = "SELL" /\ t.target < t.price

(* Fee 0.0012 and slippage 0.002 of the notional. *)
CostsTolerated(t) == 32 * Lots(t) * t.entry <= 10000 * t.risk * t.lots

LargeEnough(t) ==
  /\ Lots(t) >= t.minLots
  /\ Lots(t) * t.entry >= t.minNotional * t.lots

(* What create_trade_plan asks of a signal before an order is planned. *)
RiskApproves(t, available) ==
  /\ t.risk > 0
  /\ IF t.side = "BUY" THEN t.stop < t.entry ELSE t.stop > t.entry
  /\ MarginFits(t, t.leverage, available)

(* What _build_order_plan refuses besides a margin that is not there. *)
OrderAccepted(t) ==
  /\ RoundingTolerated(t)
  /\ TargetAhead(t)
  /\ CostsTolerated(t)
  /\ LargeEnough(t)

(* The order sent: its size, and the leverage set just before it. *)
OrderPlan(t) == [ticket |-> t, lots |-> Lots(t), leverage |-> EffectiveLeverage(t)]

-----------------------------------------------------------------------------
(* What an order must be, whatever the ticket. *)

(* At the stop it loses at most the fixed risk, and not much less. *)
LosesTheRisk(o) ==
  LET loss == Distance(o.ticket) * o.lots
      risk == o.ticket.risk * o.ticket.lots
  IN  loss <= risk /\ 100 * (risk - loss) <= Larger(100 * o.ticket.lots, 3 * risk)

(* The margin the exchange reserves at that leverage is there. *)
IsAffordable(o, available) ==
  o.lots * o.ticket.entry <= available * o.leverage * o.ticket.lots

(* At the stop the margin left still keeps the maintenance margin under    *)
(* its target, so the stop comes before the liquidation.                   *)
OutlivesItsStop(o) ==
  \/ o.leverage = 1
  \/ MarginTarget * (o.ticket.entry - Distance(o.ticket) * o.leverage)
       >= MarginRate * o.ticket.stop * o.leverage
=============================================================================
