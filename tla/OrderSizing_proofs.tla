------------------------ MODULE OrderSizing_proofs ------------------------
(* Theorems about the size and leverage of an order, for every ticket, and *)
(* their proofs.                                                           *)
EXTENDS OrderSizing, TLAPS


LEMMA Quotient ==
  ASSUME NEW n \in Nat, NEW d \in Nat \ {0}
  PROVE  n \div d \in Nat /\ d * (n \div d) <= n
  OBVIOUS

LEMMA Products ==
  ASSUME NEW i \in Nat, NEW j \in Nat, NEW k \in Nat
  PROVE  /\ i * j \in Nat /\ i * j = j * i /\ (i * j) * k = i * (j * k)
         /\ (i + j) * k = i * k + j * k
         /\ i <= j => i * k <= j * k /\ k * i <= k * j
         /\ k > 0 /\ k * i <= k * j => i <= j
  OBVIOUS

(* Rounding down to a lot and to a step keeps the loss at the stop within  *)
(* the risk.                                                               *)
LEMMA LotsWithinRisk ==
  ASSUME NEW t, IsTicket(t)
  PROVE  /\ Distance(t) \in Nat \ {0} /\ Lots(t) \in Nat
         /\ Distance(t) * Lots(t) <= t.risk * t.lots
<1> DEFINE d == Distance(t)
           n == t.risk * t.lots
           q == n \div d
           k == q \div t.step
<1>1. d \in Nat \ {0} /\ t.step \in Nat \ {0} /\ t.risk \in Nat /\ t.lots \in Nat
  BY DEF Distance, IsTicket
<1>2. n \in Nat
  BY <1>1, Products
<1>3. q \in Nat /\ d * q <= n
  BY <1>1, <1>2, Quotient
<1>4. k \in Nat /\ t.step * k <= q
  BY <1>1, <1>3, Quotient
<1>5. Lots(t) = k * t.step
  BY DEF Lots
<1>6. Lots(t) \in Nat /\ Lots(t) <= q
  BY <1>1, <1>4, <1>5, Products
<1>7. d * Lots(t) <= d * q
  BY <1>1, <1>3, <1>6, Products
<1>8. d * Lots(t) \in Nat /\ d * q \in Nat
  BY <1>1, <1>3, <1>6, Products
<1>9. d * Lots(t) <= n
  BY <1>2, <1>3, <1>7, <1>8
<1> QED
  BY <1>1, <1>6, <1>9

LEMMA LosesItsRisk ==
  ASSUME NEW t, IsTicket(t), OrderAccepted(t) PROVE LosesTheRisk(OrderPlan(t))
<1>1. Distance(t) * Lots(t) <= t.risk * t.lots
  BY LotsWithinRisk
<1>2. 100 * (t.risk * t.lots - Distance(t) * Lots(t))
        <= Larger(100 * t.lots, (3 * t.risk) * t.lots)
  BY DEF OrderAccepted, RoundingTolerated
<1>3. (3 * t.risk) * t.lots = 3 * (t.risk * t.lots)
  BY Products DEF IsTicket
<1> QED
  BY <1>1, <1>2, <1>3 DEF LosesTheRisk, OrderPlan

LEMMA LeverageOutlivesStop ==
  ASSUME NEW t, IsTicket(t)
  PROVE  /\ EffectiveLeverage(t) \in Nat \ {0}
         /\ OutlivesItsStop(OrderPlan(t))
<1> DEFINE d == Distance(t)
           e == EffectiveLeverage(t)
           bound == MarginTarget * d + MarginRate * t.stop
           safe == (MarginTarget * t.entry) \div bound
<1>1. /\ d \in Nat \ {0} /\ t.stop \in Nat \ {0} /\ t.entry \in Nat
      /\ t.leverage \in Nat /\ t.maxLever \in Nat
  BY DEF Distance, IsTicket
<1>2. bound \in Nat \ {0} /\ MarginTarget * t.entry \in Nat
  BY <1>1 DEF MarginTarget, MarginRate
<1>3. safe \in Nat /\ bound * safe <= MarginTarget * t.entry
  BY <1>2, Quotient
<1>4. e \in Nat \ {0} /\ (e = 1 \/ e <= safe)
  BY <1>1, <1>3 DEF EffectiveLeverage, SafeLeverage, Larger, Smaller
<1>5. CASE e <= safe
  <2>1. bound * e \in Nat /\ bound * safe \in Nat /\ bound * e <= bound * safe
    BY <1>2, <1>3, <1>4, <1>5, Products
  <2>2. bound * e = MarginTarget * (d * e) + MarginRate * (t.stop * e)
    <3>1. MarginTarget * d \in Nat /\ MarginRate * t.stop \in Nat
      BY <1>1 DEF MarginTarget, MarginRate
    <3>2. bound * e = (MarginTarget * d) * e + (MarginRate * t.stop) * e
      BY <1>4, <3>1, Products
    <3>3. MarginTarget \in Nat /\ MarginRate \in Nat
      BY DEF MarginTarget, MarginRate
    <3>4. /\ (MarginTarget * d) * e = MarginTarget * (d * e)
          /\ (MarginRate * t.stop) * e = MarginRate * (t.stop * e)
      BY <1>1, <1>4, <3>3, Products
    <3> QED
      BY <3>2, <3>4
  <2>3. d * e \in Nat /\ t.stop * e \in Nat
    BY <1>1, <1>4, Products
  <2>4. (MarginRate * t.stop) * e = MarginRate * (t.stop * e)
    BY <1>1, <1>4, Products DEF MarginRate
  <2>5. MarginTarget * (d * e) + MarginRate * (t.stop * e) <= MarginTarget * t.entry
    BY <1>2, <1>3, <2>1, <2>2
  <2>6. MarginTarget * (t.entry - d * e) >= (MarginRate * t.stop) * e
    BY <1>1, <2>3, <2>4, <2>5 DEF MarginTarget, MarginRate
  <2> QED
    BY <1>4, <2>6 DEF OutlivesItsStop, OrderPlan
<1>6. CASE e = 1
  BY <1>4, <1>6 DEF OutlivesItsStop, OrderPlan
<1> QED
  BY <1>4, <1>5, <1>6

LEMMA MarginAffords ==
  ASSUME NEW t, IsTicket(t), NEW m \in Nat, MarginFits(t, EffectiveLeverage(t), m)
  PROVE  IsAffordable(OrderPlan(t), m)
<1> DEFINE d == Distance(t)
           e == EffectiveLeverage(t)
           l == Lots(t)
<1>1. /\ d \in Nat \ {0} /\ e \in Nat /\ l \in Nat /\ t.risk \in Nat
      /\ t.entry \in Nat /\ t.lots \in Nat /\ d * l <= t.risk * t.lots
  BY LotsWithinRisk, LeverageOutlivesStop DEF IsTicket
<1>2. t.risk * t.entry <= (m * d) * e
  BY DEF MarginFits
<1> HIDE DEF d, e, l
<1>3. (d * l) * t.entry <= (t.risk * t.lots) * t.entry
  BY <1>1, Products
<1>4. (t.risk * t.lots) * t.entry = (t.risk * t.entry) * t.lots
  BY <1>1
<1>5. (t.risk * t.entry) * t.lots <= ((m * d) * e) * t.lots
  <2>1. t.risk * t.entry \in Nat /\ (m * d) * e \in Nat
    BY <1>1, Products
  <2> QED
    BY <1>1, <1>2, <2>1, Products
<1>6. ((m * d) * e) * t.lots = d * ((m * e) * t.lots)
  BY <1>1
<1>7. (d * l) * t.entry = d * (l * t.entry)
  BY <1>1, Products
<1>8. d * (l * t.entry) <= d * ((m * e) * t.lots)
  <2>1. /\ (d * l) * t.entry \in Nat /\ (t.risk * t.lots) * t.entry \in Nat
        /\ ((m * d) * e) * t.lots \in Nat
    BY <1>1, Products
  <2> QED
    BY <1>3, <1>4, <1>5, <1>6, <1>7, <2>1
<1>9. l * t.entry <= (m * e) * t.lots
  <2>1. l * t.entry \in Nat /\ (m * e) * t.lots \in Nat
    BY <1>1, Products
  <2> QED
    BY <1>1, <1>8, <2>1, Products
<1> QED
  BY <1>9 DEF IsAffordable, OrderPlan, d, e, l

(* Whatever the ticket, an order that is accepted loses the fixed risk at  *)
(* its stop and no more, reaches the stop before liquidation, and is       *)
(* affordable with the margin it was checked against                       *)
(* (bitget_environment.py _build_order_plan).                              *)
THEOREM AcceptedOrdersAreSound ==
  ASSUME NEW t, IsTicket(t), OrderAccepted(t)
  PROVE  /\ LosesTheRisk(OrderPlan(t)) /\ OutlivesItsStop(OrderPlan(t))
         /\ \A m \in Nat : MarginFits(t, EffectiveLeverage(t), m)
                            => IsAffordable(OrderPlan(t), m)
  BY LosesItsRisk, LeverageOutlivesStop, MarginAffords
=============================================================================
