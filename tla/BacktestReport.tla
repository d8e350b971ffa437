---------------------------- MODULE BacktestReport ----------------------------
(***************************************************************************)
(* What one backtest computes: the CSV file it reads                       *)
(* (backtesting/historical_replay.py), the trades of both directions as    *)
(* one account (run in scripts/backtest_csv.py), the time based exit that  *)
(* the API lays over them (api/routes/backtesting.py), the comparison of   *)
(* the profiles, and the second, older simulator of trades                 *)
(* (backtesting/trade_simulator.py and backtest_engine.py).                *)
(*                                                                         *)
(* What stands in a file is [column, header, rows]: the symbol in its      *)
(* symbol column, if it has one, whether its header is FULL, PARTIAL or    *)
(* NONE, and its rows, [t, bar], in the order they are written in.         *)
(***************************************************************************)
EXTENDS StrategyFunnel

CONSTANTS
  FixedRisk,        \* fixed_risk_amount, divisible by every stop distance
  StartingBalance,
  FeeBps            \* fee_rate of the older simulator, in 1/10000

ASSUME ReportAssumption ==
  FixedRisk \in Nat \ {0} /\ StartingBalance \in Nat \ {0} /\ FeeBps \in Nat

NoPrice == -1
Unknown == "UNKNOWN"   \* no symbol

-----------------------------------------------------------------------------
(* The file. *)

Timestamps(csv) == {csv.rows[i].t : i \in DOMAIN csv.rows}

(* load_ohlcv_csv_text with _candle_from_row and order_historical_candles: *)
(* a header must name every column, a file without one have a row, a row   *)
(* make a candle, and no minute occur twice.  The order is not demanded.   *)
Loadable(csv) ==
  /\ csv.header # "PARTIAL"
  /\ csv.header = "NONE" => csv.rows # <<>>
  /\ \A i \in DOMAIN csv.rows : WellFormed(csv.rows[i].bar)
  /\ Cardinality(Timestamps(csv)) = Len(csv.rows)

Load(csv) ==
  [t \in Timestamps(csv) |->
     csv.rows[CHOOSE i \in DOMAIN csv.rows : csv.rows[i].t = t].bar]

(* _detect_csv_symbol: from the column, which the first row must fill, or  *)
(* from the name; else the symbol the client typed, if it is one.          *)
DetectedSymbol(csv, named, typed) ==
  CASE csv.column # Unknown /\ csv.rows # <<>> -> csv.column
    [] (csv.column = Unknown \/ csv.rows = <<>>) /\ named # Unknown -> named
    [] OTHER -> typed

(* run raises on a file in which a series has a hole, and on one without   *)
(* candles, whose first it takes for the snapshot of the account.          *)
Runnable(csv) == csv.rows # <<>> /\ Readable(Load(csv))

-----------------------------------------------------------------------------
(* The trades of a run, as rows of its trade list. *)

(* calculate_pnl, and _pnl of the API *)
Pnl(kind, entry, exit, size) ==
  (IF kind = "HIGH" THEN entry - exit ELSE exit - entry) * size

(* The loops of the funnels visit the swings in order; run sorts the       *)
(* trades by entry, the bearish first where that leaves a choice.          *)
Before(a, b) ==
  \/ a.entry < b.entry
  \/ a.entry = b.entry /\ a.swing.kind = "HIGH" /\ b.swing.kind = "LOW"
  \/ a.entry = b.entry /\ a.swing.kind = b.swing.kind /\ a.swing.t < b.swing.t

OutcomeOf(trade) == IF trade.result = "OPEN" THEN "OPEN_OR_UNRESOLVED" ELSE trade.result

ReasonOf(trade) ==
  CASE trade.result = "LOSS" -> "STOP_LOSS_HIT"
    [] trade.result = "WIN"  -> "TAKE_PROFIT_HIT"
    [] trade.result = "OPEN" -> "DATA_ENDED_BEFORE_EXIT"

StopDistance(kind, price, stop) == IF kind = "HIGH" THEN stop - price ELSE price - stop

(* The record of a simulated trade: what is still open is marked to the    *)
(* last close.                                                             *)
Row(v, profile, trade) ==
  LET price == v.m[trade.entry].c
      size  == FixedRisk \div StopDistance(trade.swing.kind, price, trade.stop)
      last  == Latest(v.m)
      exit  == CASE trade.result = "LOSS" -> trade.stop
                 [] trade.result = "WIN"  -> trade.target
                 [] trade.result = "OPEN" -> v.m[last].c
  IN  [kind |-> trade.swing.kind, profile |-> profile, entry |-> trade.entry,
       price |-> price, stop |-> trade.stop, target |-> trade.target, size |-> size,
       exit |-> IF trade.result = "OPEN" THEN last ELSE trade.exit,
       exitPrice |-> exit, outcome |-> OutcomeOf(trade), reason |-> ReasonOf(trade),
       pnl |-> Pnl(trade.swing.kind, price, exit, size)]

(* A set in the order of a relation that is total on it: the i-th of its   *)
(* elements has i - 1 before it.  Like the sums and loops below, written   *)
(* out, since the proofs cannot look into operators on operators.          *)
InOrder(set, precedes) ==
  [i \in 1 .. Cardinality(set) |->
     CHOOSE x \in set : Cardinality({y \in set : <<y, x>> \in precedes}) = i - 1]

ByEntry(trades) == {pair \in trades \X trades : Before(pair[1], pair[2])}

RowsOf(v, profile, trades) ==
  LET ordered == InOrder(trades, ByEntry(trades))
  IN  [i \in DOMAIN ordered |-> Row(v, profile, ordered[i])]

(* Mutant: the directions one after the other. *)
TradeRowsByDirection(v, profile) ==
  RowsOf(v, profile, TradeList(v, "HIGH")) \o RowsOf(v, profile, TradeList(v, "LOW"))

TradeRows(v, profile) == RowsOf(v, profile, CombinedTrades(v))

-----------------------------------------------------------------------------
(* The account over a list of rows. *)

Closed(row) == row.outcome \in {"WIN", "LOSS"}

(* The running totals of numbers, 0 before the first. *)
Totals(numbers) ==
  LET total[i \in 0 .. Len(numbers)] ==
        IF i = 0 THEN 0 ELSE total[i - 1] + numbers[i]
  IN  total

(* What each of the rows with one of these outcomes has brought in. *)
Earned(rows, outcomes) ==
  [i \in DOMAIN rows |-> IF rows[i].outcome \in outcomes THEN rows[i].pnl ELSE 0]

Net(rows, outcomes) == Totals(Earned(rows, outcomes))[Len(rows)]

CountOf(rows, outcomes) == Cardinality({i \in DOMAIN rows : rows[i].outcome \in outcomes})

(* _apply_balances *)
Balances(rows) ==
  [i \in DOMAIN rows |-> StartingBalance + Totals(Earned(rows, {"WIN", "LOSS"}))[i]]

(* One turn of the loop of _max_drawdown, and all of them. *)
Drawn(state, row) ==
  LET balance == state.balance + row.pnl
      peak    == Max({state.peak, balance})
  IN  IF ~Closed(row) THEN state
      ELSE [balance |-> balance, peak |-> peak, worst |-> Max({state.worst, peak - balance})]

MaxDrawdown(rows) ==
  LET after[i \in 0 .. Len(rows)] ==
        IF i = 0 THEN [balance |-> StartingBalance, peak |-> StartingBalance, worst |-> 0]
        ELSE Drawn(after[i - 1], rows[i])
  IN  after[Len(rows)].worst

(* _performance_summary, and _time_exit_performance, whose closed trades   *)
(* include those that break even.                                          *)
Summary(rows, closed) ==
  [final |-> StartingBalance + Net(rows, closed), net |-> Net(rows, closed),
   profit |-> Net(rows, {"WIN"}), loss |-> Net(rows, {"LOSS"}),
   total |-> Len(rows), closed |-> CountOf(rows, closed),
   wins |-> CountOf(rows, {"WIN"}), losses |-> CountOf(rows, {"LOSS"}),
   unresolved |-> Len(rows) - CountOf(rows, closed)]

PerformanceSummary(rows) == Summary(rows, {"WIN", "LOSS"})
TimeExitPerformance(rows) == Summary(rows, {"WIN", "LOSS", "BREAKEVEN"})

(* One turn of the loop of _equity_curve_from_trades, and all of them. *)
Continued(curve, row) ==
  IF row.outcome \notin {"WIN", "LOSS", "BREAKEVEN"} THEN curve
  ELSE Append(curve, curve[Len(curve)] + row.pnl)

EquityCurve(rows) ==
  LET upTo[i \in 0 .. Len(rows)] ==
        IF i = 0 THEN <<StartingBalance>> ELSE Continued(upTo[i - 1], rows[i])
  IN  upTo[Len(rows)]

(* The holding times of _time_to_tp_metrics: of the trades at their target. *)
TimesToTarget(rows) ==
  {rows[i].exit - rows[i].entry :
     i \in {j \in DOMAIN rows : rows[j].outcome = "WIN" /\ rows[j].reason = "TAKE_PROFIT_HIT"}}

(* What run puts together from the trades of both directions. *)
Account(rows) ==
  [rows |-> rows, balances |-> Balances(rows), performance |-> PerformanceSummary(rows),
   drawdown |-> MaxDrawdown(rows), timesToTarget |-> TimesToTarget(rows)]

ReportOf(v, profile) == Account(TradeRows(v, profile))

(* _verify_profile_lock, the same in both files: the profile the client    *)
(* asked for, the one resolved, and the one of every trade.                *)
ProfileLockHolds(asked, resolved, rows) ==
  resolved = asked /\ \A i \in DOMAIN rows : rows[i].profile = asked

-----------------------------------------------------------------------------
(* The time based exit. *)

ResultOf(pnl) == IF pnl > 0 THEN "WIN" ELSE IF pnl < 0 THEN "LOSS" ELSE "BREAKEVEN"

Exited(row, exit, price, reason) ==
  LET pnl == Pnl(row.kind, row.price, price, row.size)
  IN  [row EXCEPT !.target = NoPrice, !.exit = exit, !.exitPrice = price,
                  !.reason = reason, !.pnl = pnl, !.outcome = ResultOf(pnl)]

NeverExited(row) ==
  [row EXCEPT !.target = NoPrice, !.exitPrice = NoPrice, !.reason = "DATA_UNAVAILABLE",
              !.pnl = 0, !.outcome = "OPEN_OR_UNRESOLVED"]

(* Mutant: the stop is looked at in the minute that is due, too. *)
TimeExitStopFirst(row, m, minutes) ==
  LET due     == row.entry + minutes
      stopped(t) == Stops(row.kind, m[t], row.stop)
      ends    == {t \in DOMAIN m : t > row.entry /\ (t >= due \/ stopped(t))}
  IN  IF ends = {} THEN NeverExited(row)
      ELSE IF stopped(Min(ends))
           THEN Exited(row, Min(ends), row.stop, "PROTECTIVE_SL")
           ELSE Exited(row, Min(ends), m[Min(ends)].c, "TIME_BASED_EXIT")

(* _time_exit_trade: the first candle that is due, or stops the trade      *)
(* before; in a due candle only the close counts.                          *)
TimeExit(row, m, minutes) ==
  LET due  == row.entry + minutes
      ends == {t \in DOMAIN m : t > row.entry /\ (t >= due \/ Stops(row.kind, m[t], row.stop))}
  IN  IF ends = {} THEN NeverExited(row)
      ELSE IF Min(ends) >= due
           THEN Exited(row, Min(ends), m[Min(ends)].c, "TIME_BASED_EXIT")
           ELSE Exited(row, Min(ends), row.stop, "PROTECTIVE_SL")

(* _apply_time_based_exit: the trades and the performance are new, the     *)
(* balances and the drawdown stay those of the run.                        *)
WithTimeExit(report, m, minutes) ==
  LET rows == [i \in DOMAIN report.rows |-> TimeExit(report.rows[i], m, minutes)]
  IN  [report EXCEPT !.rows = rows, !.performance = TimeExitPerformance(rows)]

-----------------------------------------------------------------------------
(* run_research_comparison: the bearish funnel of every profile, in which  *)
(* no gap is linked to an expansion.                                       *)

BearishRow(v, profile) ==
  [funnel |-> BearishFunnel(v), account |-> Account(RowsOf(v, profile, TradeList(v, "HIGH")))]

ComparisonRow(p, profile, minutes) == BearishRow(ViewWith(p, minutes, {}), profile)

-----------------------------------------------------------------------------
(* The older simulator.  A signal is [at, stop]: bearish, entered at the   *)
(* open of the first candle after it.                                      *)

(* calculate_fees; apply_bearish_entry_slippage and its mirror add nothing *)
(* at the 0 basis points every caller has.                                 *)
Fees(entry, exit, size) == ((entry + exit) * size * FeeBps) \div 10000

Skipped(reason, status) ==
  [entry |-> NoMinute, price |-> NoPrice, exit |-> NoMinute, exitPrice |-> NoPrice,
   reason |-> reason, status |-> status, gross |-> 0, net |-> 0]

(* The candle in which stop and target are both reached. *)
AmbiguousExit(policy, stop, target, close) ==
  CASE policy = "CONSERVATIVE_STOP_FIRST" -> [price |-> stop, reason |-> "STOP_LOSS", status |-> "CLOSED"]
    [] policy = "OPTIMISTIC_TP_FIRST"     -> [price |-> target, reason |-> "TAKE_PROFIT", status |-> "CLOSED"]
    [] OTHER                              -> [price |-> close, reason |-> "AMBIGUOUS", status |-> "AMBIGUOUS"]

(* Mutant: the target before the stop. *)
ExitInTargetFirst(policy, bar, stop, target) ==
  IF bar.l <= target
  THEN [price |-> target, reason |-> "TAKE_PROFIT", status |-> "CLOSED"]
  ELSE [price |-> stop, reason |-> "STOP_LOSS", status |-> "CLOSED"]

ExitIn(policy, bar, stop, target) ==
  IF bar.h >= stop /\ bar.l <= target THEN AmbiguousExit(policy, stop, target, bar.c)
  ELSE IF bar.h >= stop
       THEN [price |-> stop, reason |-> "STOP_LOSS", status |-> "CLOSED"]
       ELSE [price |-> target, reason |-> "TAKE_PROFIT", status |-> "CLOSED"]

(* simulate_trade, which raises unless the stop is above the entry. *)
SimulateSignal(signal, m, policy) ==
  LET later  == {t \in DOMAIN m : t > signal.at}
      first  == Min(later)
      entry  == m[first].o
      target == entry - FixedReward(signal.stop - entry)
      size   == FixedRisk \div (signal.stop - entry)
      early  == {t \in DOMAIN m : signal.at <= t /\ t < first /\ m[t].l <= target}
      hits   == {t \in later : m[t].h >= signal.stop \/ m[t].l <= target}
      at     == IF hits = {} THEN Latest(m) ELSE Min(hits)
      out    == IF hits = {}
                THEN [price |-> m[at].c, reason |-> "END_OF_DATA", status |-> "OPEN"]
                ELSE ExitIn(policy, m[at], signal.stop, target)
      gross  == Pnl("HIGH", entry, out.price, size)
  IN  IF later = {} THEN Skipped("NO_ENTRY_CANDLE", "SKIPPED_NO_ENTRY_CANDLE")
      ELSE IF early # {}
           THEN Skipped("TARGET_ALREADY_REACHED", "SKIPPED_TARGET_ALREADY_REACHED")
      ELSE IF policy = "SKIP_TRADE" /\ hits # {} /\ m[at].h >= signal.stop /\ m[at].l <= target
           THEN Skipped("AMBIGUOUS", "AMBIGUOUS")
      ELSE [entry |-> first, price |-> entry, exit |-> at + 1, exitPrice |-> out.price,
            reason |-> out.reason, status |-> out.status, gross |-> gross,
            net |-> gross - Fees(entry, out.price, size)]

(* calculate_metrics: only the signals that were entered count; the ending *)
(* balance is the last point of the curve of those that have an exit.      *)
EngineMetrics(trades) ==
  LET entered(i)    == trades[i].entry # NoMinute
      count(reason) ==
        Cardinality({i \in DOMAIN trades : entered(i) /\ trades[i].reason = reason})
      exits == [i \in DOMAIN trades |->
                  IF trades[i].exit # NoMinute THEN trades[i].net ELSE 0]
  IN  [wins |-> count("TAKE_PROFIT"), losses |-> count("STOP_LOSS"),
       ending |-> StartingBalance + Totals(exits)[Len(trades)]]

(* BacktestEngine.run_backtest: the signals one after the other, each as   *)
(* if it were the only one.                                                *)
EngineTrades(signals, m, policy) ==
  [i \in DOMAIN signals |-> SimulateSignal(signals[i], m, policy)]
=============================================================================
