---------------------------- MODULE StrategyFunnel ----------------------------
(***************************************************************************)
(* The strategy of src/backend/scripts/backtest_csv.py, which the backtest *)
(* and the live radar share: a swing with its expansion, the main ("16M")  *)
(* gap, a retrace ("12M") gap and an internal ("8M") gap inside the leg,   *)
(* the retrace window, the entry, and the simulation of the trade.         *)
(*                                                                         *)
(* The source decides every swing twice: the funnel, whose trades are      *)
(* reported, and the attempt tracer, whose verdicts move the radar's rows. *)
(* Both are operators on a view: the series and structures of one scan.    *)
(***************************************************************************)
EXTENDS MarketStructure

CONSTANTS
  SwingTf, MainTf, RetraceTf, InternalTf,  \* timeframe profile, in minutes
  WindowTf,          \* retrace_window_timeframe
  ReportTfs,         \* timeframes scanned in every profile: 3 and 60
  WindowUnit,        \* minutes of a "window candle" in the deadlines: 8
  RetraceWindow,     \* retrace_window_8m_candles
  Delay,             \* fvg_delay_16m_candles
  DefaultRetraceTf,  \* timeframe assumed while no retrace gap is known: 12
  RrNum, RrDen,      \* RR of the fixed take profit: 3 / 2
  MaxLeverage

ASSUME FunnelAssumption ==
  /\ {SwingTf, MainTf, RetraceTf, InternalTf, WindowTf} \union ReportTfs
       \subseteq Nat \ {0, 1}
  /\ {WindowUnit, RetraceWindow, DefaultRetraceTf, RrNum, RrDen, MaxLeverage}
       \subseteq Nat \ {0}
  /\ Delay \in Nat

NoMinute == -1

RequiredTfs == {SwingTf, MainTf, RetraceTf, InternalTf, WindowTf} \union ReportTfs

(* A scan raises when a required series misses a candle. *)
Readable(minutes) == \A tf \in RequiredTfs : ~Broken(tf, Profile(tf, minutes))

(* The series, swings, expansions and gaps of one scan of minutes.  p is   *)
(* the strategy profile, known the expansions the engine of the main gaps  *)
(* was ever given: those of this scan, or of earlier ones too.             *)
ScanExpansions(minutes) == Expansions(Swings(SwingTf, Profile(SwingTf, minutes)))

ViewWith(p, minutes, known) ==
  LET main   == Profile(MainTf, minutes)
      swings == Swings(SwingTf, Profile(SwingTf, minutes))
  IN  [p |-> p, m |-> minutes, swings |-> swings,
       expansions |-> Expansions(swings),
       mainBars |-> main, windowBars |-> Profile(WindowTf, minutes),
       main     |-> Gaps(MainTf, main, IF p.linked THEN known ELSE {}),
       retrace  |-> Gaps(RetraceTf, Profile(RetraceTf, minutes), {}),
       internal |-> Gaps(InternalTf, Profile(InternalTf, minutes), {})]

View(p, minutes) == ViewWith(p, minutes, ScanExpansions(minutes))

-----------------------------------------------------------------------------
(* Matching, shared by the funnel and the tracer. *)

(* _profile_valid_expansions: of the candidate swings, whose expansion is  *)
(* their third candle.                                                     *)
ValidExpansions(v, kind) ==
  {s \in v.expansions : s.kind = kind /\ RatioWithin(s, v.p.ratioMin, v.p.ratioMax)}

(* _effective_main_fvg_match_window_candles *)
MatchWindow(p) == IF p.legacy THEN Max({p.matchWindow, 3}) ELSE p.matchWindow

(* _one_fvg_matches_expansion *)
MatchesExpansion(v, gap, s) ==
  /\ gap.dir = DirectionOf(s.kind)
  /\ gap.related \subseteq {s}
  /\ IF v.p.legacy
     THEN LegStart(s) <= gap.t /\ gap.t <= C3(s) + s.tf * MatchWindow(v.p)
     ELSE gap.t = C3(s) /\ gap.c3 = C3(s) + s.tf * (Delay + 1)

MainGap(v, s) ==
  LET found == {gap \in v.main : MatchesExpansion(v, gap, s)}
  IN  IF found = {} THEN NoGap ELSE First(found)

InsideLeg(gap, s, main) ==
  IF s.kind = "HIGH" THEN InsideBearishLeg(gap, s, main)
                     ELSE InsideBullishLeg(gap, s, main)

(* _fvgs_inside_leg from the confirmation of the main gap on, with no end. *)
RetraceGaps(v, s, main) ==
  {gap \in v.retrace : gap.confirmed >= main.confirmed /\ InsideLeg(gap, s, main)}

InternalWindowEnd(main) == main.confirmed + WindowUnit * Max({RetraceWindow, 3})

(* _internal_fvgs_inside_match_window *)
InternalGaps(v, s, main) ==
  {gap \in v.internal : /\ LegStart(s) <= gap.t
                        /\ gap.t <= InternalWindowEnd(main)
                        /\ InsideLeg(gap, s, main)}

(* The first RetraceWindow window candles after the main gap. *)
Retracement(v, main) ==
  LET after == {t \in DOMAIN v.windowBars : t >= main.confirmed}
  IN  {t \in after : Cardinality({u \in after : u < t}) < RetraceWindow}

WindowComplete(window) == Cardinality(window) = RetraceWindow

(* _first_1m_retrace_into_12m_fvg_within_8m_window *)
FirstRetrace(v, gap, main, window) ==
  LET taps == {t \in DOMAIN v.m : /\ t >= main.confirmed
                                  /\ t + 1 <= Max(window) + WindowTf
                                  /\ Touches(gap, v.m[t])}
  IN  IF taps = {} THEN NoMinute ELSE Min(taps)

(* final_target: the leg's completion or what the window went beyond it. *)
BearishTarget(v, main, window) ==
  Min({main.completion} \union {v.windowBars[t].l : t \in window})
BullishTarget(v, main, window) ==
  Max({main.completion} \union {v.windowBars[t].h : t \in window})
FinalTarget(v, kind, main, window) ==
  IF kind = "HIGH" THEN BearishTarget(v, main, window) ELSE BullishTarget(v, main, window)

-----------------------------------------------------------------------------
(* The entry.  A swing high is traded down, a swing low up. *)

(* The close that ends a setup, and a candle that reaches a price in the   *)
(* direction of the trade, or against it.                                  *)
ClosesThrough(kind, gap, bar) ==
  IF kind = "HIGH" THEN bar.c > gap.upper ELSE bar.c < gap.lower
Reaches(kind, bar, price) == IF kind = "HIGH" THEN bar.l <= price ELSE bar.h >= price
Stops(kind, bar, price)   == IF kind = "HIGH" THEN bar.h >= price ELSE bar.l <= price

(* Mutant: a tap that closes through is skipped, not the end. *)
DirectEntryAtLaterTap(v, s, gap, retrace) ==
  LET taps == {t \in DOMAIN v.m :
                 /\ t >= retrace /\ Touches(gap, v.m[t])
                 /\ ~ClosesThrough(s.kind, gap, v.m[t])}
  IN  IF taps = {} THEN NoMinute ELSE Min(taps)

(* _classify_direct_12m_retrace_entry_for_direction: the first tap enters  *)
(* unless it closes through the gap; later taps are counted and ignored.   *)
DirectEntry(v, s, gap, retrace) ==
  LET taps == {t \in DOMAIN v.m : t >= retrace /\ Touches(gap, v.m[t])}
  IN  IF taps = {} \/ ClosesThrough(s.kind, gap, v.m[Min(taps)])
      THEN NoMinute ELSE Min(taps)

(* _is_swing_high_at and its mirror, on consecutive one-minute candles.    *)
HighAt(bars, i) == i > 1 /\ i < Len(bars) /\ IsSwingHigh(SubSeq(bars, i - 1, i + 1))
LowAt(bars, i)  == i > 1 /\ i < Len(bars) /\ IsSwingLow(SubSeq(bars, i - 1, i + 1))
SwingAt(kind, bars, i) == IF kind = "HIGH" THEN HighAt(bars, i) ELSE LowAt(bars, i)

FirstTap(gap, bars) ==
  LET taps == {i \in DOMAIN bars : Touches(gap, bars[i])}
  IN  IF taps = {} THEN 0 ELSE Min(taps)

(* _third_1m_high_forms_inside_fvg and its mirror *)
ThirdForms(kind, gap, bars, first) ==
  \E i \in first .. Min({Len(bars) - 1, first + 3}) :
    SwingAt(kind, bars, i) /\ Touches(gap, bars[i])

(* _first_bearish_1m_expansion_index: 0 when there is none. *)
FirstDrop(bars, first) ==
  LET drop(i) == LET sum == RangeSize(bars[i-2]) + RangeSize(bars[i-1])
                 IN  /\ sum > 0
                     /\ 2 * RangeSize(bars[i]) >= sum
                     /\ bars[i].l < Min({bars[i-2].l, bars[i-1].l})
      drops == {i \in Max({3, first}) .. Len(bars) : drop(i)}
  IN  IF drops = {} THEN 0 ELSE Min(drops)

(* _first_bullish_1m_expansion_index *)
FirstRally(bars, first) ==
  LET rally(i) == LET sum == RangeSize(bars[i-2]) + RangeSize(bars[i-1])
                  IN  /\ sum > 0
                      /\ 2 * RangeSize(bars[i]) >= sum
                      /\ bars[i].h > Max({bars[i-2].h, bars[i-1].h})
      rallies == {i \in Max({3, first}) .. Len(bars) : rally(i)}
  IN  IF rallies = {} THEN 0 ELSE Min(rallies)

MoveFrom(kind, bars, first) ==
  IF kind = "HIGH" THEN FirstDrop(bars, first) ELSE FirstRally(bars, first)

(* _fvg_retest_seen: a candle that begins after the gap's third has closed *)
(* and another minute has begun touches it.                                *)
Retested(gap, bars) == \E i \in gap.confirmed + 1 .. Len(bars) : Touches(gap, bars[i])

(* The tail of _classify_1m_confirmation: after the expansion a gap of the *)
(* direction must form, and its first or second be tapped again.           *)
Retest(bars, move, dir) ==
  LET gaps == {g \in Gaps(1, bars, {}) : g.dir = dir /\ g.t > move - 2}
      first == First(gaps)
      later == gaps \ {first}
  IN  IF gaps = {} THEN "no_1m_fvg"
      ELSE IF Retested(first, bars) THEN "entry_ready"
      ELSE IF later = {} THEN "no_return_to_first"
      ELSE IF Retested(First(later), bars) THEN "entry_ready"
      ELSE "no_return_to_second"

(* _classify_1m_confirmation: the tap, or the candle after it, must be a   *)
(* swing; no third may form; then an expansion, a gap and its retest.      *)
Confirmation(kind, gap, bars, target) ==
  LET tap    == FirstTap(gap, bars)
      second == tap + 1
      done   == IF SwingAt(kind, bars, tap) THEN tap + 1 ELSE tap + 2
      move   == MoveFrom(kind, bars, done + 1)
  IN  IF tap <= 1 \/ tap >= Len(bars) THEN "no_first_swing"
      ELSE IF \E i \in 1 .. tap : Reaches(kind, bars[i], target) THEN "entry_window_expired"
      ELSE IF ClosesThrough(kind, gap, bars[tap]) THEN "closed_through_1m"
      ELSE IF ~SwingAt(kind, bars, tap) /\ second >= Len(bars) THEN "no_second_swing"
      ELSE IF ~SwingAt(kind, bars, tap) /\ ClosesThrough(kind, gap, bars[second])
           THEN "closed_through_1m"
      ELSE IF ~SwingAt(kind, bars, tap) /\ ~SwingAt(kind, bars, second)
           THEN "no_second_swing"
      ELSE IF ThirdForms(kind, gap, bars, done + 1) THEN "third_swing_1m"
      ELSE IF move = 0 THEN "no_1m_expansion"
      ELSE Retest(bars, move, DirectionOf(kind))

BearishConfirmation(gap, bars, target) == Confirmation("HIGH", gap, bars, target)
BullishConfirmation(gap, bars, target) == Confirmation("LOW", gap, bars, target)

-----------------------------------------------------------------------------
(* The funnel: what becomes of one valid expansion. *)

NoRetraceGap == [t |-> -1, dir |-> "NONE"]

Outcome(result, gap, entry, target) ==
  [result |-> result, gap |-> gap, entry |-> entry, target |-> target]

Rejected(result) == Outcome(result, NoRetraceGap, NoMinute, 0)

(* After the retrace of a profile that wants one-minute confirmation.      *)
Reaction(v, s, gap, retrace, goal) ==
  LET after == BarsFrom(v.m, retrace + 1)
      three == SubSeq(after, 1, Min({3, Len(after)}))
      closed(b) == IF s.kind = "HIGH" THEN ClosedAbove(gap, b) ELSE ClosedBelow(gap, b)
  IN  IF \E i \in DOMAIN after : closed(after[i]) THEN "closed_through"
      ELSE IF IF s.kind = "HIGH" THEN HighSequenceInvalid(gap, three)
                                 ELSE LowSequenceInvalid(gap, three)
           THEN "third_swing"
      ELSE IF \E i \in DOMAIN after : Reaches(s.kind, after[i], goal) THEN "target_reached"
      ELSE IF s.kind = "HIGH"
           THEN BearishConfirmation(gap, BarsFrom(v.m, gap.confirmed), goal)
           ELSE BullishConfirmation(gap, BarsFrom(v.m, gap.confirmed), goal)

(* One turn of the loop of _build_strategy_funnel, or of its mirror. *)
FunnelOutcome(v, s) ==
  LET main    == MainGap(v, s)
      gaps    == RetraceGaps(v, s, main)
      gap     == First(gaps)
      window  == Retracement(v, main)
      retrace == FirstRetrace(v, gap, main, window)
      goal    == FinalTarget(v, s.kind, main, window)
      entry   == DirectEntry(v, s, gap, retrace)
  IN  IF main = NoGap THEN Rejected("no_fvg16")
      ELSE IF gaps = {} THEN Rejected("no_12m")
      ELSE IF InternalGaps(v, s, main) = {} THEN Rejected("no_8m")
      ELSE IF ~WindowComplete(window) \/ retrace = NoMinute
           THEN Rejected("retrace_expired")
      ELSE IF ~v.p.direct
           THEN Outcome(Reaction(v, s, gap, retrace, goal), gap, NoMinute, goal)
      ELSE IF entry = NoMinute
           THEN Outcome("closed_through_before_entry", gap, NoMinute, goal)
      ELSE Outcome("direct_entry", gap, entry, goal)

-----------------------------------------------------------------------------
(* The simulation of a trade. *)

(* calculate_isolated_margin_plan, which PROFILE_2 replaces by a plan      *)
(* without the cap: the leverage that puts the margin at risk.             *)
LeverageAllowed(p, entry, risk) == p.uncapped \/ entry <= MaxLeverage * risk

Trade(s, outcome, stop, target, result, exit) ==
  [swing |-> s, gap |-> outcome.gap, entry |-> outcome.entry, stop |-> stop,
   target |-> target, result |-> result, exit |-> exit]

(* Mutant: the last candle that reaches a limit. *)
LastHit(hits) == Max(hits)

ExitCandle(hits) == Min(hits)

(* The first later candle that reaches the stop or the target decides, the *)
(* stop before the target.                                                 *)
Decide(v, s, outcome, target) ==
  LET stopped(t) == Stops(s.kind, v.m[t], s.price)
      hits == {t \in DOMAIN v.m : /\ t > outcome.entry
                                  /\ stopped(t) \/ Reaches(s.kind, v.m[t], target)}
  IN  IF hits = {} THEN Trade(s, outcome, s.price, target, "OPEN", NoMinute)
      ELSE Trade(s, outcome, s.price, target,
                 IF stopped(ExitCandle(hits)) THEN "LOSS" ELSE "WIN", ExitCandle(hits))

(* _fixed_risk_trade_math_for_profile: the end of the leg, or a multiple   *)
(* of the risk.                                                            *)
TakeProfit(p, goal, entry, reward) == IF p.legTarget THEN goal ELSE entry + reward

FixedReward(risk) == (RrNum * risk) \div RrDen

SimulateBearish(v, s, outcome) ==
  LET entry  == v.m[outcome.entry].c
      risk   == s.price - entry
      target == TakeProfit(v.p, outcome.target, entry, -FixedReward(risk))
  IN  IF risk <= 0 \/ target >= entry \/ ~LeverageAllowed(v.p, entry, risk)
      THEN Trade(s, outcome, s.price, outcome.target, "RISK_REJECTED", NoMinute)
      ELSE Decide(v, s, outcome, target)

SimulateBullish(v, s, outcome) ==
  LET entry  == v.m[outcome.entry].c
      risk   == entry - s.price
      target == TakeProfit(v.p, outcome.target, entry, FixedReward(risk))
  IN  IF risk <= 0 \/ target <= entry \/ ~LeverageAllowed(v.p, entry, risk)
      THEN Trade(s, outcome, s.price, outcome.target, "RISK_REJECTED", NoMinute)
      ELSE Decide(v, s, outcome, target)

Simulate(v, s, outcome) ==
  IF s.kind = "HIGH" THEN SimulateBearish(v, s, outcome)
                     ELSE SimulateBullish(v, s, outcome)

(* Every direct entry, simulated; trade_list leaves out the rejected.      *)
Outcomes(v, kind) == [s \in ValidExpansions(v, kind) |-> FunnelOutcome(v, s)]

Entries(outcomes) == {s \in DOMAIN outcomes : outcomes[s].result = "direct_entry"}

Simulated(v, kind) ==
  LET outcomes == Outcomes(v, kind)
  IN  {Simulate(v, s, outcomes[s]) : s \in Entries(outcomes)}

(* Mutant: rejected trades are listed too. *)
TradeListAll(v, kind) == Simulated(v, kind)

TradeList(v, kind) == {t \in Simulated(v, kind) : t.result # "RISK_REJECTED"}

(* The funnel's own counters ... *)
FunnelCounters(outcomes, trades) ==
  LET count(result) ==
        Cardinality({s \in DOMAIN outcomes : outcomes[s].result = result})
  IN  [passedRetrace |->
         Cardinality({s \in DOMAIN outcomes : outcomes[s].gap # NoRetraceGap}),
       beforeEntry  |-> count("closed_through_before_entry"),
       signals      |-> count("direct_entry"),
       riskRejected |-> Cardinality({t \in trades : t.result = "RISK_REJECTED"})]

Funnel(v, kind) == FunnelCounters(Outcomes(v, kind), Simulated(v, kind))

BearishFunnel(v) == Funnel(v, "HIGH")
BullishFunnel(v) == Funnel(v, "LOW")

(* ... and run's trades of both directions, with their summary. *)
CombinedTrades(v) == TradeList(v, "HIGH") \union TradeList(v, "LOW")

Performance(trades) ==
  LET count(result) == Cardinality({t \in trades : t.result = result})
  IN  [total |-> Cardinality(trades), wins |-> count("WIN"), losses |-> count("LOSS"),
       unresolved |-> count("OPEN")]

(* unaccounted_after_retrace, for a profile that enters on the retrace. *)
Unaccounted(funnel) == funnel.passedRetrace - funnel.beforeEntry - funnel.signals

-----------------------------------------------------------------------------
(* The attempt tracer: how far a swing has come, and whether that is final. *)

LatestClose(v) == Latest(v.m) + 1

(* Mutant: the wider window of the legacy match is forgotten. *)
MainLookupOpenImmediate(v, s) == LatestClose(v) < C3(s) + s.tf * (Delay + 2)

(* _main_fvg_lookup_still_open: the last candle a match could end with is  *)
(* not there yet, or was lost in a gap.                                    *)
MainLookupOpen(v, s) ==
  LET c2 == C3(s) + s.tf * (IF v.p.legacy THEN MatchWindow(v.p) ELSE Delay)
      c3 == c2 + s.tf
  IN  \/ /\ DOMAIN v.mainBars # {}
         /\ \/ Latest(v.mainBars) + MainTf < c3 + s.tf
            \/ c3 \notin DOMAIN v.mainBars
      \/ LatestClose(v) < c3 + s.tf

(* _retrace_fvg_lookup_still_open, _internal_fvg_lookup_still_open *)
LookupDeadline(main, tf) == main.confirmed + WindowUnit * RetraceWindow + 2 * tf

RetraceLookupOpen(v, main) ==
  LatestClose(v) <
    LookupDeadline(main, IF v.retrace = {} THEN DefaultRetraceTf ELSE RetraceTf)

InternalLookupOpen(v, main) ==
  LatestClose(v) < LookupDeadline(main, IF v.internal = {} THEN WindowUnit ELSE InternalTf)

Verdict(stage, reason, terminal) ==
  [stage |-> stage, reason |-> reason, terminal |-> terminal,
   entry |-> NoMinute, stop |-> 0, target |-> 0]

Pending(stage) == Verdict(stage, "NONE", FALSE)
Invalidated(stage, reason) == Verdict(stage, reason, TRUE)

EntryReady(s, tap, target) ==
  [stage |-> "ENTRY_READY", reason |-> "NONE", terminal |-> TRUE,
   entry |-> tap, stop |-> s.price, target |-> target]

(* _attempt_traces_for_direction, one candidate swing: with an expansion   *)
(* and a main gap, up to the retrace gap ...                               *)
TraceRetrace(v, s, main, gap) ==
  LET window  == Retracement(v, main)
      retrace == FirstRetrace(v, gap, main, window)
      taps    == {t \in DOMAIN v.m : t >= retrace /\ Touches(gap, v.m[t])}
      tap     == Min(taps)
      target  == FinalTarget(v, s.kind, main, window)
  IN  IF ~WindowComplete(window) THEN Pending("FVG_8M_CONFIRMED")
      ELSE IF retrace = NoMinute
           THEN Invalidated("FVG_8M_CONFIRMED", "RETRACE_WINDOW_EXPIRED")
      ELSE IF ClosesThrough(s.kind, gap, v.m[tap])
           THEN Invalidated("FVG_8M_CONFIRMED", "CLOSE_THROUGH_12M_FVG")
      ELSE EntryReady(s, tap, target)

(* ... and from there.                                                     *)
TraceGaps(v, s, main) ==
  LET gaps == RetraceGaps(v, s, main)
  IN  IF gaps = {}
      THEN IF RetraceLookupOpen(v, main) THEN Pending("FVG_16M_CONFIRMED")
           ELSE Invalidated("FVG_16M_CONFIRMED", "FVG_12M_NOT_FOUND")
      ELSE IF InternalGaps(v, s, main) = {}
      THEN IF InternalLookupOpen(v, main) THEN Pending("FVG_12M_CONFIRMED")
           ELSE Invalidated("FVG_12M_CONFIRMED", "FVG_8M_NOT_FOUND")
      ELSE TraceRetrace(v, s, main, First(gaps))

Trace(v, s) ==
  LET main == MainGap(v, s)
  IN  IF s \notin ValidExpansions(v, s.kind)
      THEN Invalidated("SWING_16M_CONFIRMED", "EXPANSION_NOT_CONFIRMED")
      ELSE IF main = NoGap
      THEN IF MainLookupOpen(v, s) THEN Pending("EXPANSION_16M_CONFIRMED")
           ELSE Invalidated("EXPANSION_16M_CONFIRMED", "FVG_16M_NOT_FOUND")
      ELSE TraceGaps(v, s, main)
=============================================================================
