--------------------------- MODULE MarketStructure ---------------------------
(***************************************************************************)
(* What the engines read off a candle series: swings (swings/swings.py),   *)
(* the research expansions of scripts/backtest_csv.py and fair value gaps  *)
(* (fvg/fvg.py), with the rules on how a candle taps a gap                 *)
(* (fvg/fvg_tap_rules.py, setup_tracker/setup_invalidation.py).            *)
(*                                                                         *)
(* Swings, expansions and gaps carry the candles they were found in, as    *)
(* their hashed identifiers do.  A gap of one direction is identified by   *)
(* its middle candle, so "the first" of a list is the earliest of a set.   *)
(***************************************************************************)
EXTENDS Candles

Kinds == {"HIGH", "LOW"}
Directions == {"BEARISH", "BULLISH"}

DirectionOf(kind) == IF kind = "HIGH" THEN "BEARISH" ELSE "BULLISH"

First(set) == CHOOSE x \in set : \A y \in set : x.t <= y.t

-----------------------------------------------------------------------------
(* Swings. *)

IsSwingHigh(window) == window[2].h > window[1].h /\ window[2].h > window[3].h
IsSwingLow(window)  == window[2].l < window[1].l /\ window[2].l < window[3].l

SwingHigh(tf, series, t) ==
  [kind |-> "HIGH", t |-> t, tf |-> tf, price |-> series[t].h,
   bars |-> Window(tf, series, t)]

SwingLow(tf, series, t) ==
  [kind |-> "LOW", t |-> t, tf |-> tf, price |-> series[t].l,
   bars |-> Window(tf, series, t)]

SwingHighs(tf, series) ==
  {SwingHigh(tf, series, t) :
     t \in {u \in Middles(tf, series) : IsSwingHigh(Window(tf, series, u))}}

SwingLows(tf, series) ==
  {SwingLow(tf, series, t) :
     t \in {u \in Middles(tf, series) : IsSwingLow(Window(tf, series, u))}}

(* detect_all_swings *)
Swings(tf, series) == SwingHighs(tf, series) \union SwingLows(tf, series)

LegStart(swing) == swing.t - swing.tf
C3(swing) == swing.t + swing.tf
ConfirmedAt(swing) == swing.t + 2 * swing.tf

-----------------------------------------------------------------------------
(* The expansion of a swing: its third candle, when it moves away from     *)
(* both others.  Twice the average range keeps the arithmetic whole.       *)

TwiceAverage(swing) == RangeSize(swing.bars[1]) + RangeSize(swing.bars[2])

Displacement(swing) ==
  LET b == swing.bars
  IN  IF swing.kind = "HIGH"
      THEN Max({b[1].l, b[2].l}) - b[3].l
      ELSE b[3].h - Min({b[1].h, b[2].h})

(* _research_expansions; an expansion is named by its swing. *)
Expansions(swings) == {s \in swings : TwiceAverage(s) > 0 /\ Displacement(s) > 0}

(* expansion_ratio within the bounds of a profile *)
RatioWithin(swing, low, high) ==
  /\ low * TwiceAverage(swing) <= 2 * RangeSize(swing.bars[3])
  /\ 2 * RangeSize(swing.bars[3]) <= high * TwiceAverage(swing)

-----------------------------------------------------------------------------
(* Fair value gaps. *)

NoGap == [t |-> -1, dir |-> "NONE"]

(* The expansion an engine relates to a gap by its middle candle, if it    *)
(* was given expansions: of two, the one indexed last, a low swing's.      *)
RelatedExpansion(t, expansions) ==
  LET own == {s \in expansions : C3(s) = t}
      low == {s \in own : s.kind = "LOW"}
  IN  IF low # {} THEN low ELSE own

(* _detect_window: the room between the first and the third candle. *)
BearishGap(tf, series, t, expansions) ==
  LET w == Window(tf, series, t)
  IN  [t |-> t, dir |-> "BEARISH", upper |-> w[1].l, lower |-> w[3].h,
       completion |-> w[3].l, c3 |-> t + tf, confirmed |-> t + 2 * tf,
       related |-> RelatedExpansion(t, expansions)]

BullishGap(tf, series, t, expansions) ==
  LET w == Window(tf, series, t)
  IN  [t |-> t, dir |-> "BULLISH", upper |-> w[3].l, lower |-> w[1].h,
       completion |-> w[3].h, c3 |-> t + tf, confirmed |-> t + 2 * tf,
       related |-> RelatedExpansion(t, expansions)]

(* detect_fvgs *)
Gaps(tf, series, expansions) ==
  LET w(t) == Window(tf, series, t)
  IN  {BearishGap(tf, series, t, expansions) :
         t \in {u \in Middles(tf, series) : w(u)[1].l > w(u)[3].h}}
      \union
      {BullishGap(tf, series, t, expansions) :
         t \in {u \in Middles(tf, series) : w(u)[1].h < w(u)[3].l}}

(* candle_touches_fvg *)
Touches(gap, bar) == bar.h >= gap.lower /\ bar.l <= gap.upper

(* close_above_12m_fvg and close_below_12m_fvg ask for a touch as well;    *)
(* the direct entry does not, its candle is a tap already.                 *)
ClosedAbove(gap, bar) == Touches(gap, bar) /\ bar.c > gap.upper
ClosedBelow(gap, bar) == Touches(gap, bar) /\ bar.c < gap.lower

(* fvg_inside_bearish_leg, fvg_inside_bullish_leg: a leg runs from the     *)
(* price of the swing to the completion candle of its main gap.            *)
InsideBearishLeg(gap, swing, main) ==
  gap.dir = "BEARISH" /\ gap.upper <= swing.price /\ gap.lower >= main.completion

InsideBullishLeg(gap, swing, main) ==
  gap.dir = "BULLISH" /\ gap.lower >= swing.price /\ gap.upper <= main.completion

(* high_sequence_invalidation_reason: of the touching candles one closes   *)
(* above, or the third strictly higher high forms.                         *)
HighSequenceInvalid(gap, bars) ==
  LET taps == SelectSeq(bars, LAMBDA b : Touches(gap, b))
      newHigh(i) == \A j \in 1 .. i - 1 : taps[i].h > taps[j].h
  IN  \/ \E i \in DOMAIN taps : taps[i].c > gap.upper
      \/ Cardinality({i \in DOMAIN taps : newHigh(i)}) >= 3

(* low_sequence_invalidation_reason *)
LowSequenceInvalid(gap, bars) ==
  LET taps == SelectSeq(bars, LAMBDA b : Touches(gap, b))
      newLow(i) == \A j \in 1 .. i - 1 : taps[i].l < taps[j].l
  IN  \/ \E i \in DOMAIN taps : taps[i].c < gap.lower
      \/ Cardinality({i \in DOMAIN taps : newLow(i)}) >= 3
=============================================================================
