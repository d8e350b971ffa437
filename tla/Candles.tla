------------------------------- MODULE Candles -------------------------------
(***************************************************************************)
(* Candle series: src/backend/arjiobot/market_data/candle_models.py,       *)
(* backtesting/historical_replay.py and the rolling buffer of              *)
(* api/routes/monitoring.py.                                               *)
(*                                                                         *)
(* A series of one symbol and timeframe is a function from the start of a  *)
(* candle, in minutes since midnight UTC, to its prices: a timestamp       *)
(* occurs once and the order is that of the integers, as                   *)
(* order_historical_candles demands.  Every candle of a series is CLOSED   *)
(* as far as the program knows.                                            *)
(***************************************************************************)
EXTENDS Integers, FiniteSets, FiniteSetsExt, SequencesExt, Functions, TLC

Bar(open, high, low, close) == [o |-> open, h |-> high, l |-> low, c |-> close]

(* Candle.__post_init__ refuses any other shape. *)
WellFormed(bar) ==
  /\ bar.h >= bar.o /\ bar.h >= bar.c /\ bar.h >= bar.l
  /\ bar.l <= bar.o /\ bar.l <= bar.c

RangeSize(bar) == bar.h - bar.l

Empty == <<>>

(* The last minute of a series, without comparing every pair. *)
Latest(series) == -Min({-t : t \in DOMAIN series})

(* order_historical_candles: the timestamps in order. *)
Ordered(series) ==
  LET first == Min(DOMAIN series)
      span  == [i \in 1 .. Latest(series) - first + 1 |-> first + i - 1]
  IN  IF series = Empty THEN <<>> ELSE SelectSeq(span, LAMBDA t : t \in DOMAIN series)

(* The values of a series from start on, oldest first. *)
BarsFrom(series, start) ==
  LET times == SelectSeq(Ordered(series), LAMBDA t : t >= start)
  IN  [i \in DOMAIN times |-> series[times[i]]]

(* ordered[-size:], the candles with fewer than size candles after them. *)
Newest(series, size) ==
  Restrict(series, {t \in DOMAIN series :
                      Cardinality({u \in DOMAIN series : u > t}) < size})

(* One series laid over another, for a minute in both the upper one wins.  *)
(* Written out, since the proofs cannot look into TLC's @@.                *)
Over(upper, lower) ==
  [t \in DOMAIN upper \union DOMAIN lower |->
     IF t \in DOMAIN upper THEN upper[t] ELSE lower[t]]

(* Mutant: what the buffer already holds wins. *)
MergeKeepingExisting(existing, fresh, size) == Newest(Over(existing, fresh), size)

(* Mutant: nothing is evicted. *)
MergeUnbounded(existing, fresh, size) == Over(fresh, existing)

(* _merge_live_candles: the fresh candle wins, the newest size minutes     *)
(* stay.                                                                   *)
Merge(existing, fresh, size) == Newest(Over(fresh, existing), size)

(* Timeframe.is_aligned: buckets are counted from midnight. *)
Aligned(tf, time) == time % tf = 0

(* build_synthetic_candle *)
Synthetic(tf, minutes, start) ==
  LET block == start .. (start + tf - 1)
  IN  Bar(minutes[start].o,
          Max({minutes[t].h : t \in block}),
          Min({minutes[t].l : t \in block}),
          minutes[start + tf - 1].c)

(* Mutant: blocks are counted from the first candle of the series. *)
BlocksFromFirst(tf, minutes) ==
  {t \in DOMAIN minutes : /\ (t - Min(DOMAIN minutes)) % tf = 0
                          /\ t .. t + tf - 1 \subseteq DOMAIN minutes}

(* Where the group of tf candles that begins at start is over.             *)
GroupEnd(tf, times, start, last) ==
  Min({t \in start + 1 .. last + 1 :
         t = last + 1 \/ Cardinality(times \intersect start .. t - 1) = tf})

(* build_timeframe_profile takes tf candles at a time from the first       *)
(* aligned one.  A group with a gap in it is dropped and the next group    *)
(* begins after its last candle, so the complete block in which a gap      *)
(* ends may be dropped with it.                                            *)
BlocksFrom(tf, times, first, last) ==
  LET from[t \in first .. last + 1] ==
        IF t > last THEN {}
        ELSE IF t \notin times \/ ~Aligned(tf, t) THEN from[t + 1]
        ELSE IF t .. t + tf - 1 \subseteq times THEN {t} \union from[t + tf]
        ELSE from[GroupEnd(tf, times, t, last)]
  IN  from[first]

Blocks(tf, minutes) ==
  IF minutes = Empty THEN {}
  ELSE BlocksFrom(tf, DOMAIN minutes, Min(DOMAIN minutes), Latest(minutes))

Profile(tf, minutes) ==
  IF tf = 1 THEN minutes
  ELSE [start \in Blocks(tf, minutes) |-> Synthetic(tf, minutes, start)]

(* What both detection engines require of three neighbours: with a missing *)
(* candle anywhere the scan raises.                                        *)
Broken(tf, series) ==
  LET times == DOMAIN series
  IN  Cardinality(times) >= 3 /\ \E t \in times \ {Min(times)} : t - tf \notin times

(* The middle candles of the windows a scan looks at. *)
Middles(tf, series) ==
  {t \in DOMAIN series : t - tf \in DOMAIN series /\ t + tf \in DOMAIN series}

Window(tf, series, middle) ==
  <<series[middle - tf], series[middle], series[middle + tf]>>
=============================================================================
