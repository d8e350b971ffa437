------------------------------ MODULE LiveMarket ------------------------------
(***************************************************************************)
(* The market data of one pair and what the strategy makes of it: the      *)
(* rolling one-minute buffer that api/routes/monitoring.py refreshes from  *)
(* the exchange (exchange/bitget_environment.py), and the scan of          *)
(* live_setup_detection.py over it, beside the backtest over the market's  *)
(* own record.                                                             *)
(*                                                                         *)
(* The exchange also returns the minute in progress; the program keeps it  *)
(* as a closed candle until a later fetch covers it again.                 *)
(***************************************************************************)
EXTENDS StrategyFunnel

CONSTANTS
  Profiles,      \* strategy profiles explored
  Openings,      \* records of the market the exploration starts from
  Moves(_, _),   \* Moves(n, close): the candles minute n may bring
  HistoryLimit,  \* LIVE_CANDLE_HISTORY_LIMIT
  FetchLimit,    \* BITGET_CANDLE_REQUEST_LIMIT
  MinCandles,    \* candles below which no scan is made
  MaxMinutes     \* bound on the market's record

ASSUME MarketAssumption ==
  /\ {HistoryLimit, FetchLimit, MinCandles, MaxMinutes} \subseteq Nat \ {0}
  /\ FetchLimit <= HistoryLimit
  /\ \A record \in Openings : \E n \in 1 .. MaxMinutes : DOMAIN record = 0 .. n - 1

(* research_profiles.py: the profiles that match by the older rule do not  *)
(* link their gaps.                                                        *)
ASSUME ProfileAssumption ==
  \A p \in Profiles : ~(p.linked /\ p.legacy) /\ p.matchWindow \in Nat

VARIABLES
  profile,   \* the strategy profile in use
  tape,      \* the candles of the market's completed minutes
  buffer,    \* state.live_candles of the pair
  known,     \* the expansions in the persistent main-gap engine
  verdicts,  \* ghost: the first final verdict of each swing
  lapse      \* ghost: the first minute fetched after the polling last lapsed

vars == <<profile, tape, buffer, known, verdicts, lapse>>

Now == Cardinality(DOMAIN tape)

-----------------------------------------------------------------------------
(* The exchange. *)

LastClose == tape[Now - 1].c

(* The minute in progress, as far as it has gone: its first trade. *)
Forming == Bar(LastClose, LastClose, LastClose, LastClose)

(* The record with one more minute. *)
Extended(bar) == [t \in 0 .. Now |-> IF t = Now THEN bar ELSE tape[t]]

(* The rows the exchange returns: the newest size minutes. *)
Rows(size, inProgress) ==
  Newest(IF inProgress THEN Extended(Forming) ELSE tape, size)

(* A cold buffer is filled to the limit by backfill_candles, a full one is *)
(* refreshed by one request.                                               *)
Fetched(inProgress) ==
  Rows(IF Cardinality(DOMAIN buffer) < HistoryLimit THEN HistoryLimit ELSE FetchLimit,
       inProgress)

Minute ==
  /\ Now < MaxMinutes
  /\ \E bar \in Moves(Now, LastClose) : tape' = Extended(bar)
  /\ UNCHANGED <<profile, buffer, known, verdicts, lapse>>

-----------------------------------------------------------------------------
(* A poll of the pair. *)

(* Mutant: the expansion that was indexed first stays. *)
IndexedOnce(old, new) ==
  old \union {s \in new : /\ s \in RelatedExpansion(C3(s), new)
                          /\ \A e \in old : C3(e) # C3(s)}

(* _index_relationships: an expansion replaces an earlier one of the same  *)
(* candle and is never removed.                                            *)
Indexed(old, new) ==
  {s \in old : \A e \in new : C3(e) # C3(s)}
    \union {s \in new : s \in RelatedExpansion(C3(s), new)}

Scannable(minutes) ==
  /\ Cardinality(DOMAIN minutes) >= MinCandles
  /\ Readable(minutes)

LiveView == ViewWith(profile, buffer, known)

(* The buffer is the newest part of the market's record. *)
Current(minutes) ==
  /\ DOMAIN minutes = Min(DOMAIN minutes) .. Now - 1
  /\ \A t \in DOMAIN minutes : minutes[t] = tape[t]

(* Swings whose leg, and the candle before it, are still in the view. *)
Whole(view) ==
  {s \in view.swings : LegStart(s) - MainTf \in DOMAIN view.mainBars}

(* The final verdicts of a scan, an earlier one kept. *)
Remember(view) ==
  Over(verdicts, [s \in {x \in Whole(view) : Trace(view, x).terminal} |-> Trace(view, s)])

(* The buffer is refreshed; when it can be scanned, the engine indexes the *)
(* expansions and the tracer gives its verdicts.                           *)
Poll(inProgress) ==
  LET rows == Fetched(inProgress)
  IN  /\ buffer' = Merge(buffer, rows, HistoryLimit)
      /\ lapse' = IF buffer # Empty /\ Latest(buffer) < Min(DOMAIN rows)
                  THEN Min(DOMAIN rows) ELSE lapse
      /\ IF Scannable(buffer')
         THEN /\ known' = IF profile.linked
                          THEN Indexed(known, ScanExpansions(buffer')) ELSE known
              /\ \E view \in {ViewWith(profile, buffer', known')} :
                   verdicts' = IF Current(buffer') THEN Remember(view) ELSE verdicts
         ELSE UNCHANGED <<known, verdicts>>
      /\ UNCHANGED <<profile, tape>>

Init ==
  /\ profile \in Profiles
  /\ tape \in Openings
  /\ buffer = Empty
  /\ known = {}
  /\ verdicts = Empty
  /\ lapse = 0

PollClosed  == Poll(FALSE)
PollForming == Poll(TRUE)

Next == Minute \/ PollClosed \/ PollForming

Spec == Init /\ [][Next]_vars

-----------------------------------------------------------------------------
(* Properties. *)

(* The types of the variables; every candle has the shape the program      *)
(* demands of a Candle, the partial one included.                          *)
TypeOK ==
  /\ profile \in Profiles
  /\ DOMAIN tape = 0 .. Now - 1 /\ Now <= MaxMinutes
  /\ DOMAIN buffer \subseteq 0 .. Now
  /\ Cardinality(DOMAIN buffer) <= HistoryLimit
  /\ \A t \in DOMAIN tape : WellFormed(tape[t])
  /\ \A t \in DOMAIN buffer : WellFormed(buffer[t])
  /\ \A s \in known \union DOMAIN verdicts : s.kind \in Kinds
  /\ lapse \in 0 .. Now

(* The buffer holds what the market traded: from the first minute fetched  *)
(* after the polling last lapsed it has no hole, and every candle but the  *)
(* newest is the completed one, although polls inside a minute store       *)
(* partial candles as closed.                                              *)
BufferTrue ==
  buffer # Empty =>
    LET newest == Latest(buffer)
        from   == Max({lapse, Min(DOMAIN buffer)})
    IN  /\ from .. newest \subseteq DOMAIN buffer
        /\ \A t \in from .. newest - 1 : buffer[t] = tape[t]

(* The candles derived for every timeframe are those the market's whole    *)
(* record gives: a buffer that begins in the middle of a block, as the     *)
(* rolling one does, shifts no block.                                      *)
DerivedAsMarket ==
  buffer # Empty =>
    \A tf \in RequiredTfs :
      LET live == Profile(tf, buffer)
          full == Profile(tf, tape)
      IN  \A start \in DOMAIN live :
            start >= lapse /\ start + tf - 1 < Latest(buffer) =>
              start \in DOMAIN full /\ live[start] = full[start]

(* The radar's tracer and the funnel decide alike, for profiles that enter *)
(* on the retrace: the tracer's ENTRY_READY is the funnel's trade, with    *)
(* its entry minute, and its close-through and expiry are the funnel's.    *)
TracerAgreesWithFunnel ==
  Scannable(buffer) /\ profile.direct =>
    LET view == LiveView
    IN  \A s \in ValidExpansions(view, "HIGH") \union ValidExpansions(view, "LOW") :
      LET funnel == FunnelOutcome(view, s)
          trace  == Trace(view, s)
      IN  /\ (trace.stage = "ENTRY_READY") <=> (funnel.result = "direct_entry")
          /\ funnel.result = "direct_entry" =>
               trace.entry = funnel.entry /\ trace.target = funnel.target
          /\ (trace.reason = "CLOSE_THROUGH_12M_FVG")
               <=> (funnel.result = "closed_through_before_entry")
          /\ trace.reason = "RETRACE_WINDOW_EXPIRED"
               => funnel.result = "retrace_expired"

(* Every retrace the backtest counts ends as a rejection, a rejected risk  *)
(* or one listed trade, and no trade is listed twice or lost.              *)
Accounted(high, low, all) ==
  /\ Unaccounted(high) = 0 /\ Unaccounted(low) = 0
  /\ (high.signals - high.riskRejected) + (low.signals - low.riskRejected) = all.total
  /\ all.total = all.wins + all.losses + all.unresolved

FunnelAccounted ==
  profile.direct =>
    LET view == View(profile, tape)
    IN  Accounted(BearishFunnel(view), BullishFunnel(view), Performance(CombinedTrades(view)))

(* The tracer has said that an internal gap is missing and waits for one   *)
(* again: the scan has none at all any more, so that the deadline is taken *)
(* from the default timeframe, and not from the smaller one of the profile *)
(* (_internal_fvg_lookup_still_open).                                      *)
Reopened(view, s, verdict) ==
  /\ InternalTf < WindowUnit /\ view.internal = {}
  /\ verdict.reason = "FVG_8M_NOT_FOUND"
  /\ Trace(view, s) = Pending("FVG_12M_CONFIRMED")

(* A verdict the tracer calls terminal, given on closed candles without a  *)
(* gap, is never revised by later candles while the swing is in view: the  *)
(* radar resolves the swing for good on it.  One of a missing internal gap *)
(* may be withdrawn for some minutes, with nothing new found in them.      *)
(* FVG_12M_NOT_FOUND is left out (see README).                             *)
VerdictIsFinal ==
  Scannable(buffer) /\ Current(buffer) =>
    LET view == LiveView
    IN  \A s \in DOMAIN verdicts \intersect Whole(view) :
          verdicts[s].reason # "FVG_12M_NOT_FOUND" =>
            \/ Trace(view, s) = verdicts[s]
            \/ Reopened(view, s, verdicts[s])

(* The engine of the main gaps outlives the scan and remembers expansions  *)
(* of earlier scans, also of candles that were still partial: for the      *)
(* swings of this scan it finds the gap a fresh engine finds.              *)
StaleIndexHarmless ==
  Scannable(buffer) =>
    LET live  == LiveView
        fresh == View(profile, buffer)
    IN  \A s \in live.expansions : MainGap(live, s) = MainGap(fresh, s)

(* A trade the backtest reports as won or lost stays as reported when the  *)
(* record grows.                                                           *)
Reported(minutes) ==
  LET view == View(profile, minutes)
  IN  {t \in CombinedTrades(view) : t.result \in {"WIN", "LOSS"}}

TradeIsFinal == [][tape' # tape => Reported(tape) \subseteq Reported(tape')]_vars
=============================================================================
