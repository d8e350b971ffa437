----------------------------- MODULE SetupRadar -----------------------------
(***************************************************************************)
(* The Setup Radar of src/backend/arjiobot/live_setup_detection.py: how a  *)
(* candidate swing becomes a tracked setup, how it leaves IN PROGRESS, and *)
(* which deduplication state keeps it from coming back.                    *)
(*                                                                         *)
(* A poll walks every candidate swing through three stages, in this order: *)
(* the filter (_candidate_swing_filter_diagnostics), the attempt trace     *)
(* (_apply_one_attempt_trace) and the trade hand-off (the second half of   *)
(* detect_live_setups_for_symbol).  What the strategy funnel finds for a   *)
(* swing is an input here (Outcomes); live automation's decisions act on   *)
(* the rows the radar holds and are opened up in LiveAutomation.           *)
(***************************************************************************)
EXTENDS Integers, Sequences, FiniteSets

CONSTANTS
  Swings,            \* candidate swings (one symbol and direction each)
  BornAt,            \* BornAt[s]: minute of the swing's right candle
  Entries,           \* entry candles the funnel may find for a swing
  RetryableReasons,  \* invalidation reasons of RETRYABLE_TIMING_INVALIDATIONS
  FatalReasons,      \* every other strategy invalidation reason
  StalenessWindow,   \* STALENESS_WINDOW_MINUTES
  KeyExpiry,         \* RESOLVED_KEY_EXPIRY_MINUTES
  MaxReadyAge,       \* STALE_ENTRY_READY_MAX_AGE
  ExecutionTimeout,  \* EXECUTION_TIMEOUT_SECONDS, in ticks of the clock
  MaxInProgress,     \* MAX_IN_PROGRESS_SETUPS
  MaxTracked,        \* MAX_TRACKED_SETUP_ATTEMPTS
  Environment,       \* which of "stop", "clear", "restart" may happen
  DiskOutcomes,      \* outcomes of a history save: TRUE written, FALSE failed
  MaxTime            \* bound of the clock

ASSUME RadarAssumption ==
  /\ IsFiniteSet(Swings) /\ IsFiniteSet(Entries)
  /\ BornAt \in [Swings -> 0..MaxTime]
  /\ RetryableReasons \cap FatalReasons = {}
  /\ {"None", "NO_EXECUTION_ATTEMPTED", "SETUP_EXPIRED"}
       \cap (RetryableReasons \cup FatalReasons) = {}
  /\ "swing" \notin Entries
  /\ MaxTime \in Nat
  /\ StalenessWindow \in Nat /\ KeyExpiry \in Nat /\ MaxReadyAge \in Nat
  /\ StalenessWindow < KeyExpiry
  /\ ExecutionTimeout \in Nat
  /\ MaxInProgress \in Nat \ {0} /\ MaxTracked \in Nat \ {0}
  /\ Environment \subseteq {"stop", "clear", "restart"}
  /\ DiskOutcomes \subseteq BOOLEAN /\ DiskOutcomes # {}

VARIABLES
  radar,        \* the radar's own state: see RadarType
  processedIds, \* live_automation["processed_setup_ids"]
  orders,       \* orders[s]: how many orders the exchange received for s
  now           \* the wall clock

vars == <<radar, processedIds, orders, now>>

-----------------------------------------------------------------------------
(* Identities.  A tracer row is named after its swing (build_setup_id with *)
(* the swing timestamp and swing id); a trade that finds no tracer row is  *)
(* named after its entry candle.  The dedup key of a row is made of        *)
(* symbol, direction and created_at, which tell exactly these apart.       *)

SwingId(s)    == <<s, "swing">>
TradeId(s, e) == <<s, e>>
Ids           == {SwingId(s) : s \in Swings} \cup (Swings \X Entries)

NoReason    == "None"
NoExecution == "NO_EXECUTION_ATTEMPTED"
SetupExpired == "SETUP_EXPIRED"
Never       == -1

Row == [id : Ids, swing : Swings,
        state : {"ACTIVE", "ENTRY_READY", "INVALIDATED", "EXPIRED"},
        reason : {NoReason, NoExecution, SetupExpired}
                    \cup RetryableReasons \cup FatalReasons,
        exec : {"pending", "trade_opened", "rejected", "risk_blocked",
                "no_margin", "execution_timeout", "expired", "invalidated"},
        real : BOOLEAN,      \* metadata.source = LIVE_PROFILE_EVALUATOR
        full : BOOLEAN,      \* progress_percent reached 100
        detectedAt : {Never} \cup (0..MaxTime)]

(* setups is an insertion-ordered dict, completed and invalidated are      *)
(* newest first; keys[k] is when dedup key k was added.                    *)
RadarType ==
  [setups : Seq(Row), completed : Seq(Row), invalidated : Seq(Row),
   ids : SUBSET Ids, keys : [Ids -> {Never} \cup (0..MaxTime)],
   history : SUBSET Ids, processed : SUBSET (Swings \X Entries),
   disk : [completed : Seq(Row), invalidated : Seq(Row)]]

RowsOf(seq)  == {seq[i] : i \in DOMAIN seq}
Has(seq, id) == \E row \in RowsOf(seq) : row.id = id

Listed(r)  == RowsOf(r.completed) \cup RowsOf(r.invalidated)
AllRows(r) == RowsOf(r.setups) \cup Listed(r)

(* The rows of a list that are in a set, in their order: the k-th is at    *)
(* the place that has k of them up to it.  (SelectSeq is recursive, which  *)
(* the proofs cannot look into.)                                           *)
Nth(places, k) == CHOOSE i \in places : Cardinality({j \in places : j <= i}) = k

Filter(seq, rows) ==
  LET places == {i \in DOMAIN seq : seq[i] \in rows}
  IN  [k \in 1..Cardinality(places) |-> seq[Nth(places, k)]]

Without(seq, id) == Filter(seq, {row \in RowsOf(seq) : row.id # id})

(* Assignment to a dict entry: an existing key keeps its place. *)
Put(seq, row) ==
  IF Has(seq, row.id)
  THEN [i \in DOMAIN seq |-> IF seq[i].id = row.id THEN row ELSE seq[i]]
  ELSE Append(seq, row)

(* Mutants, here and below: plausible bugs each of which breaks a property *)
(* of this module.                                                         *)
CapInProgressOffByOne(seq) ==
  IF Len(seq) >= MaxInProgress
  THEN SubSeq(seq, Len(seq) - MaxInProgress + 2, Len(seq))
  ELSE seq

(* _cap_in_progress: the oldest entries go first. *)
CapInProgress(seq) ==
  IF Len(seq) > MaxInProgress
  THEN SubSeq(seq, Len(seq) - MaxInProgress + 1, Len(seq))
  ELSE seq

PrependUncapped(seq, row) == <<row>> \o seq

Prepend(seq, row) ==
  SubSeq(<<row>> \o seq, 1, IF Len(seq) < MaxTracked THEN Len(seq) + 1
                                                     ELSE MaxTracked)

-----------------------------------------------------------------------------
(* Age of a swing and of a dedup key. *)

Fresh(s, t) == t - BornAt[s] <= StalenessWindow

KeyResolvedTooBriefly(r, id, t) ==
  r.keys[id] # Never /\ t - r.keys[id] < KeyExpiry - StalenessWindow

KeyResolved(r, id, t) == r.keys[id] # Never /\ t - r.keys[id] < KeyExpiry

(* _retryable_timing_invalidation_for_swing: the reason of the first       *)
(* resolved row of the swing, if that reason may be retried (at most one). *)
RetryReason(r, s, t) ==
  LET found == Filter(r.invalidated \o r.completed,
                      {row \in Listed(r) : row.id = SwingId(s)})
  IN  IF Fresh(s, t) /\ found # <<>>
      THEN {found[1].reason} \cap (RetryableReasons \cup {NoExecution})
      ELSE {}

(* _candidate_swing_filter_diagnostics: is the swing passed to the funnel? *)
Admitted(r, s, t) ==
  IF KeyResolved(r, SwingId(s), t)
  THEN RetryReason(r, s, t) # {}
  ELSE Fresh(s, t) \/ Has(r.setups, SwingId(s))

-----------------------------------------------------------------------------
(* Leaving and entering IN PROGRESS. *)

Save(r, saved) ==
  IF saved
  THEN [r EXCEPT !.disk = [completed |-> r.completed,
                           invalidated |-> r.invalidated]]
  ELSE r

AppendResolved(r, store, row, t) ==
  IF row.id \in r.ids
  THEN r
  ELSE [r EXCEPT ![store] = Prepend(@, row),
                 !.ids = @ \cup {row.id},
                 !.keys[row.id] = t]

ResolveSavingFirst(r, store, row, t, saved) ==
  [AppendResolved(Save(r, saved), store, row, t)
     EXCEPT !.setups = Without(@, row.id)]

(* Write the terminal record, save it, then drop the row from IN PROGRESS: *)
(* the shared body of _store_setup, move_setup_to_completed and            *)
(* expire_stale_setup.                                                     *)
Resolve(r, store, row, t, saved) ==
  LET written == Save(AppendResolved(r, store, row, t), saved)
  IN  [written EXCEPT !.setups = Without(@, row.id)]

Keep(r, row) ==
  [r EXCEPT !.setups = CapInProgress(Put(@, row)), !.history = @ \cup {row.id}]

TracerRow(s, isFull) ==
  [id |-> SwingId(s), swing |-> s, state |-> "ACTIVE", reason |-> NoReason,
   exec |-> "pending", real |-> FALSE, full |-> isFull, detectedAt |-> Never]

(* _record_in_progress_before_terminal_move *)
RecordInProgress(r, row) == IF row.id \in r.history THEN r ELSE Keep(r, row)

-----------------------------------------------------------------------------
(* The attempt trace of one swing.  An outcome of the funnel is a stage    *)
(* still waiting, a failed check, or ENTRY_READY, with or without a trade. *)

Outcomes ==
       {[kind |-> "waiting", reason |-> NoReason, trade |-> {}]}
  \cup {[kind |-> "failed", reason |-> x, trade |-> {}] :
          x \in RetryableReasons \cup FatalReasons}
  \cup {[kind |-> "ready", reason |-> NoExecution, trade |-> e] :
          e \in {{}} \cup {{x} : x \in Entries}}

SameTerminalRetry(reasons, o) ==
  NoExecution \in reasons \/ (o.kind = "failed" /\ o.reason \in reasons)

ReopenKeepingId(r, s) ==
  [r EXCEPT !.keys[SwingId(s)] = Never,
            !.invalidated = Without(@, SwingId(s)),
            !.completed = Without(@, SwingId(s))]

Reopen(r, s) ==
  [r EXCEPT !.ids = @ \ {SwingId(s)}, !.keys[SwingId(s)] = Never,
            !.invalidated = Without(@, SwingId(s)),
            !.completed = Without(@, SwingId(s))]

(* The part of _apply_one_attempt_trace below the early returns.  A failed *)
(* trace on a row already at 100% builds an illegal Setup: its constructor *)
(* raises and _apply_attempt_traces drops the trace.                       *)
StoreTrace(r, s, o, t, saved) ==
  LET wasFull  == \E row \in RowsOf(r.setups) : row.id = SwingId(s) /\ row.full
      recorded == IF Has(r.setups, SwingId(s)) THEN r
                  ELSE RecordInProgress(r, TracerRow(s, FALSE))
      resolved == [TracerRow(s, wasFull \/ o.kind = "ready") EXCEPT
                     !.state = "INVALIDATED", !.reason = o.reason,
                     !.exec = "invalidated"]
  IN  IF o.kind = "waiting" THEN Keep(r, TracerRow(s, wasFull))
      ELSE IF o.kind = "failed" /\ wasFull THEN r
      ELSE Resolve(recorded, "invalidated", resolved, t, saved)

Trace(r, s, o, t, saved) ==
  LET reasons == RetryReason(r, s, t)
  IN  IF ~Fresh(s, t) /\ ~Has(r.setups, SwingId(s))
      THEN [r EXCEPT !.keys[SwingId(s)] = t]
      ELSE IF SwingId(s) \notin r.ids THEN StoreTrace(r, s, o, t, saved)
      ELSE IF reasons = {} \/ SameTerminalRetry(reasons, o) THEN r
      ELSE StoreTrace(Reopen(r, s), s, o, t, saved)

-----------------------------------------------------------------------------
(* The trade hand-off of one swing. *)

TakenIdOfTrade(r, s, e) == TradeId(s, e)

(* _find_tracked_setup_by_swing, then the identity _setup_from_trade uses. *)
TakenId(r, s, e) ==
  LET found == Filter(r.setups \o r.completed \o r.invalidated,
                      {row \in AllRows(r) : row.swing = s /\ ~row.real})
  IN  IF found = <<>> THEN TradeId(s, e) ELSE found[1].id

RealRow(s, id, t) ==
  [id |-> id, swing |-> s, state |-> "ENTRY_READY", reason |-> NoReason,
   exec |-> "pending", real |-> TRUE, full |-> TRUE, detectedAt |-> t]

(* _suppress_redundant_attempt_trace *)
Suppress(r, s) ==
  LET tracer(row) == row.swing = s /\ ~row.real
      gone == {row \in RowsOf(r.completed) : tracer(row)} \cup
              {row \in RowsOf(r.invalidated) :
                  tracer(row) /\ row.reason = NoExecution}
      goneIds == {row.id : row \in gone}
  IN  [r EXCEPT !.completed = Filter(@, RowsOf(@) \ gone),
                !.invalidated = Filter(@, RowsOf(@) \ gone),
                !.ids = @ \ goneIds, !.history = @ \ goneIds]

(* _mark_trade_candidates_processed, of a trade known by its swing and its *)
(* entry (_trade_key).                                                     *)
MarkProcessed(r, s, e) == [r EXCEPT !.processed = @ \cup {<<s, e>>}]

TakeOverDiscardingKey(r, s, e, t) ==
  LET id        == TakenId(r, s, e)
      seen      == RecordInProgress(r, [RealRow(s, id, t) EXCEPT
                                          !.state = "ACTIVE", !.full = FALSE])
      reclaimed == [seen EXCEPT !.setups = Without(@, id),
                                !.completed = Without(@, id),
                                !.invalidated = Without(@, id),
                                !.ids = @ \ {id}, !.keys[id] = Never]
  IN  MarkProcessed(Keep(Suppress(reclaimed, s), RealRow(s, id, t)), s, e)

TakeOver(r, s, e, t) ==
  LET id       == TakenId(r, s, e)
      seen     == RecordInProgress(r, [RealRow(s, id, t) EXCEPT
                                         !.state = "ACTIVE", !.full = FALSE])
      reclaimed == [seen EXCEPT !.setups = Without(@, id),
                                !.completed = Without(@, id),
                                !.invalidated = Without(@, id),
                                !.ids = @ \ {id}]
  IN  MarkProcessed(Keep(Suppress(reclaimed, s), RealRow(s, id, t)), s, e)

(* Fresh trades are taken over, stale ones only marked processed; the age  *)
(* is judged at t0, the instant the filter ran.                            *)
Trade(r, s, o, t0, t) ==
  IF \E e \in o.trade : <<s, e>> \notin r.processed
  THEN LET e == CHOOSE x \in o.trade : TRUE
       IN  IF Fresh(s, t0) THEN TakeOver(r, s, e, t)
           ELSE MarkProcessed(r, s, e)
  ELSE r

-----------------------------------------------------------------------------
(* Actions. *)

EmptyRadar ==
  [setups |-> <<>>, completed |-> <<>>, invalidated |-> <<>>, ids |-> {},
   keys |-> [k \in Ids |-> Never], history |-> {}, processed |-> {},
   disk |-> [completed |-> <<>>, invalidated |-> <<>>]]

Init ==
  /\ radar = EmptyRadar
  /\ processedIds = {}
  /\ orders = [s \in Swings |-> 0]
  /\ now = 0

Tick ==
  /\ now < MaxTime
  /\ now' = now + 1
  /\ UNCHANGED <<radar, processedIds, orders>>

(* A poll whose filter drops the swing: nothing changes for a resolved one *)
(* and a stale one gets its key.                                           *)
SkipResolved(s) ==
  /\ BornAt[s] <= now
  /\ KeyResolved(radar, SwingId(s), now)
  /\ ~Admitted(radar, s, now)
  /\ UNCHANGED vars

SkipStale(s) ==
  /\ BornAt[s] <= now
  /\ ~KeyResolved(radar, SwingId(s), now)
  /\ ~Admitted(radar, s, now)
  /\ radar' = [radar EXCEPT !.keys[SwingId(s)] = now]
  /\ UNCHANGED <<processedIds, orders, now>>

(* A poll whose filter passes the swing on.  The funnel runs between the   *)
(* filter and the trace, so the trace may already read a later clock.      *)
Evaluate(s) ==
  /\ BornAt[s] <= now
  /\ Admitted(radar, s, now)
  /\ now' \in {now, now + 1} /\ now' <= MaxTime
  /\ \E o \in Outcomes, saved \in DiskOutcomes :
       radar' = Trade(Trace(radar, s, o, now', saved), s, o, now, now')
  /\ UNCHANGED <<processedIds, orders>>

(* What run_live_automation_once does to one ENTRY_READY row: the three    *)
(* branches are tried in this order.  A retryable block changes nothing.   *)
Pickable(row) == row.state = "ENTRY_READY" /\ row.id \notin processedIds
Age(row)      == now - row.detectedAt

Expire(row) ==
  /\ Age(row) > MaxReadyAge
  /\ \E saved \in DiskOutcomes :
       radar' = Resolve(radar, "invalidated",
                        [row EXCEPT !.state = "EXPIRED", !.exec = "expired",
                                    !.reason = SetupExpired], now, saved)
  /\ UNCHANGED <<processedIds, orders, now>>

TimeOutKeepingRow(row) ==
  /\ Age(row) <= MaxReadyAge
  /\ Age(row) >= ExecutionTimeout
  /\ \E saved \in DiskOutcomes :
       radar' = Save(AppendResolved(radar, "completed",
                       [row EXCEPT !.exec = "execution_timeout"], now), saved)
  /\ UNCHANGED <<processedIds, orders, now>>

TimeOut(row) ==
  /\ Age(row) <= MaxReadyAge
  /\ Age(row) >= ExecutionTimeout
  /\ \E saved \in DiskOutcomes :
       radar' = Resolve(radar, "completed",
                        [row EXCEPT !.exec = "execution_timeout"], now, saved)
  /\ UNCHANGED <<processedIds, orders, now>>

Reject(row) ==
  /\ Age(row) < ExecutionTimeout
  /\ \E status \in {"rejected", "risk_blocked", "no_margin"},
        saved \in DiskOutcomes :
       radar' = Resolve(radar, "completed", [row EXCEPT !.exec = status],
                        now, saved)
  /\ UNCHANGED <<processedIds, orders, now>>

Submit(row) ==
  /\ Age(row) < ExecutionTimeout
  /\ \E saved \in DiskOutcomes :
       radar' = Resolve(radar, "completed",
                        [row EXCEPT !.exec = "trade_opened"], now, saved)
  /\ processedIds' = processedIds \cup {row.id}
  /\ orders' = [orders EXCEPT ![row.swing] = @ + 1]
  /\ UNCHANGED now

Automation ==
  \E row \in RowsOf(radar.setups) :
    /\ Pickable(row)
    /\ Expire(row) \/ TimeOut(row) \/ Reject(row) \/ Submit(row)

(* The operator stops monitoring: IN PROGRESS is emptied. *)
StopMonitoring ==
  /\ "stop" \in Environment
  /\ radar.setups # <<>>
  /\ radar' = [radar EXCEPT !.setups = <<>>]
  /\ UNCHANGED <<processedIds, orders, now>>

(* wipe_setup_history, the admin's Clear History. *)
ClearHistory ==
  /\ "clear" \in Environment
  /\ LET listed == {row.id : row \in RowsOf(radar.completed)
                                       \cup RowsOf(radar.invalidated)}
         wiped == [radar EXCEPT !.completed = <<>>, !.invalidated = <<>>,
                     !.ids = {}, !.keys = [k \in Ids |-> Never],
                     !.history = @ \ listed]
     IN  \E saved \in DiskOutcomes : radar' = Save(wiped, saved)
  /\ UNCHANGED <<processedIds, orders, now>>

(* A deploy: the process forgets everything but the history file, which    *)
(* create_app loads before clear_startup_funnel_state empties the rest.    *)
(* Going down and up takes a tick of the clock.                            *)
Restart ==
  /\ "restart" \in Environment
  /\ now < MaxTime
  /\ radar' = [EmptyRadar EXCEPT !.completed = radar.disk.completed,
                                 !.invalidated = radar.disk.invalidated,
                                 !.disk = radar.disk]
  /\ processedIds' = {}
  /\ now' = now + 1
  /\ UNCHANGED orders

Poll == \E s \in Swings : SkipResolved(s) \/ SkipStale(s) \/ Evaluate(s)

Next == Tick \/ Poll \/ Automation \/ StopMonitoring \/ ClearHistory \/ Restart

Spec == Init /\ [][Next]_vars

(* Monitoring polls forever and every poll runs the automation, so time    *)
(* passes and a row that is due to leave is picked up.                     *)
TimeOutsHappen ==
  \E row \in RowsOf(radar.setups) :
    Pickable(row) /\ (Expire(row) \/ TimeOut(row))

FairSpec == Spec /\ WF_vars(Tick) /\ WF_vars(TimeOutsHappen)

-----------------------------------------------------------------------------
(* Properties. *)

(* The radar holds rows of the right shape and never more of them than its *)
(* caps allow.                                                             *)
TypeOK ==
  /\ radar \in RadarType
  /\ Len(radar.setups) <= MaxInProgress
  /\ Len(radar.completed) <= MaxTracked /\ Len(radar.invalidated) <= MaxTracked
  /\ processedIds \subseteq Ids
  /\ orders \in [Swings -> Nat]
  /\ now \in 0..MaxTime

(* A setup id marked resolved is never in IN PROGRESS: whatever brings a   *)
(* row back (a reopened timing failure, a trade taking over a tracer row)  *)
(* has also un-resolved its id, else its next terminal write would be      *)
(* silently dropped by the no-op in _append_resolved_setup.                *)
ResolvedNotInProgress ==
  \A row \in RowsOf(radar.setups) : row.id \notin radar.ids

(* One swing is one row: the tracer's diagnostic row and the real trade    *)
(* never show as two setups, in whichever of the three stores they are.    *)
OneRowPerSwing ==
  LET all == radar.setups \o radar.completed \o radar.invalidated
  IN  \A i, j \in DOMAIN all : all[i].swing = all[j].swing => i = j

(* Even across operator actions and restarts a swing is never tracked      *)
(* twice at once, so automation is never handed two rows to trade for it.  *)
TrackedOncePerSwing ==
  \A i, j \in DOMAIN radar.setups :
    radar.setups[i].swing = radar.setups[j].swing => i = j

(* Every row of the visible history is in the file, so a restart shows it. *)
(* Only where saves succeed.                                               *)
HistoryIsSaved ==
  /\ RowsOf(radar.completed) \subseteq RowsOf(radar.disk.completed)
  /\ RowsOf(radar.invalidated) \subseteq RowsOf(radar.disk.invalidated)

(* One swing, one order: no sequence of polls, takeovers and automation    *)
(* decisions submits the same swing twice.                                 *)
OneOrderPerSwing == \A s \in Swings : orders[s] <= 1

(* Resolution is final: an id that resolved stays resolved, through list   *)
(* caps and key expiry, unless its listed row carries a retryable timing   *)
(* reason while the swing is fresh (the Setup Radar journey's exception).  *)
ResolutionIsFinal ==
  [][\A s \in Swings :
       SwingId(s) \in radar.ids /\ RetryReason(radar, s, now) = {}
         => SwingId(s) \in radar'.ids]_vars

(* A tradable setup is not lost to the tracer: while its swing is fresh,   *)
(* the row of a real trade leaves IN PROGRESS only with the execution      *)
(* decision that completed it, because the key its tracer row left behind  *)
(* outlives the swing's freshness and keeps the filter shut.               *)
TradableUntilDecided ==
  [][\A row \in RowsOf(radar.setups) :
       row.real /\ Fresh(row.swing, now') =>
         \/ row \in RowsOf(radar'.setups)
         \/ \E done \in RowsOf(radar'.completed) :
              done.id = row.id /\ done.real /\ done.exec # "pending"]_vars

(* A setup is never silently dropped: a row that leaves IN PROGRESS is in  *)
(* one of the two terminal lists in the same step.                         *)
NeverSilentlyDropped ==
  [][\A row \in RowsOf(radar.setups) :
       Has(radar'.setups, row.id) \/ Has(radar'.completed, row.id)
         \/ Has(radar'.invalidated, row.id)]_vars

(* With automation running, no real trade waits for ever: every tradable   *)
(* row leaves that state, if only through the execution timeout.           *)
TradableIsTransient ==
  \A id \in Ids :
    (\E row \in RowsOf(radar.setups) : row.id = id /\ Pickable(row)
        /\ row.detectedAt + ExecutionTimeout <= MaxTime)
      ~> ~(\E row \in RowsOf(radar.setups) : row.id = id /\ Pickable(row)
             /\ row.detectedAt + ExecutionTimeout <= MaxTime)
=============================================================================
