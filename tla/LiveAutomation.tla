--------------------------- MODULE LiveAutomation ---------------------------
(***************************************************************************)
(* Live automation: src/backend/arjiobot/live_automation.py driving one    *)
(* ENTRY_READY setup through signal, risk, dry-run preview and the live    *)
(* Bitget order (exchange/bitget_environment.py place_order).              *)
(*                                                                         *)
(* run_live_automation_once runs in the monitoring thread and, for POST    *)
(* /api/live-automation/run-once, in the thread of the request; nothing    *)
(* locks the state they share.  A run is cut into steps where it calls the *)
(* exchange or where another run may see what it wrote.                    *)
(*                                                                         *)
(* Signal ids and trade plan ids are functions of the setup, so one set    *)
(* stands for processed_setup_ids and executed_trade_plan_ids, which are   *)
(* appended to together.                                                   *)
(***************************************************************************)
EXTENDS Integers, FiniteSets

CONSTANTS
  Workers,      \* threads that may execute run_live_automation_once
  Setups,       \* setups the radar hands over
  SymbolOf,     \* SymbolOf[s]: the pair of setup s
  MaxOpen,      \* settings["max_open_trades"]
  Operator,     \* which of "disarm", "stop" the operator may do
  MaxOrders,    \* bound on the orders explored per setup
  RepliesLost,  \* setups the answer to whose accepted order may be lost
  NoSetup       \* "no setup": what a worker outside the loop body processes

ASSUME AutomationAssumption ==
  /\ IsFiniteSet(Setups)
  /\ MaxOpen \in Nat /\ MaxOrders \in Nat
  /\ RepliesLost \subseteq Setups
  /\ NoSetup \notin Setups

VARIABLES
  armed,       \* live trading enabled, mode LIVE and live_armed
  monitoring,  \* monitoring["active"]
  tradable,    \* setups of state.setups that are ENTRY_READY
  outcome,     \* outcome[s]: execution_status of the setup
  overdue,     \* setups detected EXECUTION_TIMEOUT_SECONDS ago or earlier
  marker,      \* keys of SignalStore._generated_by_setup_id
  executed,    \* processed_setup_ids and executed_trade_plan_ids
  stage,       \* stage[w]: where worker w is in its run
  todo,        \* todo[w]: setups its run collected and has not tried yet
  current,     \* current[w]: the setup it is processing
  seen,        \* seen[w]: open positions it read from the exchange
  counted,     \* BitgetEnvironmentService.open_positions and trades_today,
               \* which are only ever incremented together
  received,    \* received[s]: orders for s the exchange accepted
  lost,        \* ghost: lost[s]: answers to accepted orders for s that were lost
  open         \* setups with a position open on the exchange

radarVars    == <<tradable, outcome, overdue>>
engineVars   == <<marker, executed>>
workerVars   == <<stage, todo, current, seen>>
exchangeVars == <<counted, received, lost, open>>
modeVars     == <<armed, monitoring>>
vars == <<modeVars, radarVars, engineVars, workerVars, exchangeVars>>

Idle     == "idle"      \* not in a run
Choosing == "choosing"  \* at the head of the loop over the collected setups
Risk     == "risk"      \* signal generated, about to read the account
Plan     == "plan"      \* positions read, about to assess the signal
Preview  == "preview"   \* plan approved, about to preview the order
Placing  == "placing"   \* inside place_order, before its checks
Sending  == "sending"   \* checks passed, leverage and order calls pending
Waiting  == "waiting"   \* the exchange accepted, its answer is on the way
TopUp    == "topup"     \* order counted, adding margin to the position

Stages == {Idle, Choosing, Risk, Plan, Preview, Placing, Sending, Waiting,
           TopUp}
PastSignal == {Risk, Plan, Preview, Placing, Sending, Waiting, TopUp}

Undetected == "undetected"
Pending    == "pending"
Refused    == "refused"  \* rejected, risk_blocked, expired, execution_timeout
Opened     == "trade_opened"
Outcomes   == {Undetected, Pending, Refused, Opened}

-----------------------------------------------------------------------------
(* Shared steps. *)

(* move_setup_to_completed and expire_stale_setup: the first terminal      *)
(* record of a setup wins, later ones are no-ops; the row leaves IN        *)
(* PROGRESS either way.                                                    *)
Resolve(s, status) ==
  /\ outcome' = IF outcome[s] = Pending THEN [outcome EXCEPT ![s] = status]
                                        ELSE outcome
  /\ tradable' = tradable \ {s}
  /\ UNCHANGED overdue

(* Mutants, here and below: plausible bugs each of which breaks a property *)
(* of this module.                                                         *)
NextSetupKeepingCurrent(w) ==
  /\ stage' = [stage EXCEPT ![w] = Choosing]
  /\ seen' = [seen EXCEPT ![w] = {}]
  /\ UNCHANGED <<todo, current>>

(* Done with the current setup, back to the loop. *)
NextSetup(w) ==
  /\ stage' = [stage EXCEPT ![w] = Choosing]
  /\ current' = [current EXCEPT ![w] = NoSetup]
  /\ seen' = [seen EXCEPT ![w] = {}]
  /\ UNCHANGED todo

Goto(w, where) ==
  /\ stage' = [stage EXCEPT ![w] = where]
  /\ UNCHANGED <<todo, current, seen>>

BlockedKeepingMarker(w) ==
  /\ NextSetup(w)
  /\ UNCHANGED <<modeVars, radarVars, engineVars>>

(* A retryable block: the marker is cleared and the setup stays tradable. *)
Blocked(w) ==
  /\ marker' = marker \ {current[w]}
  /\ NextSetup(w)
  /\ UNCHANGED <<modeVars, radarVars, executed>>

-----------------------------------------------------------------------------
(* One run of run_live_automation_once. *)

(* The preflight check and the collection of ENTRY_READY setups. *)
Begin(w) ==
  /\ stage[w] = Idle
  /\ armed /\ monitoring
  /\ tradable \ executed # {}
  /\ todo' = [todo EXCEPT ![w] = tradable \ executed]
  /\ stage' = [stage EXCEPT ![w] = Choosing]
  /\ UNCHANGED <<current, seen, modeVars, radarVars, engineVars, exchangeVars>>

(* A run stopped by the preflight check, or that collects nothing. *)
EmptyRun(w) ==
  /\ stage[w] = Idle
  /\ ~(armed /\ monitoring) \/ tradable \ executed = {}
  /\ UNCHANGED vars

Finish(w) ==
  /\ stage[w] = Choosing
  /\ todo[w] = {}
  /\ Goto(w, Idle)
  /\ UNCHANGED <<modeVars, radarVars, engineVars, exchangeVars>>

TimeOutKeepingRow(w, s) ==
  /\ stage[w] = Choosing
  /\ s \in todo[w] /\ s \in overdue
  /\ outcome' = [outcome EXCEPT ![s] = Refused]
  /\ marker' = marker \ {s}
  /\ todo' = [todo EXCEPT ![w] = @ \ {s}]
  /\ UNCHANGED <<stage, current, seen, executed, tradable, overdue, modeVars,
                 exchangeVars>>

(* _expire_if_stale and _timeout_if_execution_pending_too_long *)
TimeOut(w, s) ==
  /\ stage[w] = Choosing
  /\ s \in todo[w] /\ s \in overdue
  /\ Resolve(s, Refused)
  /\ marker' = marker \ {s}
  /\ todo' = [todo EXCEPT ![w] = @ \ {s}]
  /\ UNCHANGED <<stage, current, seen, executed, modeVars, exchangeVars>>

(* The signal stage, for a setup that is not overdue: a signal is          *)
(* generated, is refused as a duplicate (the marker is cleared and the     *)
(* setup kept), or is refused for the setup's own fields.                  *)
GenerateSignal(w, s) ==
  /\ stage[w] = Choosing
  /\ s \in todo[w] /\ s \notin overdue
  /\ s \notin marker
  /\ marker' = marker \cup {s}
  /\ todo' = [todo EXCEPT ![w] = @ \ {s}]
  /\ current' = [current EXCEPT ![w] = s]
  /\ stage' = [stage EXCEPT ![w] = Risk]
  /\ UNCHANGED <<seen, executed, modeVars, radarVars, exchangeVars>>

DuplicateSignal(w, s) ==
  /\ stage[w] = Choosing
  /\ s \in todo[w] /\ s \notin overdue
  /\ s \in marker
  /\ marker' = marker \ {s}
  /\ todo' = [todo EXCEPT ![w] = @ \ {s}]
  /\ UNCHANGED <<stage, current, seen, executed, modeVars, radarVars,
                 exchangeVars>>

RejectSignal(w, s) ==
  /\ stage[w] = Choosing
  /\ s \in todo[w] /\ s \notin overdue
  /\ s \notin marker
  /\ Resolve(s, Refused)
  /\ todo' = [todo EXCEPT ![w] = @ \ {s}]
  /\ UNCHANGED <<stage, current, seen, engineVars, modeVars, exchangeVars>>

(* _live_risk_context: the account or the positions cannot be read, or     *)
(* they are; the closed-position history is read after them.               *)
RiskUnknown(w) ==
  /\ stage[w] = Risk
  /\ Blocked(w)
  /\ UNCHANGED exchangeVars

ReadPositions(w) ==
  /\ stage[w] = Risk
  /\ seen' = [seen EXCEPT ![w] = open]
  /\ stage' = [stage EXCEPT ![w] = Plan]
  /\ UNCHANGED <<todo, current, modeVars, radarVars, engineVars, exchangeVars>>

(* create_trade_plan: open trades and exposure on the same pair reject a   *)
(* plan, as may margin, size and loss limits; the rest is approved unless  *)
(* this plan was already executed.                                         *)
WithinRiskIgnoringPair(w) == Cardinality(seen[w]) < MaxOpen

WithinRisk(w) ==
  /\ Cardinality(seen[w]) < MaxOpen
  /\ \A p \in seen[w] : SymbolOf[p] # SymbolOf[current[w]]

RejectPlan(w) ==
  /\ stage[w] = Plan
  /\ marker' = marker \ {current[w]}
  /\ Resolve(current[w], Refused)
  /\ NextSetup(w)
  /\ UNCHANGED <<executed, modeVars, exchangeVars>>

SkipExecuted(w) ==
  /\ stage[w] = Plan
  /\ WithinRisk(w)
  /\ current[w] \in executed
  /\ NextSetup(w)
  /\ UNCHANGED <<modeVars, radarVars, engineVars, exchangeVars>>

ApprovePlanAsExecuted(w) ==
  /\ stage[w] = Plan
  /\ WithinRisk(w)
  /\ current[w] \notin executed
  /\ executed' = executed \cup {current[w]}
  /\ Goto(w, Preview)
  /\ UNCHANGED <<marker, modeVars, radarVars, exchangeVars>>

ApprovePlan(w) ==
  /\ stage[w] = Plan
  /\ WithinRisk(w)
  /\ current[w] \notin executed
  /\ Goto(w, Preview)
  /\ UNCHANGED <<modeVars, radarVars, engineVars, exchangeVars>>

(* _validate_safety: the service's own counters, compared with the same    *)
(* setting for open positions and for trades per day.                      *)
CountersAllow == counted < MaxOpen

PreviewPasses(w) ==
  /\ stage[w] = Preview
  /\ CountersAllow
  /\ Goto(w, Placing)
  /\ UNCHANGED <<modeVars, radarVars, engineVars, exchangeVars>>

(* place_order: the armed check, then a second preview. *)
StartOrder(w) ==
  /\ stage[w] = Placing
  /\ armed
  /\ CountersAllow
  /\ Goto(w, Sending)
  /\ UNCHANGED <<modeVars, radarVars, engineVars, exchangeVars>>

(* Whatever fails before the exchange accepts the order is retryable: a    *)
(* rejected preview, LIVE disarmed, the leverage call, a refused order.    *)
OrderBlocked(w) ==
  /\ stage[w] \in {Preview, Placing, Sending}
  /\ Blocked(w)
  /\ UNCHANGED exchangeVars

(* The place-order request reaches the exchange, which opens the position. *)
ExchangeAccepts(w) ==
  /\ stage[w] = Sending
  /\ received[current[w]] < MaxOrders
  /\ received' = [received EXCEPT ![current[w]] = @ + 1]
  /\ open' = open \cup {current[w]}
  /\ Goto(w, Waiting)
  /\ UNCHANGED <<counted, lost, modeVars, radarVars, engineVars>>

ReplyArrives(w) ==
  /\ stage[w] = Waiting
  /\ counted' = counted + 1
  /\ Goto(w, TopUp)
  /\ UNCHANGED <<received, lost, open, modeVars, radarVars, engineVars>>

(* _request_json turns a timeout into the same EnvironmentLockError as a   *)
(* refusal.                                                                *)
ReplyLost(w) ==
  /\ current[w] \in RepliesLost
  /\ stage[w] = Waiting
  /\ lost' = [lost EXCEPT ![current[w]] = @ + 1]
  /\ Blocked(w)
  /\ UNCHANGED <<counted, received, open>>

RecordSubmissionUnlessTopUpFails(w) ==
  /\ stage[w] = TopUp
  /\ UNCHANGED exchangeVars
  /\ \/ Blocked(w)
     \/ /\ executed' = executed \cup {current[w]}
        /\ Resolve(current[w], Opened)
        /\ NextSetup(w)
        /\ UNCHANGED <<marker, modeVars>>

(* After _add_margin_after_open, which never raises: the setup is recorded *)
(* as executed and completed.                                              *)
RecordSubmission(w) ==
  /\ stage[w] = TopUp
  /\ executed' = executed \cup {current[w]}
  /\ Resolve(current[w], Opened)
  /\ NextSetup(w)
  /\ UNCHANGED <<marker, modeVars, exchangeVars>>

-----------------------------------------------------------------------------
(* The rest of the system. *)

(* The radar hands over a new ENTRY_READY setup (never one it handed over  *)
(* before: SetupRadar), and a setup grows overdue.                         *)
Detect(s) ==
  /\ monitoring
  /\ outcome[s] = Undetected
  /\ outcome' = [outcome EXCEPT ![s] = Pending]
  /\ tradable' = tradable \cup {s}
  /\ UNCHANGED <<overdue, modeVars, engineVars, workerVars, exchangeVars>>

GrowOverdue(s) ==
  /\ outcome[s] # Undetected /\ s \notin overdue
  /\ overdue' = overdue \cup {s}
  /\ UNCHANGED <<tradable, outcome, modeVars, engineVars, workerVars,
                 exchangeVars>>

(* Stop loss or take profit closes the position on the exchange. *)
ClosePosition(s) ==
  /\ s \in open
  /\ open' = open \ {s}
  /\ UNCHANGED <<counted, received, lost, modeVars, radarVars, engineVars,
                 workerVars>>

(* The live trading toggle and the monitoring buttons. *)
Disarm ==
  /\ "disarm" \in Operator
  /\ armed
  /\ armed' = FALSE
  /\ UNCHANGED <<monitoring, radarVars, engineVars, workerVars, exchangeVars>>

Arm ==
  /\ ~armed /\ monitoring
  /\ armed' = TRUE
  /\ UNCHANGED <<monitoring, radarVars, engineVars, workerVars, exchangeVars>>

StopMonitoring ==
  /\ "stop" \in Operator
  /\ monitoring
  /\ monitoring' = FALSE
  /\ tradable' = {}
  /\ UNCHANGED <<armed, outcome, overdue, engineVars, workerVars, exchangeVars>>

StartMonitoring ==
  /\ ~monitoring
  /\ monitoring' = TRUE
  /\ UNCHANGED <<armed, radarVars, engineVars, workerVars, exchangeVars>>

-----------------------------------------------------------------------------
Init ==
  /\ armed = FALSE /\ monitoring = FALSE
  /\ tradable = {} /\ outcome = [s \in Setups |-> Undetected] /\ overdue = {}
  /\ marker = {} /\ executed = {}
  /\ stage = [w \in Workers |-> Idle]
  /\ todo = [w \in Workers |-> {}]
  /\ current = [w \in Workers |-> NoSetup]
  /\ seen = [w \in Workers |-> {}]
  /\ counted = 0 /\ open = {}
  /\ received = [s \in Setups |-> 0] /\ lost = [s \in Setups |-> 0]

Work(w) ==
  \/ Begin(w) \/ EmptyRun(w) \/ Finish(w)
  \/ \E s \in Setups : \/ TimeOut(w, s) \/ GenerateSignal(w, s)
                       \/ DuplicateSignal(w, s) \/ RejectSignal(w, s)
  \/ RiskUnknown(w) \/ ReadPositions(w)
  \/ RejectPlan(w) \/ SkipExecuted(w) \/ ApprovePlan(w)
  \/ PreviewPasses(w) \/ StartOrder(w) \/ OrderBlocked(w)
  \/ ExchangeAccepts(w) \/ ReplyArrives(w) \/ ReplyLost(w)
  \/ RecordSubmission(w)

Environment ==
  \/ \E s \in Setups : Detect(s) \/ GrowOverdue(s) \/ ClosePosition(s)
  \/ Disarm \/ Arm \/ StopMonitoring \/ StartMonitoring

Next == (\E w \in Workers : Work(w)) \/ Environment

Spec == Init /\ [][Next]_vars

(* A thread in a run goes on, polls keep starting runs, and time passes.   *)
FairSpec ==
  /\ Spec
  /\ \A w \in Workers : WF_vars(Work(w))
  /\ \A s \in Setups : WF_vars(GrowOverdue(s))

-----------------------------------------------------------------------------
(* Properties. *)

(* The state has the shape the code gives it, and a worker has a setup in  *)
(* hand exactly while it is past the signal stage.                         *)
TypeOK ==
  /\ armed \in BOOLEAN /\ monitoring \in BOOLEAN
  /\ tradable \subseteq Setups /\ overdue \subseteq Setups
  /\ outcome \in [Setups -> Outcomes]
  /\ marker \subseteq Setups /\ executed \subseteq Setups
  /\ stage \in [Workers -> Stages]
  /\ todo \in [Workers -> SUBSET Setups]
  /\ current \in [Workers -> Setups \cup {NoSetup}]
  /\ \A w \in Workers : stage[w] \in PastSignal <=> current[w] # NoSetup
  /\ seen \in [Workers -> SUBSET Setups]
  /\ counted \in Nat
  /\ received \in [Setups -> Nat] /\ lost \in [Setups -> Nat]
  /\ open \subseteq Setups

Processing(w, s) == stage[w] \in PastSignal /\ current[w] = s

(* No setup is stuck: a generated-signal marker outlives the run that set  *)
(* it only for a setup whose order was submitted, so a blocked setup can   *)
(* always generate its signal again, whatever threads interleave.          *)
NoStuckMarker ==
  \A s \in marker : s \in executed \/ \E w \in Workers : Processing(w, s)

(* The dashboard never invents a trade: a setup recorded as executed, or   *)
(* shown as trade_opened, has an order the exchange accepted.              *)
OpenedWasReceived ==
  \A s \in Setups :
    s \in executed \/ outcome[s] = Opened => received[s] >= 1

(* The docstring of run_live_automation_once: a setup that was executed is *)
(* not submitted again.                                                    *)
AtMostOneOrder == \A s \in Setups : received[s] <= 1

(* What holds of it in one thread: every order for a setup but one had its *)
(* answer lost, whatever disarms, stops, closes and fails in between; and  *)
(* of a setup the radar shows as refused, expired or timed out, every one. *)
RepeatsOnlyLostOrders ==
  \A s \in Setups :
    received[s] <= IF outcome[s] = Refused THEN lost[s] ELSE lost[s] + 1

(* The setups with an order that the exchange accepted and no record yet.  *)
Ordered == {current[w] : w \in {v \in Workers : stage[v] \in {Waiting, TopUp}}}

(* In one thread the automation does what ExecutionDecision promises: it   *)
(* decides every setup once and for good, and orders it again only after   *)
(* an answer was lost, whatever the operator, the exchange and the clock   *)
(* do between the steps of a run.                                          *)
Decision == INSTANCE ExecutionDecision WITH verdict <- outcome, ordered <- Ordered

DecidesOnce == Decision!Spec

(* The exchange never holds more positions than max_open_trades, nor two   *)
(* on one pair, although both are checked against positions read earlier.  *)
WithinOpenLimit ==
  /\ Cardinality(open) <= MaxOpen
  /\ \A s, t \in open : SymbolOf[s] = SymbolOf[t] => s = t

(* The in-memory counter does not decide in the exchange's place: with no  *)
(* position open and no order on its way, an order can be placed.          *)
CounterNeverLocksOut ==
  open = {} /\ (\A w \in Workers : stage[w] = Idle) => CountersAllow

(* Once live trading stays armed and monitoring active, every setup of IN  *)
(* PROGRESS gets an execution decision.                                    *)
EverySetupDecided ==
  <>[](armed /\ monitoring) =>
    \A s \in Setups : (s \in tradable) ~> (s \notin tradable)
=============================================================================
