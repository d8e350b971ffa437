-------------------------- MODULE MonitoringSession --------------------------
(***************************************************************************)
(* The monitoring session of src/backend/arjiobot/api/routes/monitoring.py: *)
(* the operator's start and stop, the chain of Timer threads that polls    *)
(* the enabled pairs, and the restart that resumes it from the settings.   *)
(*                                                                         *)
(* Every start begins a session with a chain of its own; a chain looks at  *)
(* the session only before each pair, at the end of a cycle and when it    *)
(* reschedules itself, so the chain of an earlier session may still be     *)
(* polling.  What a poll of a pair does to the radar and to live           *)
(* automation is SetupRadar's and LiveAutomation's.                        *)
(***************************************************************************)
EXTENDS Integers

CONSTANTS
  Pairs,        \* enabled monitored pairs
  NoPair,       \* "no pair": what a chain between two pairs works on
  MaxSessions   \* bound on the sessions explored

ASSUME MonitoringAssumption ==
  /\ Pairs # {} /\ NoPair \notin Pairs
  /\ MaxSessions \in Nat

VARIABLES
  active,   \* monitoring["active"]
  session,  \* monitoring["session_id"], numbered; 0 before the first start
  chain,    \* chain[n]: what session n's Timer chain is doing
  left,     \* left[n]: pairs of its cycle not yet tried
  busy,     \* busy[n]: the pair it is polling
  request,  \* the operator's request in progress
  wanted,   \* what the last request that was answered asked for
  saved     \* settings["monitoring_enabled"] as persisted

operatorVars == <<active, session, request, wanted, saved>>
chainVars    == <<chain, left, busy>>
vars == <<operatorVars, chainVars>>

Sessions == 1..MaxSessions

Current(n) == active /\ session = n
Alive(n)   == chain[n] \in {"scheduled", "polling", "ending"}

-----------------------------------------------------------------------------
(* The operator. *)

(* _activate_monitoring_session, up to the start of the timer. *)
Activate ==
  /\ session < MaxSessions
  /\ active' = TRUE
  /\ session' = session + 1
  /\ chain' = [chain EXCEPT ![session + 1] = "scheduled"]

Start ==
  /\ request = "none"
  /\ Activate
  /\ request' = "start"
  /\ UNCHANGED <<left, busy, wanted, saved>>

(* Mutants, here and below: plausible bugs each of which breaks a property *)
(* of this module.                                                         *)
StartRefusedAfterSaving ==
  /\ request = "none"
  /\ saved' = TRUE
  /\ UNCHANGED <<active, session, request, wanted, chainVars>>

(* No enabled pair, or the MOCK adapter: refused before anything changes.  *)
StartRefused ==
  /\ request = "none"
  /\ UNCHANGED vars

Stop ==
  /\ request = "none"
  /\ active' = FALSE
  /\ request' = "stop"
  /\ UNCHANGED <<session, wanted, saved, chainVars>>

(* save_settings, and the answer to the operator. *)
Persist ==
  /\ request # "none"
  /\ saved' = (request = "start")
  /\ wanted' = request
  /\ request' = "none"
  /\ UNCHANGED <<active, session, chainVars>>

-----------------------------------------------------------------------------
(* The chain of session n. *)

(* The timer fires; every enabled pair is to be polled. *)
Fire(n) ==
  /\ chain[n] = "scheduled"
  /\ chain' = [chain EXCEPT ![n] = "polling"]
  /\ left' = [left EXCEPT ![n] = Pairs]
  /\ UNCHANGED <<busy, operatorVars>>

TakePairAgain(n, p) ==
  /\ chain[n] = "polling" /\ busy[n] = NoPair
  /\ p \in left[n]
  /\ Current(n)
  /\ busy' = [busy EXCEPT ![n] = p]
  /\ UNCHANGED <<chain, left, operatorVars>>

(* The checks at the head of the loop over the pairs: go on with a pair,   *)
(* or leave the cycle because the session is over.                         *)
TakePair(n, p) ==
  /\ chain[n] = "polling" /\ busy[n] = NoPair
  /\ p \in left[n]
  /\ Current(n)
  /\ busy' = [busy EXCEPT ![n] = p]
  /\ left' = [left EXCEPT ![n] = @ \ {p}]
  /\ UNCHANGED <<chain, operatorVars>>

LeaveCycle(n) ==
  /\ chain[n] = "polling" /\ busy[n] = NoPair
  /\ left[n] = {} \/ ~Current(n)
  /\ chain' = [chain EXCEPT ![n] = "ending"]
  /\ left' = [left EXCEPT ![n] = {}]
  /\ UNCHANGED <<busy, operatorVars>>

(* Candles fetched, setups detected, automation run, or an error recorded. *)
PairPolled(n) ==
  /\ busy[n] # NoPair
  /\ busy' = [busy EXCEPT ![n] = NoPair]
  /\ UNCHANGED <<chain, left, operatorVars>>

CrashKillsChain(n) ==
  /\ chain[n] = "polling" /\ left[n] = Pairs
  /\ chain' = [chain EXCEPT ![n] = "dead"]
  /\ left' = [left EXCEPT ![n] = {}]
  /\ UNCHANGED <<busy, operatorVars>>

(* What the try around one pair does not catch, as decrypting the selected *)
(* account's credentials when the timer fires, ends the cycle.             *)
Crash(n) ==
  /\ chain[n] = "polling" /\ left[n] = Pairs
  /\ chain' = [chain EXCEPT ![n] = "ending"]
  /\ left' = [left EXCEPT ![n] = {}]
  /\ UNCHANGED <<busy, operatorVars>>

RescheduleWhileActive(n) ==
  /\ chain[n] = "ending"
  /\ chain' = [chain EXCEPT ![n] = IF active THEN "scheduled" ELSE "dead"]
  /\ UNCHANGED <<left, busy, operatorVars>>

(* _schedule_poll in the finally of _poll_enabled_pairs. *)
Reschedule(n) ==
  /\ chain[n] = "ending"
  /\ chain' = [chain EXCEPT ![n] = IF Current(n) THEN "scheduled" ELSE "dead"]
  /\ UNCHANGED <<left, busy, operatorVars>>

-----------------------------------------------------------------------------
(* A deploy: threads and the session are gone, and create_app resumes      *)
(* monitoring if it was saved as enabled; a refused resume is logged and   *)
(* swallowed.                                                              *)
Restart ==
  /\ left' = [n \in Sessions |-> {}]
  /\ busy' = [n \in Sessions |-> NoPair]
  /\ request' = "none"
  /\ LET killed == [n \in Sessions |-> IF chain[n] = "unused" THEN "unused"
                                                             ELSE "dead"]
     IN  \/ /\ saved
            /\ session < MaxSessions
            /\ active' = TRUE
            /\ session' = session + 1
            /\ chain' = [killed EXCEPT ![session + 1] = "scheduled"]
         \/ /\ active' = FALSE
            /\ chain' = killed
            /\ UNCHANGED session
  /\ UNCHANGED <<wanted, saved>>

-----------------------------------------------------------------------------
Init ==
  /\ active = FALSE /\ session = 0
  /\ chain = [n \in Sessions |-> "unused"]
  /\ left = [n \in Sessions |-> {}]
  /\ busy = [n \in Sessions |-> NoPair]
  /\ request = "none" /\ wanted = "stop" /\ saved = FALSE

Operate == Start \/ StartRefused \/ Stop \/ Persist \/ Restart

Poll(n) ==
  \/ Fire(n) \/ LeaveCycle(n) \/ PairPolled(n) \/ Crash(n) \/ Reschedule(n)
  \/ \E p \in Pairs : TakePair(n, p)

Next == Operate \/ \E n \in Sessions : Poll(n)

Spec == Init /\ [][Next]_vars

(* Timers fire, every call of a poll returns (the Bitget client has a      *)
(* request timeout) and so does save_settings.                             *)
FairSpec ==
  /\ Spec
  /\ \A n \in Sessions : WF_vars(Poll(n))
  /\ WF_vars(Persist)

-----------------------------------------------------------------------------
(* Properties. *)

(* Types; a chain polls a pair only within a cycle that has not yet tried  *)
(* it, and exactly the sessions begun so far have had a chain.             *)
TypeOK ==
  /\ active \in BOOLEAN /\ session \in 0..MaxSessions
  /\ chain \in [Sessions ->
                  {"unused", "scheduled", "polling", "ending", "dead"}]
  /\ left \in [Sessions -> SUBSET Pairs]
  /\ busy \in [Sessions -> Pairs \cup {NoPair}]
  /\ \A n \in Sessions : /\ busy[n] # NoPair => chain[n] = "polling"
                         /\ busy[n] \notin left[n]
                         /\ chain[n] = "unused" <=> n > session
  /\ request \in {"none", "start", "stop"}
  /\ wanted \in {"start", "stop"} /\ saved \in BOOLEAN

(* The dashboard never shows monitoring as active over a chain that has    *)
(* died: no crash, stop and start, or restart leaves an active session     *)
(* without a thread that polls for it.                                     *)
ActiveIsPolled == active => Alive(session)

(* What a restart resumes is what the operator last asked for: the saved   *)
(* preference is the outcome of the last request that was answered,        *)
(* whatever start was refused since and wherever a restart cut in, and no  *)
(* session is active against it.                                           *)
SavedAsRequested ==
  request = "none" => /\ saved <=> wanted = "start"
                      /\ active => saved

(* A session that stays current polls for ever: its chain goes through     *)
(* cycle after cycle, even if every one of them crashes.                   *)
PollingGoesOn ==
  \A n \in Sessions :
    <>[]Current(n) => /\ []<>(chain[n] = "polling")
                      /\ []<>(chain[n] = "scheduled")

(* Two chains do not poll side by side for ever: whenever a session is     *)
(* over, by a stop, a second start or both, its chain ends.                *)
SupersededChainsDie ==
  \A n \in Sessions : (Alive(n) /\ ~Current(n)) ~> ~Alive(n)
=============================================================================
