-------------------------- MODULE ExecutionDecision --------------------------
(***************************************************************************)
(* What live automation promises of every setup the radar hands over: one  *)
(* decision, which is final, and one order, repeated only when the answer  *)
(* to an accepted one was lost.  A setup is shown as traded for an order   *)
(* that was answered, and as refused only with none on its way.            *)
(*                                                                         *)
(* LiveAutomation with one thread implements this specification; with two  *)
(* it does not.                                                            *)
(***************************************************************************)
EXTENDS Integers

CONSTANTS
  Setups,       \* setups the radar hands over
  RepliesLost   \* setups the answer to whose accepted order may be lost

VARIABLES
  verdict,   \* verdict[s]: what the radar shows of setup s
  ordered,   \* setups with an accepted order whose fate is not known yet
  received,  \* received[s]: orders for s the exchange accepted
  lost       \* lost[s]: answers to them that were lost

vars == <<verdict, ordered, received, lost>>

Init ==
  /\ verdict = [s \in Setups |-> "undetected"]
  /\ ordered = {}
  /\ received = [s \in Setups |-> 0]
  /\ lost = [s \in Setups |-> 0]

(* The radar hands the setup over. *)
Detect(s) ==
  /\ verdict[s] = "undetected"
  /\ verdict' = [verdict EXCEPT ![s] = "pending"]
  /\ UNCHANGED <<ordered, received, lost>>

(* The exchange accepts an order for it, one at a time. *)
Accept(s) ==
  /\ verdict[s] = "pending" /\ s \notin ordered
  /\ ordered' = ordered \cup {s}
  /\ received' = [received EXCEPT ![s] = @ + 1]
  /\ UNCHANGED <<verdict, lost>>

(* The answer is lost: as far as the program knows, nothing was ordered.   *)
Lose(s) ==
  /\ s \in ordered /\ s \in RepliesLost
  /\ ordered' = ordered \ {s}
  /\ lost' = [lost EXCEPT ![s] = @ + 1]
  /\ UNCHANGED <<verdict, received>>

(* The decision. *)
Open(s) ==
  /\ verdict[s] = "pending" /\ s \in ordered
  /\ verdict' = [verdict EXCEPT ![s] = "trade_opened"]
  /\ ordered' = ordered \ {s}
  /\ UNCHANGED <<received, lost>>

Refuse(s) ==
  /\ verdict[s] = "pending" /\ s \notin ordered
  /\ verdict' = [verdict EXCEPT ![s] = "refused"]
  /\ UNCHANGED <<ordered, received, lost>>

Next == \E s \in Setups : Detect(s) \/ Accept(s) \/ Lose(s) \/ Open(s) \/ Refuse(s)

Spec == Init /\ [][Next]_vars
=============================================================================
