----------------------- MODULE LiveAutomation_proofs -----------------------
(* Theorems about LiveAutomation and their proofs.                         *)
EXTENDS LiveAutomation, FiniteSetTheorems, TLAPS

USE DEF modeVars, radarVars, engineVars, workerVars, exchangeVars

(* The values of the strings the proofs compare. *)
USE DEF Idle, Choosing, Risk, Plan, Preview, Placing, Sending, Waiting, TopUp,
        Stages, PastSignal, Undetected, Pending, Refused, Opened, Outcomes

-----------------------------------------------------------------------------
(* Type correctness. *)

LEMMA InitType == Init => TypeOK
<1> SUFFICES ASSUME Init PROVE TypeOK
  OBVIOUS
<1>1. armed \in BOOLEAN /\ monitoring \in BOOLEAN
  BY DEF Init
<1>2. outcome \in [Setups -> Outcomes] /\ stage \in [Workers -> Stages]
  BY DEF Init
<1>3. /\ todo \in [Workers -> SUBSET Setups]
      /\ current \in [Workers -> Setups \cup {NoSetup}]
      /\ seen \in [Workers -> SUBSET Setups]
  BY DEF Init
<1>4. \A w \in Workers : stage[w] \in PastSignal <=> current[w] # NoSetup
  BY DEF Init
<1>5. counted \in Nat /\ received \in [Setups -> Nat] /\ lost \in [Setups -> Nat]
  BY DEF Init
<1> QED
  BY <1>1, <1>2, <1>3, <1>4, <1>5 DEF Init, TypeOK

LEMMA NextType == ASSUME TypeOK, [Next]_vars PROVE TypeOK'
<1> USE AutomationAssumption DEF TypeOK
<1>1. ASSUME NEW w \in Workers, Begin(w) PROVE TypeOK'
  BY <1>1 DEF Begin
<1>2. ASSUME NEW w \in Workers, Finish(w) PROVE TypeOK'
  BY <1>2 DEF Finish, Goto
<1>3. ASSUME NEW w \in Workers, RiskUnknown(w) PROVE TypeOK'
  BY <1>3 DEF RiskUnknown, Blocked, NextSetup
<1>4. ASSUME NEW w \in Workers, ReadPositions(w) PROVE TypeOK'
  BY <1>4 DEF ReadPositions
<1>5. ASSUME NEW w \in Workers, RejectPlan(w) PROVE TypeOK'
  BY <1>5 DEF RejectPlan, Resolve, NextSetup
<1>6. ASSUME NEW w \in Workers, SkipExecuted(w) PROVE TypeOK'
  BY <1>6 DEF SkipExecuted, NextSetup
<1>7. ASSUME NEW w \in Workers, ApprovePlan(w) PROVE TypeOK'
  BY <1>7 DEF ApprovePlan, Goto
<1>8. ASSUME NEW w \in Workers, PreviewPasses(w) PROVE TypeOK'
  BY <1>8 DEF PreviewPasses, Goto
<1>9. ASSUME NEW w \in Workers, StartOrder(w) PROVE TypeOK'
  BY <1>9 DEF StartOrder, Goto
<1>10. ASSUME NEW w \in Workers, OrderBlocked(w) PROVE TypeOK'
  BY <1>10 DEF OrderBlocked, Blocked, NextSetup
<1>11. ASSUME NEW w \in Workers, ExchangeAccepts(w) PROVE TypeOK'
  BY <1>11 DEF ExchangeAccepts, Goto
<1>12. ASSUME NEW w \in Workers, ReplyArrives(w) PROVE TypeOK'
  BY <1>12 DEF ReplyArrives, Goto
<1>13. ASSUME NEW w \in Workers, ReplyLost(w) PROVE TypeOK'
  BY <1>13 DEF ReplyLost, Blocked, NextSetup
<1>14. ASSUME NEW w \in Workers, RecordSubmission(w) PROVE TypeOK'
  BY <1>14 DEF RecordSubmission, Resolve, NextSetup
<1>15. ASSUME NEW w \in Workers, NEW s \in Setups, TimeOut(w, s) PROVE TypeOK'
  BY <1>15 DEF TimeOut, Resolve
<1>16. ASSUME NEW w \in Workers, NEW s \in Setups, GenerateSignal(w, s)
       PROVE  TypeOK'
  BY <1>16 DEF GenerateSignal
<1>17. ASSUME NEW w \in Workers, NEW s \in Setups, DuplicateSignal(w, s)
       PROVE  TypeOK'
  BY <1>17 DEF DuplicateSignal
<1>18. ASSUME NEW w \in Workers, NEW s \in Setups, RejectSignal(w, s)
       PROVE  TypeOK'
  BY <1>18 DEF RejectSignal, Resolve
<1>19. ASSUME NEW s \in Setups, Detect(s) PROVE TypeOK'
  BY <1>19 DEF Detect
<1>20. ASSUME NEW s \in Setups, GrowOverdue(s) PROVE TypeOK'
  BY <1>20 DEF GrowOverdue
<1>21. ASSUME NEW s \in Setups, ClosePosition(s) PROVE TypeOK'
  BY <1>21 DEF ClosePosition
<1>22. ASSUME Disarm PROVE TypeOK'
  BY <1>22 DEF Disarm
<1>23. ASSUME Arm PROVE TypeOK'
  BY <1>23 DEF Arm
<1>24. ASSUME StopMonitoring PROVE TypeOK'
  BY <1>24 DEF StopMonitoring
<1>25. ASSUME StartMonitoring PROVE TypeOK'
  BY <1>25 DEF StartMonitoring
<1>26. ASSUME UNCHANGED vars PROVE TypeOK'
  BY <1>26 DEF vars
<1> QED
  BY <1>1, <1>2, <1>3, <1>4, <1>5, <1>6, <1>7, <1>8, <1>9, <1>10, <1>11,
     <1>12, <1>13, <1>14, <1>15, <1>16, <1>17, <1>18, <1>19, <1>20, <1>21,
     <1>22, <1>23, <1>24, <1>25, <1>26
     DEF Next, Work, Environment, EmptyRun

(* Every state of every behaviour is one the code can be in, for any       *)
(* threads, setups, pairs and limits.                                      *)
THEOREM TypeCorrect == Spec => []TypeOK
<1>1. TypeOK /\ [Next]_vars => TypeOK'
  BY NextType
<1> QED
  BY InitType, <1>1, PTL DEF Spec

-----------------------------------------------------------------------------
(* No stuck marker. *)

LEMMA NextMarker ==
  ASSUME TypeOK, NoStuckMarker, [Next]_vars PROVE NoStuckMarker'
<1> USE AutomationAssumption DEF TypeOK, NoStuckMarker, Processing
<1>1. ASSUME NEW w \in Workers, Begin(w) PROVE NoStuckMarker'
  BY <1>1 DEF Begin
<1>2. ASSUME NEW w \in Workers, Finish(w) PROVE NoStuckMarker'
  BY <1>2 DEF Finish, Goto
<1>3. ASSUME NEW w \in Workers, RiskUnknown(w) PROVE NoStuckMarker'
  BY <1>3 DEF RiskUnknown, Blocked, NextSetup
<1>4. ASSUME NEW w \in Workers, ReadPositions(w) PROVE NoStuckMarker'
  BY <1>4 DEF ReadPositions
<1>5. ASSUME NEW w \in Workers, RejectPlan(w) PROVE NoStuckMarker'
  BY <1>5 DEF RejectPlan, Resolve, NextSetup
<1>6. ASSUME NEW w \in Workers, SkipExecuted(w) PROVE NoStuckMarker'
  BY <1>6 DEF SkipExecuted, NextSetup
<1>7. ASSUME NEW w \in Workers, ApprovePlan(w) PROVE NoStuckMarker'
  BY <1>7 DEF ApprovePlan, Goto
<1>8. ASSUME NEW w \in Workers, PreviewPasses(w) PROVE NoStuckMarker'
  BY <1>8 DEF PreviewPasses, Goto
<1>9. ASSUME NEW w \in Workers, StartOrder(w) PROVE NoStuckMarker'
  BY <1>9 DEF StartOrder, Goto
<1>10. ASSUME NEW w \in Workers, OrderBlocked(w) PROVE NoStuckMarker'
  BY <1>10 DEF OrderBlocked, Blocked, NextSetup
<1>11. ASSUME NEW w \in Workers, ExchangeAccepts(w) PROVE NoStuckMarker'
  BY <1>11 DEF ExchangeAccepts, Goto
<1>12. ASSUME NEW w \in Workers, ReplyArrives(w) PROVE NoStuckMarker'
  BY <1>12 DEF ReplyArrives, Goto
<1>13. ASSUME NEW w \in Workers, ReplyLost(w) PROVE NoStuckMarker'
  BY <1>13 DEF ReplyLost, Blocked, NextSetup
<1>14. ASSUME NEW w \in Workers, RecordSubmission(w) PROVE NoStuckMarker'
  BY <1>14 DEF RecordSubmission, Resolve, NextSetup
<1>15. ASSUME NEW w \in Workers, NEW s \in Setups, TimeOut(w, s)
       PROVE  NoStuckMarker'
  BY <1>15 DEF TimeOut, Resolve
<1>16. ASSUME NEW w \in Workers, NEW s \in Setups, GenerateSignal(w, s)
       PROVE  NoStuckMarker'
  BY <1>16 DEF GenerateSignal
<1>17. ASSUME NEW w \in Workers, NEW s \in Setups, DuplicateSignal(w, s)
       PROVE  NoStuckMarker'
  BY <1>17 DEF DuplicateSignal
<1>18. ASSUME NEW w \in Workers, NEW s \in Setups, RejectSignal(w, s)
       PROVE  NoStuckMarker'
  BY <1>18 DEF RejectSignal, Resolve
<1>19. ASSUME NEW s \in Setups, Detect(s) PROVE NoStuckMarker'
  BY <1>19 DEF Detect
<1>20. ASSUME NEW s \in Setups, GrowOverdue(s) PROVE NoStuckMarker'
  BY <1>20 DEF GrowOverdue
<1>21. ASSUME NEW s \in Setups, ClosePosition(s) PROVE NoStuckMarker'
  BY <1>21 DEF ClosePosition
<1>22. ASSUME Disarm PROVE NoStuckMarker'
  BY <1>22 DEF Disarm
<1>23. ASSUME Arm PROVE NoStuckMarker'
  BY <1>23 DEF Arm
<1>24. ASSUME StopMonitoring PROVE NoStuckMarker'
  BY <1>24 DEF StopMonitoring
<1>25. ASSUME StartMonitoring PROVE NoStuckMarker'
  BY <1>25 DEF StartMonitoring
<1>26. ASSUME UNCHANGED vars PROVE NoStuckMarker'
  BY <1>26 DEF vars
<1> QED
  BY <1>1, <1>2, <1>3, <1>4, <1>5, <1>6, <1>7, <1>8, <1>9, <1>10, <1>11,
     <1>12, <1>13, <1>14, <1>15, <1>16, <1>17, <1>18, <1>19, <1>20, <1>21,
     <1>22, <1>23, <1>24, <1>25, <1>26
     DEF Next, Work, Environment, EmptyRun

(* However the poll thread and API threads interleave, and whatever the    *)
(* exchange answers, no blocked setup keeps the marker that would make its *)
(* next signal a duplicate.                                                *)
THEOREM NoMarkerIsStuck == Spec => []NoStuckMarker
<1>1. Init => NoStuckMarker
  BY DEF Init, NoStuckMarker
<1>2. TypeOK /\ NoStuckMarker /\ [Next]_vars => NoStuckMarker'
  BY NextMarker
<1> QED
  BY TypeCorrect, <1>1, <1>2, PTL DEF Spec

-----------------------------------------------------------------------------
(* A trade that is shown was accepted by the exchange. *)

(* An order the exchange accepted and the run has not yet recorded. *)
InFlight(w) == stage[w] \in {Waiting, TopUp}

AcceptedBeforeRecorded ==
  /\ OpenedWasReceived
  /\ \A w \in Workers : InFlight(w) => received[current[w]] >= 1

LEMMA NextReceived ==
  ASSUME TypeOK, AcceptedBeforeRecorded, [Next]_vars
  PROVE  AcceptedBeforeRecorded'
<1> USE AutomationAssumption DEF TypeOK, AcceptedBeforeRecorded,
   OpenedWasReceived, InFlight
<1>1. ASSUME NEW w \in Workers, Begin(w) PROVE AcceptedBeforeRecorded'
  BY <1>1 DEF Begin
<1>2. ASSUME NEW w \in Workers, Finish(w) PROVE AcceptedBeforeRecorded'
  BY <1>2 DEF Finish, Goto
<1>3. ASSUME NEW w \in Workers, RiskUnknown(w) PROVE AcceptedBeforeRecorded'
  BY <1>3 DEF RiskUnknown, Blocked, NextSetup
<1>4. ASSUME NEW w \in Workers, ReadPositions(w) PROVE AcceptedBeforeRecorded'
  BY <1>4 DEF ReadPositions
<1>5. ASSUME NEW w \in Workers, RejectPlan(w) PROVE AcceptedBeforeRecorded'
  BY <1>5 DEF RejectPlan, Resolve, NextSetup
<1>6. ASSUME NEW w \in Workers, SkipExecuted(w) PROVE AcceptedBeforeRecorded'
  BY <1>6 DEF SkipExecuted, NextSetup
<1>7. ASSUME NEW w \in Workers, ApprovePlan(w) PROVE AcceptedBeforeRecorded'
  BY <1>7 DEF ApprovePlan, Goto
<1>8. ASSUME NEW w \in Workers, PreviewPasses(w) PROVE AcceptedBeforeRecorded'
  BY <1>8 DEF PreviewPasses, Goto
<1>9. ASSUME NEW w \in Workers, StartOrder(w) PROVE AcceptedBeforeRecorded'
  BY <1>9 DEF StartOrder, Goto
<1>10. ASSUME NEW w \in Workers, OrderBlocked(w) PROVE AcceptedBeforeRecorded'
  BY <1>10 DEF OrderBlocked, Blocked, NextSetup
<1>11. ASSUME NEW w \in Workers, ExchangeAccepts(w)
       PROVE  AcceptedBeforeRecorded'
  BY <1>11 DEF ExchangeAccepts, Goto
<1>12. ASSUME NEW w \in Workers, ReplyArrives(w) PROVE AcceptedBeforeRecorded'
  BY <1>12 DEF ReplyArrives, Goto
<1>13. ASSUME NEW w \in Workers, ReplyLost(w) PROVE AcceptedBeforeRecorded'
  BY <1>13 DEF ReplyLost, Blocked, NextSetup
<1>14. ASSUME NEW w \in Workers, RecordSubmission(w)
       PROVE  AcceptedBeforeRecorded'
  BY <1>14 DEF RecordSubmission, Resolve, NextSetup
<1>15. ASSUME NEW w \in Workers, NEW s \in Setups, TimeOut(w, s)
       PROVE  AcceptedBeforeRecorded'
  BY <1>15 DEF TimeOut, Resolve
<1>16. ASSUME NEW w \in Workers, NEW s \in Setups, GenerateSignal(w, s)
       PROVE  AcceptedBeforeRecorded'
  BY <1>16 DEF GenerateSignal
<1>17. ASSUME NEW w \in Workers, NEW s \in Setups, DuplicateSignal(w, s)
       PROVE  AcceptedBeforeRecorded'
  BY <1>17 DEF DuplicateSignal
<1>18. ASSUME NEW w \in Workers, NEW s \in Setups, RejectSignal(w, s)
       PROVE  AcceptedBeforeRecorded'
  BY <1>18 DEF RejectSignal, Resolve
<1>19. ASSUME NEW s \in Setups, Detect(s) PROVE AcceptedBeforeRecorded'
  BY <1>19 DEF Detect
<1>20. ASSUME NEW s \in Setups, GrowOverdue(s) PROVE AcceptedBeforeRecorded'
  BY <1>20 DEF GrowOverdue
<1>21. ASSUME NEW s \in Setups, ClosePosition(s) PROVE AcceptedBeforeRecorded'
  BY <1>21 DEF ClosePosition
<1>22. ASSUME Disarm PROVE AcceptedBeforeRecorded'
  BY <1>22 DEF Disarm
<1>23. ASSUME Arm PROVE AcceptedBeforeRecorded'
  BY <1>23 DEF Arm
<1>24. ASSUME StopMonitoring PROVE AcceptedBeforeRecorded'
  BY <1>24 DEF StopMonitoring
<1>25. ASSUME StartMonitoring PROVE AcceptedBeforeRecorded'
  BY <1>25 DEF StartMonitoring
<1>26. ASSUME UNCHANGED vars PROVE AcceptedBeforeRecorded'
  BY <1>26 DEF vars
<1> QED
  BY <1>1, <1>2, <1>3, <1>4, <1>5, <1>6, <1>7, <1>8, <1>9, <1>10, <1>11,
     <1>12, <1>13, <1>14, <1>15, <1>16, <1>17, <1>18, <1>19, <1>20, <1>21,
     <1>22, <1>23, <1>24, <1>25, <1>26
     DEF Next, Work, Environment, EmptyRun

(* For any number of threads and with answers lost, the radar and the      *)
(* execution record never show a trade without an order behind it.         *)
THEOREM OpenedTradesAreReal == Spec => []OpenedWasReceived
<1>1. Init => AcceptedBeforeRecorded
  BY DEF Init, AcceptedBeforeRecorded, OpenedWasReceived, InFlight
<1>2. TypeOK /\ AcceptedBeforeRecorded /\ [Next]_vars
        => AcceptedBeforeRecorded'
  BY NextReceived
<1>3. AcceptedBeforeRecorded => OpenedWasReceived
  BY DEF AcceptedBeforeRecorded
<1> QED
  BY TypeCorrect, <1>1, <1>2, <1>3, PTL DEF Spec

-----------------------------------------------------------------------------
(* One order per setup and lost answer, for a single thread.               *)

(* A setup still waiting for a decision is pending, and nowhere twice: in  *)
(* hand, or still to do.                                                   *)
PendingUntilDecided ==
  /\ \A s \in tradable : outcome[s] = Pending
  /\ \A w \in Workers : \A s \in todo[w] : outcome[s] = Pending
  /\ \A w \in Workers : stage[w] \in PastSignal =>
       outcome[current[w]] = Pending /\ current[w] \notin todo[w]

(* An order whose answer is not lost is on its way to be recorded, or the  *)
(* setup shows it.                                                         *)
OrderIsAccountedFor ==
  /\ \A s \in Setups :
       \/ received[s] = lost[s]
       \/ /\ received[s] = lost[s] + 1
          /\ \/ outcome[s] = Opened
             \/ \E w \in Workers : InFlight(w) /\ current[w] = s
  /\ \A w \in Workers : InFlight(w) => received[current[w]] = lost[current[w]] + 1

SoloInv == PendingUntilDecided /\ OrderIsAccountedFor

LEMMA NextSolo ==
  ASSUME NEW worker, Workers = {worker}, TypeOK, SoloInv, [Next]_vars
  PROVE  SoloInv'
<1> USE AutomationAssumption DEF TypeOK, SoloInv, PendingUntilDecided,
   OrderIsAccountedFor, InFlight
<1>1. ASSUME NEW w \in Workers, Begin(w) PROVE SoloInv'
  BY <1>1 DEF Begin
<1>2. ASSUME NEW w \in Workers, Finish(w) PROVE SoloInv'
  BY <1>2 DEF Finish, Goto
<1>3. ASSUME NEW w \in Workers, RiskUnknown(w) PROVE SoloInv'
  BY <1>3 DEF RiskUnknown, Blocked, NextSetup
<1>4. ASSUME NEW w \in Workers, ReadPositions(w) PROVE SoloInv'
  BY <1>4 DEF ReadPositions
<1>5. ASSUME NEW w \in Workers, RejectPlan(w) PROVE SoloInv'
  BY <1>5 DEF RejectPlan, Resolve, NextSetup
<1>6. ASSUME NEW w \in Workers, SkipExecuted(w) PROVE SoloInv'
  BY <1>6 DEF SkipExecuted, NextSetup
<1>7. ASSUME NEW w \in Workers, ApprovePlan(w) PROVE SoloInv'
  BY <1>7 DEF ApprovePlan, Goto
<1>8. ASSUME NEW w \in Workers, PreviewPasses(w) PROVE SoloInv'
  BY <1>8 DEF PreviewPasses, Goto
<1>9. ASSUME NEW w \in Workers, StartOrder(w) PROVE SoloInv'
  BY <1>9 DEF StartOrder, Goto
<1>10. ASSUME NEW w \in Workers, OrderBlocked(w) PROVE SoloInv'
  BY <1>10 DEF OrderBlocked, Blocked, NextSetup
<1>11. ASSUME NEW w \in Workers, ExchangeAccepts(w) PROVE SoloInv'
  BY <1>11 DEF ExchangeAccepts, Goto
<1>12. ASSUME NEW w \in Workers, ReplyArrives(w) PROVE SoloInv'
  BY <1>12 DEF ReplyArrives, Goto
<1>13. ASSUME NEW w \in Workers, ReplyLost(w) PROVE SoloInv'
  BY <1>13 DEF ReplyLost, Blocked, NextSetup
<1>14. ASSUME NEW w \in Workers, RecordSubmission(w) PROVE SoloInv'
  BY <1>14 DEF RecordSubmission, Resolve, NextSetup
<1>15. ASSUME NEW w \in Workers, NEW s \in Setups, TimeOut(w, s)
       PROVE  SoloInv'
  BY <1>15 DEF TimeOut, Resolve
<1>16. ASSUME NEW w \in Workers, NEW s \in Setups, GenerateSignal(w, s)
       PROVE  SoloInv'
  BY <1>16 DEF GenerateSignal
<1>17. ASSUME NEW w \in Workers, NEW s \in Setups, DuplicateSignal(w, s)
       PROVE  SoloInv'
  BY <1>17 DEF DuplicateSignal
<1>18. ASSUME NEW w \in Workers, NEW s \in Setups, RejectSignal(w, s)
       PROVE  SoloInv'
  BY <1>18 DEF RejectSignal, Resolve
<1>19. ASSUME NEW s \in Setups, Detect(s) PROVE SoloInv'
  BY <1>19 DEF Detect
<1>20. ASSUME NEW s \in Setups, GrowOverdue(s) PROVE SoloInv'
  BY <1>20 DEF GrowOverdue
<1>21. ASSUME NEW s \in Setups, ClosePosition(s) PROVE SoloInv'
  BY <1>21 DEF ClosePosition
<1>22. ASSUME Disarm PROVE SoloInv'
  BY <1>22 DEF Disarm
<1>23. ASSUME Arm PROVE SoloInv'
  BY <1>23 DEF Arm
<1>24. ASSUME StopMonitoring PROVE SoloInv'
  BY <1>24 DEF StopMonitoring
<1>25. ASSUME StartMonitoring PROVE SoloInv'
  BY <1>25 DEF StartMonitoring
<1>26. ASSUME UNCHANGED vars PROVE SoloInv'
  BY <1>26 DEF vars
<1> QED
  BY <1>1, <1>2, <1>3, <1>4, <1>5, <1>6, <1>7, <1>8, <1>9, <1>10, <1>11,
     <1>12, <1>13, <1>14, <1>15, <1>16, <1>17, <1>18, <1>19, <1>20, <1>21,
     <1>22, <1>23, <1>24, <1>25, <1>26
     DEF Next, Work, Environment, EmptyRun

(* With one thread running the automation, a setup is ordered once, and    *)
(* once more for every answer lost; one that the radar shows as refused,   *)
(* expired or timed out has only orders whose answer was lost: whatever    *)
(* the operator does meanwhile, whenever positions close.                  *)
THEOREM OneThreadOneOrder ==
  ASSUME NEW worker, Workers = {worker}
  PROVE  Spec => []RepeatsOnlyLostOrders
<1>1. Init => SoloInv
  BY DEF Init, SoloInv, PendingUntilDecided, OrderIsAccountedFor, InFlight
<1>2. TypeOK /\ SoloInv /\ [Next]_vars => SoloInv'
  BY NextSolo
<1>3. TypeOK /\ SoloInv => RepeatsOnlyLostOrders
  BY DEF TypeOK, SoloInv, PendingUntilDecided, OrderIsAccountedFor, InFlight,
         RepeatsOnlyLostOrders
<1> QED
  BY TypeCorrect, <1>1, <1>2, <1>3, PTL DEF Spec

-----------------------------------------------------------------------------
(* The implementation of ExecutionDecision, for a single thread. *)

LEMMA SoloOrdered ==
  ASSUME NEW worker, Workers = {worker}
  PROVE  Ordered = IF stage[worker] \in {Waiting, TopUp} THEN {current[worker]} ELSE {}
BY DEF Ordered

LEMMA InitDecides ==
  ASSUME NEW worker, Workers = {worker}, Init
  PROVE  Decision!Init
BY SoloOrdered DEF Init, Decision!Init

LEMMA NextDecides ==
  ASSUME NEW worker, Workers = {worker}, TypeOK, SoloInv, [Next]_vars
  PROVE  [Decision!Next]_Decision!vars
<1> USE AutomationAssumption DEF TypeOK, SoloInv, PendingUntilDecided, InFlight,
   Decision!Next, Decision!vars
<1> DEFINE w == worker
           s == current[w]
<1>0. /\ w \in Workers
      /\ Ordered = IF stage[w] \in {Waiting, TopUp} THEN {current[w]} ELSE {}
      /\ Ordered' = IF stage'[w] \in {Waiting, TopUp} THEN {current'[w]} ELSE {}
  BY DEF Ordered
<1> USE <1>0
<1> HIDE DEF w
<1>1. ASSUME Begin(w) PROVE UNCHANGED Decision!vars
  BY <1>1 DEF Begin
<1>2. ASSUME Finish(w) PROVE UNCHANGED Decision!vars
  BY <1>2 DEF Finish, Goto
<1>3. ASSUME RiskUnknown(w) PROVE UNCHANGED Decision!vars
  BY <1>3 DEF RiskUnknown, Blocked, NextSetup
<1>4. ASSUME ReadPositions(w) PROVE UNCHANGED Decision!vars
  BY <1>4 DEF ReadPositions
<1>5. ASSUME RejectPlan(w) PROVE \E t \in Setups : Decision!Refuse(t)
  BY <1>5 DEF RejectPlan, Resolve, NextSetup, Decision!Refuse
<1>6. ASSUME SkipExecuted(w) PROVE UNCHANGED Decision!vars
  BY <1>6 DEF SkipExecuted, NextSetup
<1>7. ASSUME ApprovePlan(w) PROVE UNCHANGED Decision!vars
  BY <1>7 DEF ApprovePlan, Goto
<1>8. ASSUME PreviewPasses(w) PROVE UNCHANGED Decision!vars
  BY <1>8 DEF PreviewPasses, Goto
<1>9. ASSUME StartOrder(w) PROVE UNCHANGED Decision!vars
  BY <1>9 DEF StartOrder, Goto
<1>10. ASSUME OrderBlocked(w) PROVE UNCHANGED Decision!vars
  BY <1>10 DEF OrderBlocked, Blocked, NextSetup
<1>11. ASSUME ExchangeAccepts(w) PROVE \E t \in Setups : Decision!Accept(t)
  BY <1>11 DEF ExchangeAccepts, Goto, Decision!Accept
<1>12. ASSUME ReplyArrives(w) PROVE UNCHANGED Decision!vars
  BY <1>12 DEF ReplyArrives, Goto
<1>13. ASSUME ReplyLost(w) PROVE \E t \in Setups : Decision!Lose(t)
  <2>1. /\ stage[w] = Waiting /\ stage' = [stage EXCEPT ![w] = Choosing]
        /\ s \in RepliesLost
        /\ lost' = [lost EXCEPT ![s] = @ + 1]
        /\ UNCHANGED <<outcome, received>>
    BY <1>13 DEF ReplyLost, Blocked, NextSetup
  <2>2. Ordered = {s} /\ Ordered' = {} /\ s \in Setups
    BY <2>1
  <2>3. Decision!Lose(s)
    BY <2>1, <2>2 DEF Decision!Lose
  <2> QED
    BY <2>2, <2>3
<1>14. ASSUME RecordSubmission(w) PROVE \E t \in Setups : Decision!Open(t)
  BY <1>14 DEF RecordSubmission, Resolve, NextSetup, Decision!Open
<1>15. ASSUME NEW t \in Setups, TimeOut(w, t) PROVE Decision!Refuse(t)
  BY <1>15 DEF TimeOut, Resolve, Decision!Refuse
<1>16. ASSUME NEW t \in Setups, GenerateSignal(w, t) PROVE UNCHANGED Decision!vars
  BY <1>16 DEF GenerateSignal
<1>17. ASSUME NEW t \in Setups, DuplicateSignal(w, t) PROVE UNCHANGED Decision!vars
  BY <1>17 DEF DuplicateSignal
<1>18. ASSUME NEW t \in Setups, RejectSignal(w, t) PROVE Decision!Refuse(t)
  BY <1>18 DEF RejectSignal, Resolve, Decision!Refuse
<1>19. ASSUME NEW t \in Setups, Detect(t) PROVE Decision!Detect(t)
  BY <1>19 DEF Detect, Decision!Detect
<1>20. ASSUME NEW t \in Setups, GrowOverdue(t) PROVE UNCHANGED Decision!vars
  BY <1>20 DEF GrowOverdue
<1>21. ASSUME NEW t \in Setups, ClosePosition(t) PROVE UNCHANGED Decision!vars
  BY <1>21 DEF ClosePosition
<1>22. ASSUME Disarm \/ Arm \/ StopMonitoring \/ StartMonitoring
       PROVE  UNCHANGED Decision!vars
  BY <1>22 DEF Disarm, Arm, StopMonitoring, StartMonitoring
<1>23. ASSUME EmptyRun(w) \/ UNCHANGED vars PROVE UNCHANGED Decision!vars
  BY <1>23 DEF EmptyRun, vars
<1>24. \A v \in Workers : v = w
  BY DEF w
<1> HIDE DEF TypeOK, SoloInv, PendingUntilDecided, InFlight
<1>25. CASE Work(w)
  BY <1>1, <1>2, <1>3, <1>4, <1>5, <1>6, <1>7, <1>8, <1>9, <1>10, <1>11,
     <1>12, <1>13, <1>14, <1>15, <1>16, <1>17, <1>18, <1>23, <1>25 DEF Work
<1>26. CASE Environment
  BY <1>19, <1>20, <1>21, <1>22, <1>26 DEF Environment
<1> QED
  BY <1>23, <1>24, <1>25, <1>26 DEF Next

(* With one thread live automation implements ExecutionDecision, for any   *)
(* setups, limits and lost answers: every step of a run is a decision, an  *)
(* order, a loss, or invisible there.                                      *)
THEOREM OneThreadDecides ==
  ASSUME NEW worker, Workers = {worker}
  PROVE  Spec => DecidesOnce
<1>1. Init => SoloInv
  BY DEF Init, SoloInv, PendingUntilDecided, OrderIsAccountedFor, InFlight
<1>2. TypeOK /\ SoloInv /\ [Next]_vars => SoloInv'
  BY NextSolo
<1>3. Init => Decision!Init
  BY InitDecides
<1>4. TypeOK /\ SoloInv /\ [Next]_vars => [Decision!Next]_Decision!vars
  BY NextDecides
<1> QED
  BY TypeCorrect, <1>1, <1>2, <1>3, <1>4, PTL DEF Spec, DecidesOnce, Decision!Spec

-----------------------------------------------------------------------------
(* The limits on open positions, for a single thread. *)

(* Between reading the positions and placing the order a position may      *)
(* close but none may open, so what was approved against the positions     *)
(* read still holds for the positions that are open.                       *)
RiskStillHolds ==
  \A w \in Workers :
    /\ stage[w] \in {Plan, Preview, Placing, Sending} => open \subseteq seen[w]
    /\ stage[w] \in {Preview, Placing, Sending} => WithinRisk(w)

LimitInv == RiskStillHolds /\ WithinOpenLimit

(* One more position than fewer than MaxOpen are no more than MaxOpen. *)
LEMMA OneMorePosition ==
  ASSUME NEW Seen, IsFiniteSet(Seen), Cardinality(Seen) < MaxOpen,
         NEW Open, Open \subseteq Seen, NEW s
  PROVE  Cardinality(Open \cup {s}) <= MaxOpen
<1>1. IsFiniteSet(Open) /\ Cardinality(Open) <= Cardinality(Seen)
  BY FS_Subset
<1>2. Cardinality(Open) \in Nat /\ Cardinality(Seen) \in Nat
  BY <1>1, FS_CardinalityType
<1>3. \/ Cardinality(Open \cup {s}) = Cardinality(Open)
      \/ Cardinality(Open \cup {s}) = Cardinality(Open) + 1
  BY <1>1, FS_AddElement
<1> QED
  BY <1>1, <1>2, <1>3, AutomationAssumption DEF AutomationAssumption

LEMMA NextLimit ==
  ASSUME NEW worker, Workers = {worker}, TypeOK, LimitInv, [Next]_vars
  PROVE  LimitInv'
<1> USE AutomationAssumption DEF TypeOK, LimitInv, RiskStillHolds,
   WithinOpenLimit, WithinRisk
<1>1. ASSUME NEW w \in Workers, Begin(w) PROVE LimitInv'
  BY <1>1 DEF Begin
<1>2. ASSUME NEW w \in Workers, Finish(w) PROVE LimitInv'
  BY <1>2 DEF Finish, Goto
<1>3. ASSUME NEW w \in Workers, RiskUnknown(w) PROVE LimitInv'
  BY <1>3 DEF RiskUnknown, Blocked, NextSetup
<1>4. ASSUME NEW w \in Workers, ReadPositions(w) PROVE LimitInv'
  BY <1>4 DEF ReadPositions
<1>5. ASSUME NEW w \in Workers, RejectPlan(w) PROVE LimitInv'
  BY <1>5 DEF RejectPlan, Resolve, NextSetup
<1>6. ASSUME NEW w \in Workers, SkipExecuted(w) PROVE LimitInv'
  BY <1>6 DEF SkipExecuted, NextSetup
<1>7. ASSUME NEW w \in Workers, ApprovePlan(w) PROVE LimitInv'
  BY <1>7 DEF ApprovePlan, Goto
<1>8. ASSUME NEW w \in Workers, PreviewPasses(w) PROVE LimitInv'
  BY <1>8 DEF PreviewPasses, Goto
<1>9. ASSUME NEW w \in Workers, StartOrder(w) PROVE LimitInv'
  BY <1>9 DEF StartOrder, Goto
<1>10. ASSUME NEW w \in Workers, OrderBlocked(w) PROVE LimitInv'
  BY <1>10 DEF OrderBlocked, Blocked, NextSetup
<1>11. ASSUME NEW w \in Workers, ExchangeAccepts(w) PROVE LimitInv'
  <2> DEFINE c == current[w]
  <2>1. /\ w = worker /\ c \in Setups /\ stage[w] = Sending
        /\ open' = open \cup {c}
        /\ stage' = [stage EXCEPT ![w] = Waiting]
    BY <1>11 DEF ExchangeAccepts, Goto
  <2>2. RiskStillHolds'
    BY <2>1
  <2>3. /\ open \subseteq seen[w] /\ Cardinality(seen[w]) < MaxOpen
        /\ \A p \in seen[w] : SymbolOf[p] # SymbolOf[c]
    BY <2>1
  <2>4. seen[w] \subseteq Setups /\ IsFiniteSet(seen[w])
    BY <2>1, FS_Subset DEF AutomationAssumption
  <2>5. Cardinality(open') <= MaxOpen
    BY <2>1, <2>3, <2>4, OneMorePosition
  <2>6. \A s, t \in open' : SymbolOf[s] = SymbolOf[t] => s = t
    BY <2>1, <2>3
  <2> QED
    BY <2>2, <2>5, <2>6
<1>12. ASSUME NEW w \in Workers, ReplyArrives(w) PROVE LimitInv'
  BY <1>12 DEF ReplyArrives, Goto
<1>13. ASSUME NEW w \in Workers, ReplyLost(w) PROVE LimitInv'
  BY <1>13 DEF ReplyLost, Blocked, NextSetup
<1>14. ASSUME NEW w \in Workers, RecordSubmission(w) PROVE LimitInv'
  BY <1>14 DEF RecordSubmission, Resolve, NextSetup
<1>15. ASSUME NEW w \in Workers, NEW s \in Setups, TimeOut(w, s)
       PROVE  LimitInv'
  BY <1>15 DEF TimeOut, Resolve
<1>16. ASSUME NEW w \in Workers, NEW s \in Setups, GenerateSignal(w, s)
       PROVE  LimitInv'
  BY <1>16 DEF GenerateSignal
<1>17. ASSUME NEW w \in Workers, NEW s \in Setups, DuplicateSignal(w, s)
       PROVE  LimitInv'
  BY <1>17 DEF DuplicateSignal
<1>18. ASSUME NEW w \in Workers, NEW s \in Setups, RejectSignal(w, s)
       PROVE  LimitInv'
  BY <1>18 DEF RejectSignal, Resolve
<1>19. ASSUME NEW s \in Setups, Detect(s) PROVE LimitInv'
  BY <1>19 DEF Detect
<1>20. ASSUME NEW s \in Setups, GrowOverdue(s) PROVE LimitInv'
  BY <1>20 DEF GrowOverdue
<1>21. ASSUME NEW s \in Setups, ClosePosition(s) PROVE LimitInv'
  <2>1. open' = open \ {s} /\ open' \subseteq open
    BY <1>21 DEF ClosePosition
  <2>2. RiskStillHolds'
    BY <1>21, <2>1 DEF ClosePosition
  <2>3. IsFiniteSet(open)
    BY FS_Subset DEF AutomationAssumption
  <2>4. /\ Cardinality(open') <= Cardinality(open)
        /\ Cardinality(open') \in Nat /\ Cardinality(open) \in Nat
    BY <2>1, <2>3, FS_Subset, FS_CardinalityType
  <2>5. WithinOpenLimit'
    BY <2>1, <2>4 DEF AutomationAssumption
  <2> QED
    BY <2>2, <2>5
<1>22. ASSUME Disarm PROVE LimitInv'
  BY <1>22 DEF Disarm
<1>23. ASSUME Arm PROVE LimitInv'
  BY <1>23 DEF Arm
<1>24. ASSUME StopMonitoring PROVE LimitInv'
  BY <1>24 DEF StopMonitoring
<1>25. ASSUME StartMonitoring PROVE LimitInv'
  BY <1>25 DEF StartMonitoring
<1>26. ASSUME UNCHANGED vars PROVE LimitInv'
  BY <1>26 DEF vars
<1> QED
  BY <1>1, <1>2, <1>3, <1>4, <1>5, <1>6, <1>7, <1>8, <1>9, <1>10, <1>11,
     <1>12, <1>13, <1>14, <1>15, <1>16, <1>17, <1>18, <1>19, <1>20, <1>21,
     <1>22, <1>23, <1>24, <1>25, <1>26
     DEF Next, Work, Environment, EmptyRun

(* With one thread the positions read before the order still bound the     *)
(* positions that are open when it is accepted: max_open_trades and the    *)
(* one position per pair hold on the exchange, even when answers are lost. *)
THEOREM OneThreadWithinLimit ==
  ASSUME NEW worker, Workers = {worker}
  PROVE  Spec => []WithinOpenLimit
<1>1. Init => LimitInv
  BY FS_EmptySet, AutomationAssumption
     DEF Init, LimitInv, RiskStillHolds, WithinOpenLimit, AutomationAssumption
<1>2. TypeOK /\ LimitInv /\ [Next]_vars => LimitInv'
  BY NextLimit
<1>3. LimitInv => WithinOpenLimit
  BY DEF LimitInv
<1> QED
  BY TypeCorrect, <1>1, <1>2, <1>3, PTL DEF Spec
=============================================================================
