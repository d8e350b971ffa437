----------------------- MODULE MonitoringSession_proofs -----------------------
(* Theorems about MonitoringSession and their proofs.                      *)
EXTENDS MonitoringSession, TLAPS

USE DEF operatorVars, chainVars, Sessions, Current

-----------------------------------------------------------------------------
(* Type correctness. *)

LEMMA NextType == ASSUME TypeOK, [Next]_vars PROVE TypeOK'
<1> USE MonitoringAssumption DEF MonitoringAssumption, TypeOK
<1>1. ASSUME Start PROVE TypeOK'
  <2>1. session + 1 \in Sessions /\ session' = session + 1
    BY <1>1 DEF Start, Activate
  <2>2. chain[session + 1] = "unused" /\ busy[session + 1] = NoPair
    BY <2>1
  <2>3. \A n \in Sessions : n > session' <=> n > session /\ n # session + 1
    BY <2>1
  <2> QED
    BY <1>1, <2>1, <2>2, <2>3 DEF Start, Activate
<1>2. ASSUME StartRefused PROVE TypeOK'
  BY <1>2 DEF StartRefused, vars
<1>3. ASSUME Stop PROVE TypeOK'
  BY <1>3 DEF Stop
<1>4. ASSUME Persist PROVE TypeOK'
  BY <1>4 DEF Persist
<1>5. ASSUME Restart PROVE TypeOK'
  <2>1. CASE session' = session /\ active' = FALSE
    BY <1>5, <2>1 DEF Restart
  <2>2. CASE session' = session + 1 /\ session < MaxSessions
    <3>1. session + 1 \in Sessions
      BY <2>2
    <3>2. \A n \in Sessions : n > session' <=> n > session /\ n # session + 1
      BY <2>2
    <3>3. /\ active' \in BOOLEAN /\ saved' = saved /\ wanted' = wanted
          /\ request' = "none"
          /\ left' = [n \in Sessions |-> {}]
          /\ busy' = [n \in Sessions |-> NoPair]
      BY <1>5 DEF Restart
    <3>4. chain' = [[n \in Sessions |-> IF chain[n] = "unused" THEN "unused"
                                        ELSE "dead"]
                      EXCEPT ![session + 1] = "scheduled"]
      BY <1>5, <2>2 DEF Restart
    <3> QED
      BY <2>2, <3>1, <3>2, <3>3, <3>4
  <2> QED
    BY <1>5, <2>1, <2>2 DEF Restart
<1>6. ASSUME NEW n \in Sessions, Fire(n) PROVE TypeOK'
  BY <1>6 DEF Fire
<1>7. ASSUME NEW n \in Sessions, LeaveCycle(n) PROVE TypeOK'
  BY <1>7 DEF LeaveCycle
<1>8. ASSUME NEW n \in Sessions, PairPolled(n) PROVE TypeOK'
  BY <1>8 DEF PairPolled
<1>9. ASSUME NEW n \in Sessions, Crash(n) PROVE TypeOK'
  BY <1>9 DEF Crash
<1>10. ASSUME NEW n \in Sessions, Reschedule(n) PROVE TypeOK'
  BY <1>10 DEF Reschedule
<1>11. ASSUME NEW n \in Sessions, NEW p \in Pairs, TakePair(n, p)
       PROVE  TypeOK'
  BY <1>11 DEF TakePair
<1>12. ASSUME UNCHANGED vars PROVE TypeOK'
  BY <1>12 DEF vars
<1> QED
  BY <1>1, <1>2, <1>3, <1>4, <1>5, <1>6, <1>7, <1>8, <1>9, <1>10, <1>11, <1>12
     DEF Next, Operate, Poll

(* Any number of pairs and sessions: a chain polls one pair at a time,     *)
(* within a cycle.                                                         *)
THEOREM TypeCorrect == Spec => []TypeOK
<1>1. Init => TypeOK
  <2> SUFFICES ASSUME Init PROVE TypeOK
    OBVIOUS
  <2>1. \A n \in Sessions : n > session
    BY MonitoringAssumption DEF Init, MonitoringAssumption
  <2>2. /\ chain = [n \in Sessions |-> "unused"]
        /\ left \in [Sessions -> SUBSET Pairs]
        /\ busy \in [Sessions -> Pairs \cup {NoPair}]
    BY DEF Init
  <2>3. \A n \in Sessions : busy[n] = NoPair /\ left[n] = {}
    BY DEF Init
  <2>4. active \in BOOLEAN /\ saved \in BOOLEAN
    BY DEF Init
  <2>5. session \in 0..MaxSessions
    BY MonitoringAssumption DEF Init, MonitoringAssumption
  <2>6. \A n \in Sessions : /\ busy[n] # NoPair => chain[n] = "polling"
                            /\ busy[n] \notin left[n]
                            /\ chain[n] = "unused" <=> n > session
    BY <2>1, <2>2, <2>3
  <2>7. request = "none" /\ wanted = "stop"
    BY DEF Init
  <2>8. chain \in [Sessions ->
                    {"unused", "scheduled", "polling", "ending", "dead"}]
    BY <2>2
  <2> QED
    BY <2>2, <2>4, <2>5, <2>6, <2>7, <2>8 DEF TypeOK
<1>2. TypeOK /\ [Next]_vars => TypeOK'
  BY NextType
<1> QED
  BY <1>1, <1>2, PTL DEF Spec

-----------------------------------------------------------------------------
(* The chain of the active session. *)

PolledInv == active => session \in Sessions /\ Alive(session)

LEMMA NextPolled == ASSUME TypeOK, PolledInv, [Next]_vars PROVE PolledInv'
<1> USE MonitoringAssumption DEF MonitoringAssumption, TypeOK, PolledInv,
   Alive
<1>1. ASSUME Start PROVE PolledInv'
  BY <1>1 DEF Start, Activate
<1>2. ASSUME StartRefused PROVE PolledInv'
  BY <1>2 DEF StartRefused, vars
<1>3. ASSUME Stop PROVE PolledInv'
  BY <1>3 DEF Stop
<1>4. ASSUME Persist PROVE PolledInv'
  BY <1>4 DEF Persist
<1>5. ASSUME Restart PROVE PolledInv'
  BY <1>5 DEF Restart
<1>6. ASSUME NEW n \in Sessions, Fire(n) PROVE PolledInv'
  BY <1>6 DEF Fire
<1>7. ASSUME NEW n \in Sessions, LeaveCycle(n) PROVE PolledInv'
  BY <1>7 DEF LeaveCycle
<1>8. ASSUME NEW n \in Sessions, PairPolled(n) PROVE PolledInv'
  BY <1>8 DEF PairPolled
<1>9. ASSUME NEW n \in Sessions, Crash(n) PROVE PolledInv'
  BY <1>9 DEF Crash
<1>10. ASSUME NEW n \in Sessions, Reschedule(n) PROVE PolledInv'
  BY <1>10 DEF Reschedule
<1>11. ASSUME NEW n \in Sessions, NEW p \in Pairs, TakePair(n, p)
       PROVE  PolledInv'
  BY <1>11 DEF TakePair
<1>12. ASSUME UNCHANGED vars PROVE PolledInv'
  BY <1>12 DEF vars
<1> QED
  BY <1>1, <1>2, <1>3, <1>4, <1>5, <1>6, <1>7, <1>8, <1>9, <1>10, <1>11, <1>12
     DEF Next, Operate, Poll

(* For any number of pairs and sessions, while monitoring shows as active  *)
(* some thread is scheduled, polling or about to reschedule for it.        *)
THEOREM ActiveSessionIsPolled == Spec => []ActiveIsPolled
<1>1. Init => PolledInv
  BY DEF Init, PolledInv
<1>2. TypeOK /\ PolledInv /\ [Next]_vars => PolledInv'
  BY NextPolled
<1>3. PolledInv => ActiveIsPolled
  BY DEF PolledInv, ActiveIsPolled
<1> QED
  BY TypeCorrect, <1>1, <1>2, <1>3, PTL DEF Spec

-----------------------------------------------------------------------------
(* The saved preference. *)

SavedInv ==
  /\ saved <=> wanted = "start"
  /\ active => saved \/ request = "start"
  /\ request = "stop" => ~active

LEMMA NextSaved == ASSUME TypeOK, SavedInv, [Next]_vars PROVE SavedInv'
<1> USE MonitoringAssumption DEF MonitoringAssumption, TypeOK, SavedInv
<1>1. ASSUME Start PROVE SavedInv'
  BY <1>1 DEF Start, Activate
<1>2. ASSUME StartRefused PROVE SavedInv'
  BY <1>2 DEF StartRefused, vars
<1>3. ASSUME Stop PROVE SavedInv'
  BY <1>3 DEF Stop
<1>4. ASSUME Persist PROVE SavedInv'
  BY <1>4 DEF Persist
<1>5. ASSUME Restart PROVE SavedInv'
  BY <1>5 DEF Restart
<1>6. ASSUME NEW n \in Sessions, Fire(n) PROVE SavedInv'
  BY <1>6 DEF Fire
<1>7. ASSUME NEW n \in Sessions, LeaveCycle(n) PROVE SavedInv'
  BY <1>7 DEF LeaveCycle
<1>8. ASSUME NEW n \in Sessions, PairPolled(n) PROVE SavedInv'
  BY <1>8 DEF PairPolled
<1>9. ASSUME NEW n \in Sessions, Crash(n) PROVE SavedInv'
  BY <1>9 DEF Crash
<1>10. ASSUME NEW n \in Sessions, Reschedule(n) PROVE SavedInv'
  BY <1>10 DEF Reschedule
<1>11. ASSUME NEW n \in Sessions, NEW p \in Pairs, TakePair(n, p)
       PROVE  SavedInv'
  BY <1>11 DEF TakePair
<1>12. ASSUME UNCHANGED vars PROVE SavedInv'
  BY <1>12 DEF vars
<1> QED
  BY <1>1, <1>2, <1>3, <1>4, <1>5, <1>6, <1>7, <1>8, <1>9, <1>10, <1>11, <1>12
     DEF Next, Operate, Poll

(* Whenever a restart cuts in, the preference it finds is the operator's   *)
(* last answered request.                                                  *)
THEOREM PreferenceIsSaved == Spec => []SavedAsRequested
<1>1. Init => SavedInv
  BY DEF Init, SavedInv
<1>2. TypeOK /\ SavedInv /\ [Next]_vars => SavedInv'
  BY NextSaved
<1>3. SavedInv => SavedAsRequested
  BY DEF SavedInv, SavedAsRequested
<1> QED
  BY TypeCorrect, <1>1, <1>2, <1>3, PTL DEF Spec
=============================================================================
