------------------------ MODULE LiveControl_proofs ------------------------
(* Theorems about LiveControl and their proofs.                            *)
EXTENDS LiveControl, OrderSizing_proofs, FiniteSetTheorems

USE DEF storeVars, diskVars, envVars, callVars, threadVars, cycleVars

-----------------------------------------------------------------------------
(* Type correctness, part by part. *)

StoreType ==
  /\ status \in [Accounts -> Statuses]
  /\ cipher \in [Accounts -> Ciphers \cup {NoCipher}]
  /\ diskCipher \in [Accounts -> Ciphers \cup {NoCipher}]
  /\ active \in Accounts \cup {None} /\ choice \in Accounts \cup {None}
  /\ diskActive \in Accounts \cup {None}
  /\ secret \in 0..MaxSecrets

FlagType == enabled \in BOOLEAN /\ armed \in BOOLEAN /\ connection \in BOOLEAN

CallType ==
  /\ balance \in Accounts \cup {None}
  /\ runtime \in Credentials \cup {NoCredentials}
  /\ test.of \in Credentials \cup {NoCredentials}
  /\ switch.of \in Credentials \cup {NoCredentials}
  /\ requests \in 0..MaxRequests

OrderType ==
  /\ phase \in [Threads -> Phases]
  /\ DOMAIN order = Threads
  /\ \A t \in Threads : order[t] = NoOrder <=> phase[t] \in {Idle, Polling}

LEMMA EnteredCredentials ==
  /\ \A c \in Entered : c \in Credentials /\ c.account \in Accounts
  /\ \A c \in Credentials : c.account \in Accounts
  BY DEF Entered, Credentials

LEMMA EncryptedType ==
  ASSUME NEW c \in Credentials, StoreType, secret > 0 PROVE Encrypted(c) \in Ciphers
  BY ControlAssumption DEF Encrypted, Ciphers, StoreType, ControlAssumption

LEMMA StatusTypes ==
  /\ Unverified \in Statuses /\ Connected \in Statuses
  /\ Failed \in Statuses /\ Unreadable \in Statuses
  BY DEF Statuses

LEMMA NextStoreType ==
  ASSUME StoreType, [Next]_vars
  PROVE  StoreType'
<1> USE EnteredCredentials, EncryptedType, StatusTypes, ControlAssumption
     DEF StoreType, ControlAssumption
<1>1. ASSUME NewSecret PROVE StoreType'
  BY <1>1 DEF NewSecret, OtherRequest
<1>2. ASSUME NEW c \in Entered, TestAndSave(c) PROVE StoreType'
  BY <1>2 DEF TestAndSave, Persist, Overtake, AccountRequest
<1>3. ASSUME NEW a \in Accounts, NEW c \in Entered, Reconnect(a, c)
     PROVE StoreType'
  BY <1>3 DEF Reconnect, Persist, Overtake, AccountRequest, Saved
<1>4. ASSUME NEW a \in Accounts, SelectActive(a) PROVE StoreType'
  BY <1>4 DEF SelectActive, Persist, AccountRequest, Saved
<1>5. ASSUME NEW a \in Accounts, ChooseInSettings(a) PROVE StoreType'
  BY <1>5 DEF ChooseInSettings, Persist, AccountRequest, Saved
<1>6. ASSUME ClearChoice PROVE StoreType'
  BY <1>6 DEF ClearChoice, AccountRequest
<1>7. ASSUME NEW a \in Accounts, SetDefault(a) PROVE StoreType'
  BY <1>7 DEF SetDefault, AccountRequest, Saved
<1>8. ASSUME NEW a \in Accounts, Delete(a) PROVE StoreType'
  BY <1>8 DEF Delete, Persist, AccountRequest, Saved
<1>9. ASSUME NEW c \in Entered, RuntimeCredentials(c) PROVE StoreType'
  BY <1>9 DEF RuntimeCredentials, AccountRequest
<1>10. ASSUME NEW a \in Accounts, TestAccount(a) PROVE StoreType'
  BY <1>10 DEF TestAccount, Persist, AccountRequest, Saved
<1>11. ASSUME TestRuntime PROVE StoreType'
  BY <1>11 DEF TestRuntime, OtherRequest
<1>12. ASSUME TestSelected PROVE StoreType'
  BY <1>12 DEF TestSelected, AccountRequest
<1>13. ASSUME TestPasses PROVE StoreType'
  BY <1>13 DEF TestPasses, Persist, Saved
<1>14. ASSUME TestFails PROVE StoreType'
  BY <1>14 DEF TestFails, Persist, Saved
<1>15. ASSUME SwitchLive PROVE StoreType'
  BY <1>15 DEF SwitchLive, ActivateSelected, AccountRequest, Saved
<1>16. ASSUME SwitchPasses PROVE StoreType'
  BY <1>16 DEF SwitchPasses
<1>17. ASSUME SwitchRefused PROVE StoreType'
  BY <1>17 DEF SwitchRefused
<1>18. ASSUME SwitchOff PROVE StoreType'
  BY <1>18 DEF SwitchOff, ActivateSelected, AccountRequest, Saved
<1>19. ASSUME ToggleOff PROVE StoreType'
  BY <1>19 DEF ToggleOff, OtherRequest
<1>20. ASSUME ToggleOn PROVE StoreType'
  BY <1>20 DEF ToggleOn, AccountRequest
<1>21. ASSUME NEW on \in BOOLEAN, EnableInSettings(on) PROVE StoreType'
  BY <1>21 DEF EnableInSettings, OtherRequest
<1>22. ASSUME Snapshot PROVE StoreType'
  BY <1>22 DEF Snapshot, ActivateSelected, Saved
<1>23. ASSUME CycleBegin PROVE StoreType'
  BY <1>23 DEF CycleBegin, ActivateSelected, Saved
<1>24. ASSUME NEW x \in Tickets, PlanOrder(x) PROVE StoreType'
  BY <1>24 DEF PlanOrder, SignsInCycle
<1>25. ASSUME StartOrder PROVE StoreType'
  BY <1>25 DEF StartOrder, Start, SignsInCycle
<1>26. ASSUME NEW x \in Tickets, StartManualOrder(x) PROVE StoreType'
  BY <1>26 DEF StartManualOrder, Start, OtherRequest
<1>27. ASSUME NEW t \in Threads, OrderRefused(t) PROVE StoreType'
  BY <1>27 DEF OrderRefused, EndOrder, Back
<1>28. ASSUME NEW t \in Threads, PlaceOrder(t) PROVE StoreType'
  BY <1>28 DEF PlaceOrder, SignsInCycle
<1>29. ASSUME NEW t \in Threads, AddMargin(t) PROVE StoreType'
  BY <1>29 DEF AddMargin, SignsInCycle
<1>30. ASSUME NEW t \in Threads, OrderDone(t) PROVE StoreType'
  BY <1>30 DEF OrderDone, EndOrder, Back
<1>31. ASSUME CycleEnd PROVE StoreType'
  BY <1>31 DEF CycleEnd
<1>32. ASSUME Restart PROVE StoreType'
  BY <1>32 DEF Restart, Forget, Boot
<1>33. ASSUME UNCHANGED vars PROVE StoreType'
  BY <1>33 DEF vars
<1> QED
  BY <1>1, <1>2, <1>3, <1>4, <1>5, <1>6, <1>7, <1>8, <1>9, <1>10, <1>11,
     <1>12, <1>13, <1>14, <1>15, <1>16, <1>17, <1>18, <1>19, <1>20, <1>21,
     <1>22, <1>23, <1>24, <1>25, <1>26, <1>27, <1>28, <1>29, <1>30, <1>31,
     <1>32, <1>33
     DEF Next, SavingRequest, LiveRequest, TestRequest, Ordering

LEMMA NextFlagType ==
  ASSUME FlagType, [Next]_vars
  PROVE  FlagType'
<1> USE DEF FlagType
<1>1. ASSUME NewSecret PROVE FlagType'
  BY <1>1 DEF NewSecret, OtherRequest
<1>2. ASSUME NEW c \in Entered, TestAndSave(c) PROVE FlagType'
  BY <1>2 DEF TestAndSave, Persist, Overtake, AccountRequest
<1>3. ASSUME NEW a \in Accounts, NEW c \in Entered, Reconnect(a, c)
     PROVE FlagType'
  BY <1>3 DEF Reconnect, Persist, Overtake, AccountRequest
<1>4. ASSUME NEW a \in Accounts, SelectActive(a) PROVE FlagType'
  BY <1>4 DEF SelectActive, Persist, AccountRequest
<1>5. ASSUME NEW a \in Accounts, ChooseInSettings(a) PROVE FlagType'
  BY <1>5 DEF ChooseInSettings, Persist, AccountRequest
<1>6. ASSUME ClearChoice PROVE FlagType'
  BY <1>6 DEF ClearChoice, AccountRequest
<1>7. ASSUME NEW a \in Accounts, SetDefault(a) PROVE FlagType'
  BY <1>7 DEF SetDefault, AccountRequest
<1>8. ASSUME NEW a \in Accounts, Delete(a) PROVE FlagType'
  BY <1>8 DEF Delete, Persist, AccountRequest
<1>9. ASSUME NEW c \in Entered, RuntimeCredentials(c) PROVE FlagType'
  BY <1>9 DEF RuntimeCredentials, AccountRequest
<1>10. ASSUME NEW a \in Accounts, TestAccount(a) PROVE FlagType'
  BY <1>10 DEF TestAccount, Persist, AccountRequest
<1>11. ASSUME TestRuntime PROVE FlagType'
  BY <1>11 DEF TestRuntime, OtherRequest
<1>12. ASSUME TestSelected PROVE FlagType'
  BY <1>12 DEF TestSelected, AccountRequest
<1>13. ASSUME TestPasses PROVE FlagType'
  BY <1>13 DEF TestPasses, Persist
<1>14. ASSUME TestFails PROVE FlagType'
  BY <1>14 DEF TestFails, Persist
<1>15. ASSUME SwitchLive PROVE FlagType'
  BY <1>15 DEF SwitchLive, ActivateSelected, AccountRequest
<1>16. ASSUME SwitchPasses PROVE FlagType'
  BY <1>16 DEF SwitchPasses
<1>17. ASSUME SwitchRefused PROVE FlagType'
  BY <1>17 DEF SwitchRefused
<1>18. ASSUME SwitchOff PROVE FlagType'
  BY <1>18 DEF SwitchOff, ActivateSelected, AccountRequest
<1>19. ASSUME ToggleOff PROVE FlagType'
  BY <1>19 DEF ToggleOff, OtherRequest
<1>20. ASSUME ToggleOn PROVE FlagType'
  BY <1>20 DEF ToggleOn, AccountRequest
<1>21. ASSUME NEW on \in BOOLEAN, EnableInSettings(on) PROVE FlagType'
  BY <1>21 DEF EnableInSettings, OtherRequest
<1>22. ASSUME Snapshot PROVE FlagType'
  BY <1>22 DEF Snapshot, ActivateSelected
<1>23. ASSUME CycleBegin PROVE FlagType'
  BY <1>23 DEF CycleBegin, ActivateSelected
<1>24. ASSUME NEW x \in Tickets, PlanOrder(x) PROVE FlagType'
  BY <1>24 DEF PlanOrder, SignsInCycle
<1>25. ASSUME StartOrder PROVE FlagType'
  BY <1>25 DEF StartOrder, Start, SignsInCycle
<1>26. ASSUME NEW x \in Tickets, StartManualOrder(x) PROVE FlagType'
  BY <1>26 DEF StartManualOrder, Start, OtherRequest
<1>27. ASSUME NEW t \in Threads, OrderRefused(t) PROVE FlagType'
  BY <1>27 DEF OrderRefused, EndOrder, Back
<1>28. ASSUME NEW t \in Threads, PlaceOrder(t) PROVE FlagType'
  BY <1>28 DEF PlaceOrder, SignsInCycle
<1>29. ASSUME NEW t \in Threads, AddMargin(t) PROVE FlagType'
  BY <1>29 DEF AddMargin, SignsInCycle
<1>30. ASSUME NEW t \in Threads, OrderDone(t) PROVE FlagType'
  BY <1>30 DEF OrderDone, EndOrder, Back
<1>31. ASSUME CycleEnd PROVE FlagType'
  BY <1>31 DEF CycleEnd
<1>32. ASSUME Restart PROVE FlagType'
  BY <1>32 DEF Restart, Forget, Boot
<1>33. ASSUME UNCHANGED vars PROVE FlagType'
  BY <1>33 DEF vars
<1> QED
  BY <1>1, <1>2, <1>3, <1>4, <1>5, <1>6, <1>7, <1>8, <1>9, <1>10, <1>11,
     <1>12, <1>13, <1>14, <1>15, <1>16, <1>17, <1>18, <1>19, <1>20, <1>21,
     <1>22, <1>23, <1>24, <1>25, <1>26, <1>27, <1>28, <1>29, <1>30, <1>31,
     <1>32, <1>33
     DEF Next, SavingRequest, LiveRequest, TestRequest, Ordering

(* What an activation and a signed request find. *)
LEMMA CredentialTypes ==
  ASSUME StoreType
  PROVE  /\ \A a : Readable(a) => a \in Accounts /\ cipher[a].of \in Credentials
         /\ \A c \in Credentials \cup {NoCredentials} :
              /\ SignerOf(c) \in Credentials \cup {NoCredentials}
              /\ c.right => c.account \in Accounts
         /\ NoTest.of = NoCredentials /\ NoSwitch.of = NoCredentials
<1>1. \A a : Readable(a) => a \in Accounts /\ cipher[a].of \in Credentials
  BY DEF Readable, Saved, StoreType, Ciphers
<1>2. FromEnv \in Credentials \cup {NoCredentials}
  BY ControlAssumption DEF FromEnv, Credentials, ControlAssumption
<1>3. ~NoCredentials.right
  BY DEF NoCredentials
<1> QED
  BY <1>1, <1>2, <1>3, EnteredCredentials DEF SignerOf, NoTest, NoSwitch

LEMMA NextCallType ==
  ASSUME StoreType, CallType, [Next]_vars
  PROVE  CallType'
<1> USE EnteredCredentials, CredentialTypes, ControlAssumption DEF CallType,
     Signer, ControlAssumption
<1>1. ASSUME NewSecret PROVE CallType'
  BY <1>1 DEF NewSecret, OtherRequest
<1>2. ASSUME NEW c \in Entered, TestAndSave(c) PROVE CallType'
  BY <1>2 DEF TestAndSave, Persist, Overtake, AccountRequest
<1>3. ASSUME NEW a \in Accounts, NEW c \in Entered, Reconnect(a, c)
     PROVE CallType'
  BY <1>3 DEF Reconnect, Persist, Overtake, AccountRequest
<1>4. ASSUME NEW a \in Accounts, SelectActive(a) PROVE CallType'
  BY <1>4 DEF SelectActive, Persist, AccountRequest
<1>5. ASSUME NEW a \in Accounts, ChooseInSettings(a) PROVE CallType'
  BY <1>5 DEF ChooseInSettings, Persist, AccountRequest
<1>6. ASSUME ClearChoice PROVE CallType'
  BY <1>6 DEF ClearChoice, AccountRequest
<1>7. ASSUME NEW a \in Accounts, SetDefault(a) PROVE CallType'
  BY <1>7 DEF SetDefault, AccountRequest
<1>8. ASSUME NEW a \in Accounts, Delete(a) PROVE CallType'
  BY <1>8 DEF Delete, Persist, AccountRequest
<1>9. ASSUME NEW c \in Entered, RuntimeCredentials(c) PROVE CallType'
  BY <1>9 DEF RuntimeCredentials, AccountRequest
<1>10. ASSUME NEW a \in Accounts, TestAccount(a) PROVE CallType'
  BY <1>10 DEF TestAccount, Persist, AccountRequest
<1>11. ASSUME TestRuntime PROVE CallType'
  BY <1>11 DEF TestRuntime, OtherRequest
<1>12. ASSUME TestSelected PROVE CallType'
  BY <1>12 DEF TestSelected, AccountRequest
<1>13. ASSUME TestPasses PROVE CallType'
  BY <1>13 DEF TestPasses, Persist
<1>14. ASSUME TestFails PROVE CallType'
  BY <1>14 DEF TestFails, Persist
<1>15. ASSUME SwitchLive PROVE CallType'
  BY <1>15 DEF SwitchLive, ActivateSelected, AccountRequest
<1>16. ASSUME SwitchPasses PROVE CallType'
  BY <1>16 DEF SwitchPasses
<1>17. ASSUME SwitchRefused PROVE CallType'
  BY <1>17 DEF SwitchRefused
<1>18. ASSUME SwitchOff PROVE CallType'
  BY <1>18 DEF SwitchOff, ActivateSelected, AccountRequest
<1>19. ASSUME ToggleOff PROVE CallType'
  BY <1>19 DEF ToggleOff, OtherRequest
<1>20. ASSUME ToggleOn PROVE CallType'
  BY <1>20 DEF ToggleOn, AccountRequest
<1>21. ASSUME NEW on \in BOOLEAN, EnableInSettings(on) PROVE CallType'
  BY <1>21 DEF EnableInSettings, OtherRequest
<1>22. ASSUME Snapshot PROVE CallType'
  BY <1>22 DEF Snapshot, ActivateSelected
<1>23. ASSUME CycleBegin PROVE CallType'
  BY <1>23 DEF CycleBegin, ActivateSelected
<1>24. ASSUME NEW x \in Tickets, PlanOrder(x) PROVE CallType'
  BY <1>24 DEF PlanOrder, SignsInCycle
<1>25. ASSUME StartOrder PROVE CallType'
  BY <1>25 DEF StartOrder, Start, SignsInCycle
<1>26. ASSUME NEW x \in Tickets, StartManualOrder(x) PROVE CallType'
  BY <1>26 DEF StartManualOrder, Start, OtherRequest
<1>27. ASSUME NEW t \in Threads, OrderRefused(t) PROVE CallType'
  BY <1>27 DEF OrderRefused, EndOrder, Back
<1>28. ASSUME NEW t \in Threads, PlaceOrder(t) PROVE CallType'
  BY <1>28 DEF PlaceOrder, SignsInCycle
<1>29. ASSUME NEW t \in Threads, AddMargin(t) PROVE CallType'
  BY <1>29 DEF AddMargin, SignsInCycle
<1>30. ASSUME NEW t \in Threads, OrderDone(t) PROVE CallType'
  BY <1>30 DEF OrderDone, EndOrder, Back
<1>31. ASSUME CycleEnd PROVE CallType'
  BY <1>31 DEF CycleEnd
<1>32. ASSUME Restart PROVE CallType'
  BY <1>32 DEF Restart, Forget, Boot, Bootstraps
<1>33. ASSUME UNCHANGED vars PROVE CallType'
  BY <1>33 DEF vars
<1> QED
  BY <1>1, <1>2, <1>3, <1>4, <1>5, <1>6, <1>7, <1>8, <1>9, <1>10, <1>11,
     <1>12, <1>13, <1>14, <1>15, <1>16, <1>17, <1>18, <1>19, <1>20, <1>21,
     <1>22, <1>23, <1>24, <1>25, <1>26, <1>27, <1>28, <1>29, <1>30, <1>31,
     <1>32, <1>33
     DEF Next, SavingRequest, LiveRequest, TestRequest, Ordering

(* A plan has a leverage of at least 1, so it is not the absence of one.   *)
LEMMA PlanIsThere ==
  \A x, a : [plan |-> OrderPlan(x), from |-> a] # NoOrder
  BY DEF OrderPlan, EffectiveLeverage, Larger, NoOrder, NoPlan

LEMMA NextOrderType ==
  ASSUME OrderType, [Next]_vars
  PROVE  OrderType'
<1> USE PlanIsThere DEF OrderType, Threads, Phases, Idle, Polling, Planning,
     Sending, TopUp, Ordered
<1>1. ASSUME NewSecret PROVE OrderType'
  BY <1>1 DEF NewSecret, OtherRequest
<1>2. ASSUME NEW c \in Entered, TestAndSave(c) PROVE OrderType'
  BY <1>2 DEF TestAndSave, Persist, Overtake, AccountRequest
<1>3. ASSUME NEW a \in Accounts, NEW c \in Entered, Reconnect(a, c)
     PROVE OrderType'
  BY <1>3 DEF Reconnect, Persist, Overtake, AccountRequest
<1>4. ASSUME NEW a \in Accounts, SelectActive(a) PROVE OrderType'
  BY <1>4 DEF SelectActive, Persist, AccountRequest
<1>5. ASSUME NEW a \in Accounts, ChooseInSettings(a) PROVE OrderType'
  BY <1>5 DEF ChooseInSettings, Persist, AccountRequest
<1>6. ASSUME ClearChoice PROVE OrderType'
  BY <1>6 DEF ClearChoice, AccountRequest
<1>7. ASSUME NEW a \in Accounts, SetDefault(a) PROVE OrderType'
  BY <1>7 DEF SetDefault, AccountRequest
<1>8. ASSUME NEW a \in Accounts, Delete(a) PROVE OrderType'
  BY <1>8 DEF Delete, Persist, AccountRequest
<1>9. ASSUME NEW c \in Entered, RuntimeCredentials(c) PROVE OrderType'
  BY <1>9 DEF RuntimeCredentials, AccountRequest
<1>10. ASSUME NEW a \in Accounts, TestAccount(a) PROVE OrderType'
  BY <1>10 DEF TestAccount, Persist, AccountRequest
<1>11. ASSUME TestRuntime PROVE OrderType'
  BY <1>11 DEF TestRuntime, OtherRequest
<1>12. ASSUME TestSelected PROVE OrderType'
  BY <1>12 DEF TestSelected, AccountRequest
<1>13. ASSUME TestPasses PROVE OrderType'
  BY <1>13 DEF TestPasses, Persist
<1>14. ASSUME TestFails PROVE OrderType'
  BY <1>14 DEF TestFails, Persist
<1>15. ASSUME SwitchLive PROVE OrderType'
  BY <1>15 DEF SwitchLive, ActivateSelected, AccountRequest
<1>16. ASSUME SwitchPasses PROVE OrderType'
  BY <1>16 DEF SwitchPasses
<1>17. ASSUME SwitchRefused PROVE OrderType'
  BY <1>17 DEF SwitchRefused
<1>18. ASSUME SwitchOff PROVE OrderType'
  BY <1>18 DEF SwitchOff, ActivateSelected, AccountRequest
<1>19. ASSUME ToggleOff PROVE OrderType'
  BY <1>19 DEF ToggleOff, OtherRequest
<1>20. ASSUME ToggleOn PROVE OrderType'
  BY <1>20 DEF ToggleOn, AccountRequest
<1>21. ASSUME NEW on \in BOOLEAN, EnableInSettings(on) PROVE OrderType'
  BY <1>21 DEF EnableInSettings, OtherRequest
<1>22. ASSUME Snapshot PROVE OrderType'
  BY <1>22 DEF Snapshot, ActivateSelected
<1>23. ASSUME CycleBegin PROVE OrderType'
  BY <1>23 DEF CycleBegin, ActivateSelected
<1>24. ASSUME NEW x \in Tickets, PlanOrder(x) PROVE OrderType'
  BY <1>24 DEF PlanOrder, SignsInCycle
<1>25. ASSUME StartOrder PROVE OrderType'
  BY <1>25 DEF StartOrder, Start, SignsInCycle
<1>26. ASSUME NEW x \in Tickets, StartManualOrder(x) PROVE OrderType'
  BY <1>26 DEF StartManualOrder, Start, OtherRequest
<1>27. ASSUME NEW t \in Threads, OrderRefused(t) PROVE OrderType'
  BY <1>27 DEF OrderRefused, EndOrder, Back
<1>28. ASSUME NEW t \in Threads, PlaceOrder(t) PROVE OrderType'
  BY <1>28 DEF PlaceOrder, SignsInCycle
<1>29. ASSUME NEW t \in Threads, AddMargin(t) PROVE OrderType'
  BY <1>29 DEF AddMargin, SignsInCycle
<1>30. ASSUME NEW t \in Threads, OrderDone(t) PROVE OrderType'
  BY <1>30 DEF OrderDone, EndOrder, Back
<1>31. ASSUME CycleEnd PROVE OrderType'
  BY <1>31 DEF CycleEnd
<1>32. ASSUME Restart PROVE OrderType'
  BY <1>32 DEF Restart, Forget, Boot
<1>33. ASSUME UNCHANGED vars PROVE OrderType'
  BY <1>33 DEF vars
<1> QED
  BY <1>1, <1>2, <1>3, <1>4, <1>5, <1>6, <1>7, <1>8, <1>9, <1>10, <1>11,
     <1>12, <1>13, <1>14, <1>15, <1>16, <1>17, <1>18, <1>19, <1>20, <1>21,
     <1>22, <1>23, <1>24, <1>25, <1>26, <1>27, <1>28, <1>29, <1>30, <1>31,
     <1>32, <1>33
     DEF Next, SavingRequest, LiveRequest, TestRequest, Ordering

-----------------------------------------------------------------------------
(* Memory and vault.  The last part is what SetDefault needs: the settings *)
(* choose an account only when one is saved as active.                     *)

VaultInv ==
  /\ diskCipher = cipher
  /\ active \in Saved \cup {None} /\ diskActive \in Saved \cup {None}
  /\ active = None => choice = None
  /\ diskActive = None => choice = None

LEMMA EncryptedIsThere ==
  ASSUME NEW c, secret > 0, StoreType PROVE Encrypted(c) # NoCipher
  BY ControlAssumption DEF Encrypted, NoCipher, StoreType, ControlAssumption

LEMMA NextVault ==
  ASSUME StoreType, VaultInv, [Next]_vars
  PROVE  VaultInv'
<1> USE EnteredCredentials, EncryptedIsThere, ControlAssumption DEF VaultInv,
     StoreType, Saved, ControlAssumption
<1>1. ASSUME NewSecret PROVE VaultInv'
  BY <1>1 DEF NewSecret, OtherRequest
<1>2. ASSUME NEW c \in Entered, TestAndSave(c) PROVE VaultInv'
  BY <1>2 DEF TestAndSave, Persist, Overtake, AccountRequest
<1>3. ASSUME NEW a \in Accounts, NEW c \in Entered, Reconnect(a, c)
     PROVE VaultInv'
  BY <1>3 DEF Reconnect, Persist, Overtake, AccountRequest
<1>4. ASSUME NEW a \in Accounts, SelectActive(a) PROVE VaultInv'
  BY <1>4 DEF SelectActive, Persist, AccountRequest
<1>5. ASSUME NEW a \in Accounts, ChooseInSettings(a) PROVE VaultInv'
  BY <1>5 DEF ChooseInSettings, Persist, AccountRequest
<1>6. ASSUME ClearChoice PROVE VaultInv'
  BY <1>6 DEF ClearChoice, AccountRequest
<1>7. ASSUME NEW a \in Accounts, SetDefault(a) PROVE VaultInv'
  BY <1>7 DEF SetDefault, AccountRequest
<1>8. ASSUME NEW a \in Accounts, Delete(a) PROVE VaultInv'
  BY <1>8 DEF Delete, Persist, AccountRequest
<1>9. ASSUME NEW c \in Entered, RuntimeCredentials(c) PROVE VaultInv'
  BY <1>9 DEF RuntimeCredentials, AccountRequest
<1>10. ASSUME NEW a \in Accounts, TestAccount(a) PROVE VaultInv'
  BY <1>10 DEF TestAccount, Persist, AccountRequest
<1>11. ASSUME TestRuntime PROVE VaultInv'
  BY <1>11 DEF TestRuntime, OtherRequest
<1>12. ASSUME TestSelected PROVE VaultInv'
  BY <1>12 DEF TestSelected, AccountRequest
<1>13. ASSUME TestPasses PROVE VaultInv'
  BY <1>13 DEF TestPasses, Persist
<1>14. ASSUME TestFails PROVE VaultInv'
  BY <1>14 DEF TestFails, Persist
<1>15. ASSUME SwitchLive PROVE VaultInv'
  BY <1>15 DEF SwitchLive, ActivateSelected, AccountRequest
<1>16. ASSUME SwitchPasses PROVE VaultInv'
  BY <1>16 DEF SwitchPasses
<1>17. ASSUME SwitchRefused PROVE VaultInv'
  BY <1>17 DEF SwitchRefused
<1>18. ASSUME SwitchOff PROVE VaultInv'
  BY <1>18 DEF SwitchOff, ActivateSelected, AccountRequest
<1>19. ASSUME ToggleOff PROVE VaultInv'
  BY <1>19 DEF ToggleOff, OtherRequest
<1>20. ASSUME ToggleOn PROVE VaultInv'
  BY <1>20 DEF ToggleOn, AccountRequest
<1>21. ASSUME NEW on \in BOOLEAN, EnableInSettings(on) PROVE VaultInv'
  BY <1>21 DEF EnableInSettings, OtherRequest
<1>22. ASSUME Snapshot PROVE VaultInv'
  BY <1>22 DEF Snapshot, ActivateSelected
<1>23. ASSUME CycleBegin PROVE VaultInv'
  BY <1>23 DEF CycleBegin, ActivateSelected
<1>24. ASSUME NEW x \in Tickets, PlanOrder(x) PROVE VaultInv'
  BY <1>24 DEF PlanOrder, SignsInCycle
<1>25. ASSUME StartOrder PROVE VaultInv'
  BY <1>25 DEF StartOrder, Start, SignsInCycle
<1>26. ASSUME NEW x \in Tickets, StartManualOrder(x) PROVE VaultInv'
  BY <1>26 DEF StartManualOrder, Start, OtherRequest
<1>27. ASSUME NEW t \in Threads, OrderRefused(t) PROVE VaultInv'
  BY <1>27 DEF OrderRefused, EndOrder, Back
<1>28. ASSUME NEW t \in Threads, PlaceOrder(t) PROVE VaultInv'
  BY <1>28 DEF PlaceOrder, SignsInCycle
<1>29. ASSUME NEW t \in Threads, AddMargin(t) PROVE VaultInv'
  BY <1>29 DEF AddMargin, SignsInCycle
<1>30. ASSUME NEW t \in Threads, OrderDone(t) PROVE VaultInv'
  BY <1>30 DEF OrderDone, EndOrder, Back
<1>31. ASSUME CycleEnd PROVE VaultInv'
  BY <1>31 DEF CycleEnd
<1>32. ASSUME Restart PROVE VaultInv'
  BY <1>32 DEF Restart, Forget, Boot
<1>33. ASSUME UNCHANGED vars PROVE VaultInv'
  BY <1>33 DEF vars
<1> QED
  BY <1>1, <1>2, <1>3, <1>4, <1>5, <1>6, <1>7, <1>8, <1>9, <1>10, <1>11,
     <1>12, <1>13, <1>14, <1>15, <1>16, <1>17, <1>18, <1>19, <1>20, <1>21,
     <1>22, <1>23, <1>24, <1>25, <1>26, <1>27, <1>28, <1>29, <1>30, <1>31,
     <1>32, <1>33
     DEF Next, SavingRequest, LiveRequest, TestRequest, Ordering

-----------------------------------------------------------------------------
(* What CONNECTED means.  A test in flight reports on the credentials its  *)
(* account has, unless the account was saved again since.                  *)

ProvenInv ==
  /\ overtaken \subseteq Saved
  /\ \A a \in Saved : status[a] = Connected /\ a \notin overtaken
                        => cipher[a].of.right
  /\ test.for \in Saved \ overtaken => test.of = cipher[test.for].of

LEMMA StatusValues ==
  Connected \notin {Unverified, Failed, Unreadable}
  BY DEF Connected, Unverified, Failed, Unreadable

LEMMA NextProven ==
  ASSUME StoreType, VaultInv, ProvenInv, [Next]_vars
  PROVE  ProvenInv'
<1> USE EnteredCredentials, EncryptedIsThere, StatusValues,
     ControlAssumption DEF ProvenInv, StoreType, VaultInv, Saved,
     ControlAssumption
<1>1. ASSUME NewSecret PROVE ProvenInv'
  BY <1>1 DEF NewSecret, OtherRequest
<1>2. ASSUME NEW c \in Entered, TestAndSave(c) PROVE ProvenInv'
  BY <1>2 DEF TestAndSave, Persist, Overtake, AccountRequest, Encrypted
<1>3. ASSUME NEW a \in Accounts, NEW c \in Entered, Reconnect(a, c)
     PROVE ProvenInv'
  BY <1>3 DEF Reconnect, Persist, Overtake, AccountRequest, Encrypted
<1>4. ASSUME NEW a \in Accounts, SelectActive(a) PROVE ProvenInv'
  BY <1>4 DEF SelectActive, Persist, AccountRequest
<1>5. ASSUME NEW a \in Accounts, ChooseInSettings(a) PROVE ProvenInv'
  BY <1>5 DEF ChooseInSettings, Persist, AccountRequest
<1>6. ASSUME ClearChoice PROVE ProvenInv'
  BY <1>6 DEF ClearChoice, AccountRequest
<1>7. ASSUME NEW a \in Accounts, SetDefault(a) PROVE ProvenInv'
  BY <1>7 DEF SetDefault, AccountRequest
<1>8. ASSUME NEW a \in Accounts, Delete(a) PROVE ProvenInv'
  BY <1>8 DEF Delete, Persist, AccountRequest
<1>9. ASSUME NEW c \in Entered, RuntimeCredentials(c) PROVE ProvenInv'
  BY <1>9 DEF RuntimeCredentials, AccountRequest
<1>10. ASSUME NEW a \in Accounts, TestAccount(a) PROVE ProvenInv'
  BY <1>10 DEF TestAccount, Persist, AccountRequest, Readable
<1>11. ASSUME TestRuntime PROVE ProvenInv'
  BY <1>11 DEF TestRuntime, OtherRequest
<1>12. ASSUME TestSelected PROVE ProvenInv'
  BY <1>12 DEF TestSelected, AccountRequest
<1>13. ASSUME TestPasses PROVE ProvenInv'
  BY <1>13 DEF TestPasses, Persist, NoTest
<1>14. ASSUME TestFails PROVE ProvenInv'
  BY <1>14 DEF TestFails, Persist, NoTest
<1>15. ASSUME SwitchLive PROVE ProvenInv'
  BY <1>15 DEF SwitchLive, ActivateSelected, AccountRequest
<1>16. ASSUME SwitchPasses PROVE ProvenInv'
  BY <1>16 DEF SwitchPasses
<1>17. ASSUME SwitchRefused PROVE ProvenInv'
  BY <1>17 DEF SwitchRefused
<1>18. ASSUME SwitchOff PROVE ProvenInv'
  BY <1>18 DEF SwitchOff, ActivateSelected, AccountRequest
<1>19. ASSUME ToggleOff PROVE ProvenInv'
  BY <1>19 DEF ToggleOff, OtherRequest
<1>20. ASSUME ToggleOn PROVE ProvenInv'
  BY <1>20 DEF ToggleOn, AccountRequest
<1>21. ASSUME NEW on \in BOOLEAN, EnableInSettings(on) PROVE ProvenInv'
  BY <1>21 DEF EnableInSettings, OtherRequest
<1>22. ASSUME Snapshot PROVE ProvenInv'
  BY <1>22 DEF Snapshot, ActivateSelected
<1>23. ASSUME CycleBegin PROVE ProvenInv'
  BY <1>23 DEF CycleBegin, ActivateSelected
<1>24. ASSUME NEW x \in Tickets, PlanOrder(x) PROVE ProvenInv'
  BY <1>24 DEF PlanOrder, SignsInCycle
<1>25. ASSUME StartOrder PROVE ProvenInv'
  BY <1>25 DEF StartOrder, Start, SignsInCycle
<1>26. ASSUME NEW x \in Tickets, StartManualOrder(x) PROVE ProvenInv'
  BY <1>26 DEF StartManualOrder, Start, OtherRequest
<1>27. ASSUME NEW t \in Threads, OrderRefused(t) PROVE ProvenInv'
  BY <1>27 DEF OrderRefused, EndOrder, Back
<1>28. ASSUME NEW t \in Threads, PlaceOrder(t) PROVE ProvenInv'
  BY <1>28 DEF PlaceOrder, SignsInCycle
<1>29. ASSUME NEW t \in Threads, AddMargin(t) PROVE ProvenInv'
  BY <1>29 DEF AddMargin, SignsInCycle
<1>30. ASSUME NEW t \in Threads, OrderDone(t) PROVE ProvenInv'
  BY <1>30 DEF OrderDone, EndOrder, Back
<1>31. ASSUME CycleEnd PROVE ProvenInv'
  BY <1>31 DEF CycleEnd
<1>32. ASSUME Restart PROVE ProvenInv'
  BY <1>32 DEF Restart, Forget, Boot, NoTest
<1>33. ASSUME UNCHANGED vars PROVE ProvenInv'
  BY <1>33 DEF vars
<1> QED
  BY <1>1, <1>2, <1>3, <1>4, <1>5, <1>6, <1>7, <1>8, <1>9, <1>10, <1>11,
     <1>12, <1>13, <1>14, <1>15, <1>16, <1>17, <1>18, <1>19, <1>20, <1>21,
     <1>22, <1>23, <1>24, <1>25, <1>26, <1>27, <1>28, <1>29, <1>30, <1>31,
     <1>32, <1>33
     DEF Next, SavingRequest, LiveRequest, TestRequest, Ordering

-----------------------------------------------------------------------------
(* One account per poll cycle.  While no account request interferes, every *)
(* activation in the cycle is of the account it began with: the key only   *)
(* moves away from the one its credentials are readable under.             *)

CycleInv ==
  /\ \A a \in Saved : cipher[a].under <= secret
  /\ phase["poll"] = Idle => signed = {}
  /\ kept /\ phase["poll"] # Idle =>
       /\ signed \subseteq {Signer.account}
       /\ Readable(Selected) => runtime = cipher[Selected].of

LEMMA UnderTypes ==
  ASSUME StoreType
  PROVE  /\ \A a \in Saved : cipher[a].under \in Nat
         /\ secret \in Nat
         /\ \A c : Encrypted(c).under = secret /\ Encrypted(c).of = c
<1>1. \A a \in Saved : cipher[a] \in Ciphers
  BY DEF Saved, StoreType
<1>2. \A x \in Ciphers : x.under \in Nat
  BY ControlAssumption DEF Ciphers, ControlAssumption
<1> QED
  BY <1>1, <1>2, ControlAssumption DEF StoreType, Encrypted, ControlAssumption

LEMMA NextCycle ==
  ASSUME StoreType, OrderType, VaultInv, CycleInv, [Next]_vars
  PROVE  CycleInv'
<1> USE EnteredCredentials, UnderTypes, ControlAssumption DEF CycleInv,
     StoreType, OrderType, VaultInv, Saved, Readable, Signer, Selected,
     Threads, Phases, Idle, Polling, Planning, Sending, TopUp, Ordered,
     ControlAssumption
<1>1. ASSUME NewSecret PROVE CycleInv'
  BY <1>1 DEF NewSecret, OtherRequest
<1>2. ASSUME NEW c \in Entered, TestAndSave(c) PROVE CycleInv'
  <2>1. cipher' = [cipher EXCEPT ![c.account] = Encrypted(c)] /\ secret' = secret
    BY <1>2 DEF TestAndSave
  <2>2. \A x \in Saved' : cipher'[x].under <= secret'
    BY <2>1
  <2>3. phase' = phase /\ signed' = signed /\ kept' = (phase["poll"] = Idle)
    BY <1>2 DEF TestAndSave, AccountRequest
  <2> QED
    BY <2>2, <2>3
<1>3. ASSUME NEW a \in Accounts, NEW c \in Entered, Reconnect(a, c)
     PROVE CycleInv'
  <2>1. cipher' = [cipher EXCEPT ![a] = Encrypted(c)] /\ secret' = secret
    BY <1>3 DEF Reconnect
  <2>2. \A x \in Saved' : cipher'[x].under <= secret'
    BY <2>1
  <2>3. phase' = phase /\ signed' = signed /\ kept' = (phase["poll"] = Idle)
    BY <1>3 DEF Reconnect, AccountRequest
  <2> QED
    BY <2>2, <2>3
<1>4. ASSUME NEW a \in Accounts, SelectActive(a) PROVE CycleInv'
  BY <1>4 DEF SelectActive, Persist, AccountRequest
<1>5. ASSUME NEW a \in Accounts, ChooseInSettings(a) PROVE CycleInv'
  BY <1>5 DEF ChooseInSettings, Persist, AccountRequest
<1>6. ASSUME ClearChoice PROVE CycleInv'
  BY <1>6 DEF ClearChoice, AccountRequest
<1>7. ASSUME NEW a \in Accounts, SetDefault(a) PROVE CycleInv'
  BY <1>7 DEF SetDefault, AccountRequest
<1>8. ASSUME NEW a \in Accounts, Delete(a) PROVE CycleInv'
  BY <1>8 DEF Delete, Persist, AccountRequest
<1>9. ASSUME NEW c \in Entered, RuntimeCredentials(c) PROVE CycleInv'
  BY <1>9 DEF RuntimeCredentials, AccountRequest
<1>10. ASSUME NEW a \in Accounts, TestAccount(a) PROVE CycleInv'
  BY <1>10 DEF TestAccount, Persist, AccountRequest
<1>11. ASSUME TestRuntime PROVE CycleInv'
  BY <1>11 DEF TestRuntime, OtherRequest
<1>12. ASSUME TestSelected PROVE CycleInv'
  BY <1>12 DEF TestSelected, AccountRequest
<1>13. ASSUME TestPasses PROVE CycleInv'
  BY <1>13 DEF TestPasses, Persist
<1>14. ASSUME TestFails PROVE CycleInv'
  BY <1>14 DEF TestFails, Persist
<1>15. ASSUME SwitchLive PROVE CycleInv'
  BY <1>15 DEF SwitchLive, ActivateSelected, AccountRequest
<1>16. ASSUME SwitchPasses PROVE CycleInv'
  BY <1>16 DEF SwitchPasses
<1>17. ASSUME SwitchRefused PROVE CycleInv'
  BY <1>17 DEF SwitchRefused
<1>18. ASSUME SwitchOff PROVE CycleInv'
  BY <1>18 DEF SwitchOff, ActivateSelected, AccountRequest
<1>19. ASSUME ToggleOff PROVE CycleInv'
  BY <1>19 DEF ToggleOff, OtherRequest
<1>20. ASSUME ToggleOn PROVE CycleInv'
  BY <1>20 DEF ToggleOn, AccountRequest
<1>21. ASSUME NEW on \in BOOLEAN, EnableInSettings(on) PROVE CycleInv'
  BY <1>21 DEF EnableInSettings, OtherRequest
<1>22. ASSUME Snapshot PROVE CycleInv'
  BY <1>22 DEF Snapshot, ActivateSelected
<1>23. ASSUME CycleBegin PROVE CycleInv'
  BY <1>23 DEF CycleBegin, ActivateSelected
<1>24. ASSUME NEW x \in Tickets, PlanOrder(x) PROVE CycleInv'
  BY <1>24 DEF PlanOrder, SignsInCycle
<1>25. ASSUME StartOrder PROVE CycleInv'
  BY <1>25 DEF StartOrder, Start, SignsInCycle
<1>26. ASSUME NEW x \in Tickets, StartManualOrder(x) PROVE CycleInv'
  BY <1>26 DEF StartManualOrder, Start, OtherRequest
<1>27. ASSUME NEW t \in Threads, OrderRefused(t) PROVE CycleInv'
  BY <1>27 DEF OrderRefused, EndOrder, Back
<1>28. ASSUME NEW t \in Threads, PlaceOrder(t) PROVE CycleInv'
  BY <1>28 DEF PlaceOrder, SignsInCycle
<1>29. ASSUME NEW t \in Threads, AddMargin(t) PROVE CycleInv'
  BY <1>29 DEF AddMargin, SignsInCycle
<1>30. ASSUME NEW t \in Threads, OrderDone(t) PROVE CycleInv'
  BY <1>30 DEF OrderDone, EndOrder, Back
<1>31. ASSUME CycleEnd PROVE CycleInv'
  BY <1>31 DEF CycleEnd
<1>32. ASSUME Restart PROVE CycleInv'
  BY <1>32 DEF Restart, Forget, Boot
<1>33. ASSUME UNCHANGED vars PROVE CycleInv'
  BY <1>33 DEF vars
<1> QED
  BY <1>1, <1>2, <1>3, <1>4, <1>5, <1>6, <1>7, <1>8, <1>9, <1>10, <1>11,
     <1>12, <1>13, <1>14, <1>15, <1>16, <1>17, <1>18, <1>19, <1>20, <1>21,
     <1>22, <1>23, <1>24, <1>25, <1>26, <1>27, <1>28, <1>29, <1>30, <1>31,
     <1>32, <1>33
     DEF Next, SavingRequest, LiveRequest, TestRequest, Ordering

-----------------------------------------------------------------------------
(* Orders about to be sent. *)

PlannedInv ==
  \A t \in Threads : phase[t] = Planning => order[t].plan.ticket \in Tickets

SizedInv ==
  \A t \in Threads : phase[t] = Sending =>
    \E x \in Tickets :
      /\ order[t].plan = OrderPlan(x) /\ OrderAccepted(x)
      /\ order[t].from \in Accounts \cup {None}
      /\ order[t].from # None
           => MarginFits(x, EffectiveLeverage(x), Margin[order[t].from])

LEMMA NextPlanned ==
  ASSUME OrderType, PlannedInv, [Next]_vars
  PROVE  PlannedInv'
<1> USE DEF PlannedInv, OrderType, Threads, Phases, Idle, Polling, Planning,
     Sending, TopUp, Ordered
<1>1. ASSUME NewSecret PROVE PlannedInv'
  BY <1>1 DEF NewSecret, OtherRequest
<1>2. ASSUME NEW c \in Entered, TestAndSave(c) PROVE PlannedInv'
  BY <1>2 DEF TestAndSave, Persist, Overtake, AccountRequest
<1>3. ASSUME NEW a \in Accounts, NEW c \in Entered, Reconnect(a, c)
     PROVE PlannedInv'
  BY <1>3 DEF Reconnect, Persist, Overtake, AccountRequest
<1>4. ASSUME NEW a \in Accounts, SelectActive(a) PROVE PlannedInv'
  BY <1>4 DEF SelectActive, Persist, AccountRequest
<1>5. ASSUME NEW a \in Accounts, ChooseInSettings(a) PROVE PlannedInv'
  BY <1>5 DEF ChooseInSettings, Persist, AccountRequest
<1>6. ASSUME ClearChoice PROVE PlannedInv'
  BY <1>6 DEF ClearChoice, AccountRequest
<1>7. ASSUME NEW a \in Accounts, SetDefault(a) PROVE PlannedInv'
  BY <1>7 DEF SetDefault, AccountRequest
<1>8. ASSUME NEW a \in Accounts, Delete(a) PROVE PlannedInv'
  BY <1>8 DEF Delete, Persist, AccountRequest
<1>9. ASSUME NEW c \in Entered, RuntimeCredentials(c) PROVE PlannedInv'
  BY <1>9 DEF RuntimeCredentials, AccountRequest
<1>10. ASSUME NEW a \in Accounts, TestAccount(a) PROVE PlannedInv'
  BY <1>10 DEF TestAccount, Persist, AccountRequest
<1>11. ASSUME TestRuntime PROVE PlannedInv'
  BY <1>11 DEF TestRuntime, OtherRequest
<1>12. ASSUME TestSelected PROVE PlannedInv'
  BY <1>12 DEF TestSelected, AccountRequest
<1>13. ASSUME TestPasses PROVE PlannedInv'
  BY <1>13 DEF TestPasses, Persist
<1>14. ASSUME TestFails PROVE PlannedInv'
  BY <1>14 DEF TestFails, Persist
<1>15. ASSUME SwitchLive PROVE PlannedInv'
  BY <1>15 DEF SwitchLive, ActivateSelected, AccountRequest
<1>16. ASSUME SwitchPasses PROVE PlannedInv'
  BY <1>16 DEF SwitchPasses
<1>17. ASSUME SwitchRefused PROVE PlannedInv'
  BY <1>17 DEF SwitchRefused
<1>18. ASSUME SwitchOff PROVE PlannedInv'
  BY <1>18 DEF SwitchOff, ActivateSelected, AccountRequest
<1>19. ASSUME ToggleOff PROVE PlannedInv'
  BY <1>19 DEF ToggleOff, OtherRequest
<1>20. ASSUME ToggleOn PROVE PlannedInv'
  BY <1>20 DEF ToggleOn, AccountRequest
<1>21. ASSUME NEW on \in BOOLEAN, EnableInSettings(on) PROVE PlannedInv'
  BY <1>21 DEF EnableInSettings, OtherRequest
<1>22. ASSUME Snapshot PROVE PlannedInv'
  BY <1>22 DEF Snapshot, ActivateSelected
<1>23. ASSUME CycleBegin PROVE PlannedInv'
  BY <1>23 DEF CycleBegin, ActivateSelected
<1>24. ASSUME NEW x \in Tickets, PlanOrder(x) PROVE PlannedInv'
  BY <1>24 DEF PlanOrder, SignsInCycle, OrderPlan
<1>25. ASSUME StartOrder PROVE PlannedInv'
  BY <1>25 DEF StartOrder, Start, SignsInCycle
<1>26. ASSUME NEW x \in Tickets, StartManualOrder(x) PROVE PlannedInv'
  BY <1>26 DEF StartManualOrder, Start, OtherRequest
<1>27. ASSUME NEW t \in Threads, OrderRefused(t) PROVE PlannedInv'
  BY <1>27 DEF OrderRefused, EndOrder, Back
<1>28. ASSUME NEW t \in Threads, PlaceOrder(t) PROVE PlannedInv'
  BY <1>28 DEF PlaceOrder, SignsInCycle
<1>29. ASSUME NEW t \in Threads, AddMargin(t) PROVE PlannedInv'
  BY <1>29 DEF AddMargin, SignsInCycle
<1>30. ASSUME NEW t \in Threads, OrderDone(t) PROVE PlannedInv'
  BY <1>30 DEF OrderDone, EndOrder, Back
<1>31. ASSUME CycleEnd PROVE PlannedInv'
  BY <1>31 DEF CycleEnd
<1>32. ASSUME Restart PROVE PlannedInv'
  BY <1>32 DEF Restart, Forget, Boot
<1>33. ASSUME UNCHANGED vars PROVE PlannedInv'
  BY <1>33 DEF vars
<1> QED
  BY <1>1, <1>2, <1>3, <1>4, <1>5, <1>6, <1>7, <1>8, <1>9, <1>10, <1>11,
     <1>12, <1>13, <1>14, <1>15, <1>16, <1>17, <1>18, <1>19, <1>20, <1>21,
     <1>22, <1>23, <1>24, <1>25, <1>26, <1>27, <1>28, <1>29, <1>30, <1>31,
     <1>32, <1>33
     DEF Next, SavingRequest, LiveRequest, TestRequest, Ordering

LEMMA NextSized ==
  ASSUME OrderType, CallType, PlannedInv, SizedInv, [Next]_vars
  PROVE  SizedInv'
<1> USE DEF SizedInv, PlannedInv, OrderType, CallType, Threads, Phases, Idle,
     Polling, Planning, Sending, TopUp, Ordered
<1>1. ASSUME NewSecret PROVE SizedInv'
  BY <1>1 DEF NewSecret, OtherRequest
<1>2. ASSUME NEW c \in Entered, TestAndSave(c) PROVE SizedInv'
  BY <1>2 DEF TestAndSave, Persist, Overtake, AccountRequest
<1>3. ASSUME NEW a \in Accounts, NEW c \in Entered, Reconnect(a, c)
     PROVE SizedInv'
  BY <1>3 DEF Reconnect, Persist, Overtake, AccountRequest
<1>4. ASSUME NEW a \in Accounts, SelectActive(a) PROVE SizedInv'
  BY <1>4 DEF SelectActive, Persist, AccountRequest
<1>5. ASSUME NEW a \in Accounts, ChooseInSettings(a) PROVE SizedInv'
  BY <1>5 DEF ChooseInSettings, Persist, AccountRequest
<1>6. ASSUME ClearChoice PROVE SizedInv'
  BY <1>6 DEF ClearChoice, AccountRequest
<1>7. ASSUME NEW a \in Accounts, SetDefault(a) PROVE SizedInv'
  BY <1>7 DEF SetDefault, AccountRequest
<1>8. ASSUME NEW a \in Accounts, Delete(a) PROVE SizedInv'
  BY <1>8 DEF Delete, Persist, AccountRequest
<1>9. ASSUME NEW c \in Entered, RuntimeCredentials(c) PROVE SizedInv'
  BY <1>9 DEF RuntimeCredentials, AccountRequest
<1>10. ASSUME NEW a \in Accounts, TestAccount(a) PROVE SizedInv'
  BY <1>10 DEF TestAccount, Persist, AccountRequest
<1>11. ASSUME TestRuntime PROVE SizedInv'
  BY <1>11 DEF TestRuntime, OtherRequest
<1>12. ASSUME TestSelected PROVE SizedInv'
  BY <1>12 DEF TestSelected, AccountRequest
<1>13. ASSUME TestPasses PROVE SizedInv'
  BY <1>13 DEF TestPasses, Persist
<1>14. ASSUME TestFails PROVE SizedInv'
  BY <1>14 DEF TestFails, Persist
<1>15. ASSUME SwitchLive PROVE SizedInv'
  BY <1>15 DEF SwitchLive, ActivateSelected, AccountRequest
<1>16. ASSUME SwitchPasses PROVE SizedInv'
  BY <1>16 DEF SwitchPasses
<1>17. ASSUME SwitchRefused PROVE SizedInv'
  BY <1>17 DEF SwitchRefused
<1>18. ASSUME SwitchOff PROVE SizedInv'
  BY <1>18 DEF SwitchOff, ActivateSelected, AccountRequest
<1>19. ASSUME ToggleOff PROVE SizedInv'
  BY <1>19 DEF ToggleOff, OtherRequest
<1>20. ASSUME ToggleOn PROVE SizedInv'
  BY <1>20 DEF ToggleOn, AccountRequest
<1>21. ASSUME NEW on \in BOOLEAN, EnableInSettings(on) PROVE SizedInv'
  BY <1>21 DEF EnableInSettings, OtherRequest
<1>22. ASSUME Snapshot PROVE SizedInv'
  BY <1>22 DEF Snapshot, ActivateSelected
<1>23. ASSUME CycleBegin PROVE SizedInv'
  BY <1>23 DEF CycleBegin, ActivateSelected
<1>24. ASSUME NEW x \in Tickets, PlanOrder(x) PROVE SizedInv'
  BY <1>24 DEF PlanOrder, SignsInCycle
<1>25. ASSUME StartOrder PROVE SizedInv'
  BY <1>25 DEF StartOrder, Start, SignsInCycle
<1>26. ASSUME NEW x \in Tickets, StartManualOrder(x) PROVE SizedInv'
  BY <1>26 DEF StartManualOrder, Start, OtherRequest
<1>27. ASSUME NEW t \in Threads, OrderRefused(t) PROVE SizedInv'
  BY <1>27 DEF OrderRefused, EndOrder, Back
<1>28. ASSUME NEW t \in Threads, PlaceOrder(t) PROVE SizedInv'
  BY <1>28 DEF PlaceOrder, SignsInCycle
<1>29. ASSUME NEW t \in Threads, AddMargin(t) PROVE SizedInv'
  BY <1>29 DEF AddMargin, SignsInCycle
<1>30. ASSUME NEW t \in Threads, OrderDone(t) PROVE SizedInv'
  BY <1>30 DEF OrderDone, EndOrder, Back
<1>31. ASSUME CycleEnd PROVE SizedInv'
  BY <1>31 DEF CycleEnd
<1>32. ASSUME Restart PROVE SizedInv'
  BY <1>32 DEF Restart, Forget, Boot
<1>33. ASSUME UNCHANGED vars PROVE SizedInv'
  BY <1>33 DEF vars
<1> QED
  BY <1>1, <1>2, <1>3, <1>4, <1>5, <1>6, <1>7, <1>8, <1>9, <1>10, <1>11,
     <1>12, <1>13, <1>14, <1>15, <1>16, <1>17, <1>18, <1>19, <1>20, <1>21,
     <1>22, <1>23, <1>24, <1>25, <1>26, <1>27, <1>28, <1>29, <1>30, <1>31,
     <1>32, <1>33
     DEF Next, SavingRequest, LiveRequest, TestRequest, Ordering

-----------------------------------------------------------------------------
(* The theorems. *)

Inv == /\ StoreType /\ FlagType /\ CallType /\ OrderType
       /\ VaultInv /\ ProvenInv /\ CycleInv /\ PlannedInv /\ SizedInv

LEMMA InitInv == Init => Inv
<1> SUFFICES ASSUME Init PROVE Inv
  OBVIOUS
<1> USE ControlAssumption DEF ControlAssumption
<1>1. PICK first \in {{}, SavedFirst} :
        /\ cipher = [a \in Accounts |->
                       IF a \in first
                       THEN [of |-> [account |-> a, right |-> TRUE], under |-> 1]
                       ELSE NoCipher]
        /\ active \in first \cup {None}
        /\ choice \in {None, active}
        /\ secret = IF first = {} THEN 0 ELSE 1
  BY DEF Init
<1>2. /\ \A a \in Accounts : [of |-> [account |-> a, right |-> TRUE], under |-> 1]
                               \in Ciphers \ {NoCipher}
      /\ first \subseteq Accounts
  BY <1>1 DEF Ciphers, Credentials, NoCipher
<1>3. Saved = first
  BY <1>1, <1>2 DEF Saved
<1>4. StoreType
  BY <1>1, <1>2, StatusTypes DEF Init, StoreType
<1>5. FlagType
  BY DEF Init, FlagType
<1>6. CallType
  BY DEF Init, CallType, NoTest, NoSwitch, Bootstraps
<1>7. OrderType /\ PlannedInv /\ SizedInv
  BY DEF Init, OrderType, PlannedInv, SizedInv, Threads, Phases, Idle, Polling,
         Planning, Sending
<1>8. VaultInv
  BY <1>1, <1>3 DEF Init, VaultInv
<1>9. ProvenInv
  BY <1>1, <1>3, StatusValues DEF Init, ProvenInv, NoTest
<1>10. CycleInv
  BY <1>1, <1>2, <1>3 DEF Init, CycleInv, Threads
<1> QED
  BY <1>4, <1>5, <1>6, <1>7, <1>8, <1>9, <1>10 DEF Inv

LEMMA NextInv == Inv /\ [Next]_vars => Inv'
  BY NextStoreType, NextFlagType, NextCallType, NextOrderType, NextVault,
     NextProven, NextCycle, NextPlanned, NextSized DEF Inv

LEMMA InvHolds == Spec => []Inv
  BY InitInv, NextInv, PTL DEF Spec

(* For any accounts, tickets and number of requests, the state keeps its   *)
(* shape, and a thread has an order exactly while it is past planning it.  *)
THEOREM TypeCorrect == Spec => []TypeOK
<1>1. Inv => TypeOK
  BY DEF Inv, StoreType, FlagType, CallType, OrderType, ProvenInv, TypeOK
<1> QED
  BY <1>1, InvHolds, PTL

(* However requests, tests and restarts interleave, the vault holds what   *)
(* the process works with, and the active account is a saved one.          *)
THEOREM VaultAgrees == Spec => []VaultIsConsistent
<1>1. Inv => VaultIsConsistent
  BY DEF Inv, VaultInv, VaultIsConsistent
<1> QED
  BY <1>1, InvHolds, PTL

(* An account shown as CONNECTED has credentials that passed a test,       *)
(* unless it was saved again while the test was on its way.                *)
THEOREM ConnectedWasProven == Spec => []ConnectedIsProven
<1>1. Inv => ConnectedIsProven
  BY DEF Inv, ProvenInv, ConnectedIsProven
<1> QED
  BY <1>1, InvHolds, PTL

(* No dashboard, new vault key or late test moves a poll cycle to another  *)
(* account.                                                                *)
THEOREM OneAccountInCycle == Spec => []OneAccountPerCycle
<1>1. Inv => OneAccountPerCycle
  <2> SUFFICES ASSUME Inv, kept PROVE Cardinality(signed) <= 1
    BY DEF OneAccountPerCycle
  <2>1. signed \subseteq {Signer.account}
    BY DEF Inv, CycleInv
  <2>2. IsFiniteSet({Signer.account}) /\ Cardinality({Signer.account}) = 1
    BY FS_Singleton
  <2> QED
    BY <2>1, <2>2, FS_Subset
<1> QED
  BY <1>1, InvHolds, PTL

(* Every order about to be sent, whatever its ticket and whichever account *)
(* it was sized for, loses the fixed risk at its stop and outlives it.     *)
THEOREM OrdersAreSized == Spec => []SizedWithinRisk
<1>1. Inv => SizedWithinRisk
  <2> SUFFICES ASSUME Inv, NEW t \in Threads, phase[t] = Sending
               PROVE  /\ LosesTheRisk(order[t].plan)
                      /\ OutlivesItsStop(order[t].plan)
                      /\ order[t].from # None
                           => IsAffordable(order[t].plan, Margin[order[t].from])
    BY DEF SizedWithinRisk
  <2>1. PICK x \in Tickets :
          /\ order[t].plan = OrderPlan(x) /\ OrderAccepted(x)
          /\ order[t].from \in Accounts \cup {None}
          /\ order[t].from # None
               => MarginFits(x, EffectiveLeverage(x), Margin[order[t].from])
    BY DEF Inv, SizedInv
  <2>2. IsTicket(x) /\ \A a \in Accounts : Margin[a] \in Nat
    BY ControlAssumption DEF ControlAssumption
  <2> QED
    BY <2>1, <2>2, AcceptedOrdersAreSound
<1> QED
  BY <1>1, InvHolds, PTL
=============================================================================
