---------------------------- MODULE LiveControl ----------------------------
(***************************************************************************)
(* Which Bitget account the bot trades on: the saved accounts and their    *)
(* encrypted credentials (api/routes/accounts.py, exchange/account_vault), *)
(* the selected account (settings.py, account_status.py), the connector    *)
(* that signs every request with the credentials activated last            *)
(* (exchange/bitget_environment.py), the switches that arm LIVE            *)
(* (live_trading.py, bitget.py) and the two threads that order: the poll   *)
(* cycle (monitoring.py) and the manual order route.                       *)
(*                                                                         *)
(* Requests run in threads of their own and nothing locks the state.  A    *)
(* handler is one step unless it waits for the exchange: connection tests, *)
(* the switch to LIVE and the requests of an order are cut there.          *)
(*                                                                         *)
(* Left out: display fields, trading_enabled (which nothing reads), the    *)
(* trading_mode setting, and the connector's mode, which is LIVE whenever  *)
(* live_armed is.  A refusal that depends on monitoring, risk limits or    *)
(* the exchange is a choice.                                               *)
(***************************************************************************)
EXTENDS OrderSizing, FiniteSets

CONSTANTS
  Accounts,    \* exchange accounts the operator has, by account_id
  Mistyped,    \* accounts whose secret may be entered wrong
  EnvAccount,  \* account of BITGET_API_KEY/SECRET/PASSPHRASE, or None
  LiveFlag,    \* environment variable LIVE_TRADING_ENABLED
  Margin,      \* Margin[a]: available margin of account a
  Tickets,     \* tickets the poll cycle and the operator may order
  SavedFirst,  \* accounts an earlier process may have saved
  MaxSecrets,  \* bound on the vault keys generated
  MaxRequests, \* bound on the operator's requests
  None         \* no account

ASSUME ControlAssumption ==
  /\ IsFiniteSet(Accounts) /\ None \notin Accounts
  /\ EnvAccount \in Accounts \cup {None}
  /\ Margin \in [Accounts -> Nat]
  /\ \A x \in Tickets : IsTicket(x)
  /\ SavedFirst \subseteq Accounts
  /\ MaxSecrets \in Nat \ {0} /\ MaxRequests \in Nat

VARIABLES
  status,      \* connection_status of every saved account
  cipher,      \* encrypted_live_credentials
  active,      \* active_live_account_id
  choice,      \* settings["active_account_id"], saved with the settings
  enabled,     \* settings["live_trading_enabled"], saved with the settings
  diskCipher,  \* accounts and credentials in the vault file or the database
  diskActive,  \* active account id saved with them
  secret,      \* generation of the vault key, 0 when there is none
  runtime,     \* runtime_credentials of the connector
  armed,       \* live_armed
  connection,  \* last_connection_result is there
  balance,     \* account last_account_payload was read from
  test,        \* connection test waiting for the exchange
  switch,      \* switch to LIVE waiting for the exchange
  phase,       \* phase[t]: where ordering thread t is
  order,       \* order[t]: the order it is about to send
  requests,    \* requests the operator has left, a bound
  overtaken,   \* ghost: accounts saved again while a test of them ran
  kept,        \* ghost: no account request since the poll cycle began
  signed       \* ghost: accounts the poll cycle signed requests for

storeVars  == <<status, cipher, active, choice, enabled, secret>>
diskVars   == <<diskCipher, diskActive>>
envVars    == <<runtime, armed, connection, balance>>
callVars   == <<test, switch>>
threadVars == <<phase, order>>
cycleVars  == <<kept, signed>>
vars == <<storeVars, diskVars, envVars, callVars, threadVars, cycleVars,
          requests, overtaken>>

Threads == {"poll", "manual"}

Unverified == "NEEDS_VERIFICATION"
Connected  == "CONNECTED"
Failed     == "ERROR"
Unreadable == "NEEDS_RECONNECT"
Statuses   == {Unverified, Connected, Failed, Unreadable}

Idle     == "idle"
Polling  == "polling"   \* in a poll cycle, between pairs
Planning == "planning"  \* a plan is approved, its order not started
Sending  == "sending"   \* leverage set, place-order not sent
TopUp    == "topup"     \* order sent, adding margin to its position
Ordered  == "ordered"   \* margin added, or not
Phases   == {Idle, Polling, Planning, Sending, TopUp, Ordered}

(* Credentials open one account, if they were entered right. *)
Credentials == [account : Accounts, right : BOOLEAN]
Entered == {c \in Credentials : c.right \/ c.account \in Mistyped}
NoCredentials == [account |-> None, right |-> FALSE]
FromEnv == IF EnvAccount = None THEN NoCredentials
           ELSE [account |-> EnvAccount, right |-> TRUE]

(* Credentials as the vault keeps them: readable with the key they were    *)
(* encrypted under.                                                        *)
Ciphers == [of : Credentials, under : 1..MaxSecrets]
NoCipher == [of |-> NoCredentials, under |-> 0]
Encrypted(c) == [of |-> c, under |-> secret]

NoTest   == [for |-> None, of |-> NoCredentials]
NoSwitch == [of |-> NoCredentials, tests |-> FALSE]
NoPlan   == [ticket |-> None, lots |-> 0, leverage |-> 0]
NoOrder  == [plan |-> NoPlan, from |-> None]

Saved == {a \in Accounts : cipher[a] # NoCipher}
Readable(a) == a \in Saved /\ cipher[a].under = secret

(* The account every activation falls back on, and the credentials a       *)
(* request is signed with: _credentials().                                 *)
Selected == IF active # None THEN active ELSE choice
SignerOf(creds) == IF creds # NoCredentials THEN creds ELSE FromEnv
Signer == SignerOf(runtime)

-----------------------------------------------------------------------------
(* Shared steps. *)

(* Mutant: the active id is not written with the accounts. *)
PersistAccounts(ciphers, selected) ==
  diskCipher' = ciphers /\ UNCHANGED diskActive

(* save_vault: what is in memory after the handler replaces what was saved. *)
Persist(ciphers, selected) == diskCipher' = ciphers /\ diskActive' = selected

(* A request that may change the account orders are signed for.            *)
AccountRequest ==
  /\ requests > 0
  /\ requests' = requests - 1
  /\ kept' = (phase["poll"] = Idle)
  /\ UNCHANGED signed

(* A request that cannot. *)
OtherRequest ==
  /\ requests > 0
  /\ requests' = requests - 1
  /\ UNCHANGED cycleVars

(* A connection test reports to the account it was begun for, whichever    *)
(* credentials the account has by then.                                    *)
Overtake(a) ==
  overtaken' = IF test.for = a THEN overtaken \cup {a} ELSE overtaken \ {a}

(* _activate_selected_account_credentials: nothing happens without saved   *)
(* credentials, and unreadable ones leave the connector as it was.         *)
ActivateSelected ==
  /\ runtime' = IF Readable(Selected) THEN cipher[Selected].of ELSE runtime
  /\ status' = IF Selected \in Saved /\ ~Readable(Selected)
               THEN [status EXCEPT ![Selected] = Unreadable] ELSE status

-----------------------------------------------------------------------------
(* Saving, selecting and deleting accounts. *)

(* POST /vault-key and /vault-key/generate. *)
NewSecret ==
  /\ secret < MaxSecrets
  /\ secret' = secret + 1
  /\ OtherRequest
  /\ UNCHANGED <<status, cipher, active, choice, enabled, diskVars, envVars,
                 callVars, threadVars, overtaken>>

(* POST /bitget/test-and-save: nothing is tested; an account of the same   *)
(* key and name is replaced.  The first account becomes the active one.    *)
TestAndSave(c) ==
  /\ secret > 0
  /\ runtime' = c
  /\ cipher' = [cipher EXCEPT ![c.account] = Encrypted(c)]
  /\ status' = [status EXCEPT ![c.account] = Unverified]
  /\ active' = IF Saved = {} \/ active = None THEN c.account ELSE active
  /\ Persist(cipher', active')
  /\ Overtake(c.account)
  /\ AccountRequest
  /\ UNCHANGED <<choice, enabled, secret, armed, connection, balance, callVars,
                 threadVars>>

(* Mutant: the account stays CONNECTED with its new credentials. *)
ReconnectKeepingStatus(a, c) ==
  /\ a \in Saved /\ c.account = a /\ secret > 0
  /\ runtime' = c
  /\ cipher' = [cipher EXCEPT ![a] = Encrypted(c)]
  /\ Persist(cipher', active)
  /\ Overtake(a)
  /\ AccountRequest
  /\ UNCHANGED <<status, active, choice, enabled, secret, armed, connection,
                 balance, callVars, threadVars>>

(* POST /{account_id}/reconnect. *)
Reconnect(a, c) ==
  /\ a \in Saved /\ c.account = a /\ secret > 0
  /\ runtime' = c
  /\ cipher' = [cipher EXCEPT ![a] = Encrypted(c)]
  /\ status' = [status EXCEPT ![a] = Unverified]
  /\ Persist(cipher', active)
  /\ Overtake(a)
  /\ AccountRequest
  /\ UNCHANGED <<active, choice, enabled, secret, armed, connection, balance,
                 callVars, threadVars>>

(* POST /select-active. *)
SelectActive(a) ==
  /\ a \in Saved
  /\ active' = a /\ choice' = a
  /\ runtime' = IF Readable(a) THEN cipher[a].of ELSE runtime
  /\ status' = IF Readable(a) THEN status ELSE [status EXCEPT ![a] = Unreadable]
  /\ UNCHANGED cipher
  /\ Persist(cipher, a)
  /\ AccountRequest
  /\ UNCHANGED <<enabled, secret, armed, connection, balance, callVars,
                 threadVars, overtaken>>

(* PATCH /api/settings with active_account_id: nothing is activated.       *)
ChooseInSettings(a) ==
  /\ a \in Saved
  /\ enabled => connection
  /\ active' = a /\ choice' = a
  /\ UNCHANGED cipher
  /\ Persist(cipher, a)
  /\ AccountRequest
  /\ UNCHANGED <<status, enabled, secret, envVars, callVars, threadVars,
                 overtaken>>

(* The same with an empty id: only the settings forget the account.        *)
ClearChoice ==
  /\ enabled => connection
  /\ choice' = None
  /\ AccountRequest
  /\ UNCHANGED <<status, cipher, active, enabled, secret, diskVars, envVars,
                 callVars, threadVars, overtaken>>

(* POST /{account_id}/default: in memory only. *)
SetDefault(a) ==
  /\ a \in Saved
  /\ active' = a
  /\ AccountRequest
  /\ UNCHANGED <<status, cipher, choice, enabled, secret, diskVars, envVars,
                 callVars, threadVars, overtaken>>

(* DELETE /{account_id}: the runtime credentials go with the active        *)
(* account only.                                                           *)
Delete(a) ==
  /\ a \in Saved
  /\ cipher' = [cipher EXCEPT ![a] = NoCipher]
  /\ status' = [status EXCEPT ![a] = Unverified]
  /\ IF active = a
     THEN active' = None /\ choice' = None /\ runtime' = NoCredentials
     ELSE UNCHANGED <<active, choice, runtime>>
  /\ Persist(cipher', active')
  /\ overtaken' = overtaken \ {a}
  /\ AccountRequest
  /\ UNCHANGED <<enabled, secret, armed, connection, balance, callVars,
                 threadVars>>

(* POST /api/bitget/credentials. *)
RuntimeCredentials(c) ==
  /\ runtime' = c
  /\ AccountRequest
  /\ UNCHANGED <<storeVars, diskVars, armed, connection, balance, callVars,
                 threadVars, overtaken>>

-----------------------------------------------------------------------------
(* Connection tests: the credentials are read before the exchange is asked *)
(* and the outcome is stored when it has answered.                         *)

(* POST /{account_id}/test-connection and /refresh, and the refresh of the *)
(* active account in account_status.py.                                    *)
TestAccount(a) ==
  /\ test = NoTest
  /\ a \in Saved
  /\ AccountRequest
  /\ IF Readable(a)
     THEN /\ runtime' = cipher[a].of
          /\ test' = [for |-> a, of |-> cipher[a].of]
          /\ UNCHANGED <<status, diskVars>>
     ELSE /\ status' = [status EXCEPT ![a] = Unreadable]
          /\ Persist(cipher, active)
          /\ UNCHANGED <<runtime, test>>
  /\ UNCHANGED <<cipher, active, choice, enabled, secret, armed, connection,
                 balance, switch, threadVars, overtaken>>

(* POST /bitget/test tests whatever is in force; /connection/live after    *)
(* activating the selected account.                                        *)
TestRuntime ==
  /\ test = NoTest
  /\ Signer # NoCredentials
  /\ test' = [for |-> None, of |-> Signer]
  /\ OtherRequest
  /\ UNCHANGED <<storeVars, diskVars, envVars, switch, threadVars, overtaken>>

TestSelected ==
  /\ test = NoTest
  /\ Readable(Selected)
  /\ runtime' = cipher[Selected].of
  /\ test' = [for |-> None, of |-> cipher[Selected].of]
  /\ AccountRequest
  /\ UNCHANGED <<storeVars, diskVars, armed, connection, balance, switch,
                 threadVars, overtaken>>

(* The answer finds its account deleted: nothing is recorded on it.        *)
TestPasses ==
  /\ test.of.right
  /\ connection' = TRUE /\ balance' = test.of.account
  /\ IF test.for \in Saved
     THEN /\ status' = [status EXCEPT ![test.for] = Connected]
          /\ Persist(cipher, active)
          /\ overtaken' = overtaken \ {x \in {test.for} : test.of = cipher[x].of}
     ELSE UNCHANGED <<status, diskVars, overtaken>>
  /\ test' = NoTest
  /\ UNCHANGED <<cipher, active, choice, enabled, secret, runtime, armed,
                 switch, threadVars, cycleVars, requests>>

TestFails ==
  /\ test # NoTest
  /\ connection' = FALSE
  /\ IF test.for \in Saved
     THEN /\ status' = [status EXCEPT ![test.for] = Failed]
          /\ Persist(cipher, active)
          /\ overtaken' = overtaken \ {test.for}
     ELSE UNCHANGED <<status, diskVars, overtaken>>
  /\ test' = NoTest
  /\ UNCHANGED <<cipher, active, choice, enabled, secret, runtime, armed,
                 balance, switch, threadVars, cycleVars, requests>>

-----------------------------------------------------------------------------
(* Arming and disarming. *)

(* POST /api/bitget/mode LIVE disarms before anything else, tests the      *)
(* connection if none is known, and arms when everything it asks for is    *)
(* there.  Without credentials to sign with it ends at once.               *)
SwitchLive ==
  /\ switch = NoSwitch
  /\ Selected \in Saved => Readable(Selected)
  /\ ActivateSelected
  /\ armed' = FALSE
  /\ switch' = IF SignerOf(runtime') = NoCredentials THEN NoSwitch
               ELSE [of |-> SignerOf(runtime'), tests |-> ~connection]
  /\ AccountRequest
  /\ UNCHANGED <<cipher, active, choice, enabled, secret, diskVars, connection,
                 balance, test, threadVars, overtaken>>

SwitchPasses ==
  /\ switch # NoSwitch
  /\ IF switch.tests
     THEN /\ switch.of.right
          /\ connection' = TRUE /\ balance' = switch.of.account
     ELSE connection /\ UNCHANGED <<connection, balance>>
  /\ armed' = TRUE /\ enabled' = TRUE
  /\ switch' = NoSwitch
  /\ UNCHANGED <<status, cipher, active, choice, secret, diskVars, runtime,
                 test, threadVars, cycleVars, requests, overtaken>>

(* A failed test, or no fresh market data: the settings keep what they     *)
(* said.                                                                   *)
SwitchRefused ==
  /\ switch # NoSwitch
  /\ \/ UNCHANGED <<connection, balance>>
     \/ switch.tests /\ connection' = FALSE /\ UNCHANGED balance
     \/ /\ switch.tests /\ switch.of.right
        /\ connection' = TRUE /\ balance' = switch.of.account
  /\ switch' = NoSwitch
  /\ UNCHANGED <<storeVars, diskVars, runtime, armed, test, threadVars,
                 cycleVars, requests, overtaken>>

(* POST /api/bitget/mode OFF or DRY_RUN_PREVIEW. *)
SwitchOff ==
  /\ Selected \in Saved => Readable(Selected)
  /\ ActivateSelected
  /\ armed' = FALSE /\ enabled' = FALSE
  /\ AccountRequest
  /\ UNCHANGED <<cipher, active, choice, secret, diskVars, connection, balance,
                 callVars, threadVars, overtaken>>

(* POST /api/live-trading/toggle. *)
ToggleOff ==
  /\ armed' = FALSE /\ enabled' = FALSE
  /\ OtherRequest
  /\ UNCHANGED <<status, cipher, active, choice, secret, diskVars, runtime,
                 connection, balance, callVars, threadVars, overtaken>>

ToggleOn ==
  /\ active \in Saved /\ status[active] = Connected /\ Readable(active)
  /\ runtime' = cipher[active].of
  /\ armed' = TRUE /\ enabled' = TRUE
  /\ AccountRequest
  /\ UNCHANGED <<status, cipher, active, choice, secret, diskVars, connection,
                 balance, callVars, threadVars, overtaken>>

(* PATCH /api/settings with live_trading_enabled. *)
EnableInSettings(on) ==
  /\ on => connection
  /\ enabled' = on
  /\ OtherRequest
  /\ UNCHANGED <<status, cipher, active, choice, secret, diskVars, envVars,
                 callVars, threadVars, overtaken>>

(* Mutant: the settings before the memory of the process. *)
SnapshotOfChoice ==
  LET a == IF choice # None THEN choice ELSE active
  IN  /\ runtime' = IF Readable(a) THEN cipher[a].of ELSE runtime
      /\ UNCHANGED <<storeVars, diskVars, armed, connection, balance, callVars,
                     threadVars, cycleVars, requests, overtaken>>

(* The snapshots a dashboard polls, the positions and orders pages and the *)
(* status of live trading activate the selected account as they go.        *)
Snapshot ==
  /\ ActivateSelected
  /\ UNCHANGED <<cipher, active, choice, enabled, secret, diskVars, armed,
                 connection, balance, callVars, threadVars, cycleVars,
                 requests, overtaken>>

-----------------------------------------------------------------------------
(* Ordering.  Every request of an order is signed with the credentials in  *)
(* force when it is sent.                                                  *)

SignsInCycle == signed' = signed \cup {Signer.account}

Back(t) == IF t = "poll" THEN Polling ELSE Idle

(* _run_poll_cycle activates the selected account once. *)
CycleBegin ==
  /\ phase["poll"] = Idle
  /\ ActivateSelected
  /\ phase' = [phase EXCEPT !["poll"] = Polling]
  /\ signed' = {SignerOf(runtime').account} \ {None}
  /\ UNCHANGED <<cipher, active, choice, enabled, secret, diskVars, armed,
                 connection, balance, callVars, order, requests, overtaken,
                 kept>>

(* Preflight, then the risk context: the margin last read from whichever   *)
(* account, the positions of the account in force.                         *)
PlanOrder(x) ==
  /\ phase["poll"] = Polling
  /\ enabled /\ armed
  /\ Signer # NoCredentials
  /\ balance # None /\ RiskApproves(x, Margin[balance])
  /\ phase' = [phase EXCEPT !["poll"] = Planning]
  /\ order' = [order EXCEPT !["poll"] = [plan |-> OrderPlan(x), from |-> balance]]
  /\ SignsInCycle
  /\ UNCHANGED <<storeVars, diskVars, envVars, callVars, requests, overtaken,
                 kept>>

(* place_order: armed, the plan accepted, its margin within the one last   *)
(* read if any was, and the leverage set.  The manual route starts here.   *)
Start(t, x) ==
  /\ armed
  /\ OrderAccepted(x)
  /\ balance # None => MarginFits(x, EffectiveLeverage(x), Margin[balance])
  /\ Signer # NoCredentials
  /\ phase' = [phase EXCEPT ![t] = Sending]
  /\ order' = [order EXCEPT ![t] = [plan |-> OrderPlan(x), from |-> balance]]
  /\ UNCHANGED <<storeVars, diskVars, envVars, callVars, overtaken>>

StartOrder ==
  /\ phase["poll"] = Planning
  /\ Start("poll", order["poll"].plan.ticket)
  /\ SignsInCycle
  /\ UNCHANGED <<requests, kept>>

StartManualOrder(x) ==
  /\ phase["manual"] = Idle
  /\ Start("manual", x)
  /\ OtherRequest

EndOrder(t) ==
  /\ phase' = [phase EXCEPT ![t] = Back(t)]
  /\ order' = [order EXCEPT ![t] = NoOrder]
  /\ UNCHANGED <<storeVars, diskVars, envVars, callVars, cycleVars, requests,
                 overtaken>>

(* A preview, the armed check or a request refuses. *)
OrderRefused(t) ==
  /\ phase[t] \in {Planning, Sending}
  /\ EndOrder(t)

PlaceOrder(t) ==
  /\ phase[t] = Sending
  /\ Signer # NoCredentials
  /\ phase' = [phase EXCEPT ![t] = TopUp]
  /\ IF t = "poll" THEN SignsInCycle ELSE UNCHANGED signed
  /\ UNCHANGED <<storeVars, diskVars, envVars, callVars, order, requests,
                 overtaken, kept>>

(* _add_margin_after_open reads the position and adds to it; a failure is  *)
(* only logged.                                                            *)
AddMargin(t) ==
  /\ phase[t] = TopUp
  /\ phase' = [phase EXCEPT ![t] = Ordered]
  /\ IF t = "poll" /\ Signer # NoCredentials THEN SignsInCycle
                                              ELSE UNCHANGED signed
  /\ UNCHANGED <<storeVars, diskVars, envVars, callVars, order, requests,
                 overtaken, kept>>

OrderDone(t) ==
  /\ phase[t] = Ordered
  /\ EndOrder(t)

(* Mutant: the cycle ends whatever it is waiting for. *)
CycleEndAnyway ==
  /\ phase["poll"] # Idle
  /\ phase' = [phase EXCEPT !["poll"] = Idle]
  /\ signed' = {} /\ kept' = TRUE
  /\ UNCHANGED <<storeVars, diskVars, envVars, callVars, order, requests,
                 overtaken>>

CycleEnd ==
  /\ phase["poll"] = Polling
  /\ phase' = [phase EXCEPT !["poll"] = Idle]
  /\ signed' = {} /\ kept' = TRUE
  /\ UNCHANGED <<storeVars, diskVars, envVars, callVars, order, requests,
                 overtaken>>
-----------------------------------------------------------------------------
(* Starting and stopping. *)

(* Nothing of the connector, of a request or of an order outlives the      *)
(* process.                                                                *)
Forget ==
  /\ runtime' = NoCredentials /\ armed' = FALSE
  /\ test' = NoTest /\ switch' = NoSwitch
  /\ phase' = [t \in Threads |-> Idle]
  /\ order' = [t \in Threads |-> NoOrder]
  /\ overtaken' = {}
  /\ kept' = TRUE /\ signed' = {}

(* bootstrap_live_trading_from_env: with the flag set the credentials in   *)
(* force at start-up, those of the environment, are tested.                *)
Bootstraps == LiveFlag /\ EnvAccount # None

Boot ==
  \/ connection' = FALSE /\ balance' = None /\ UNCHANGED enabled
  \/ /\ Bootstraps
     /\ connection' = TRUE /\ balance' = EnvAccount /\ enabled' = TRUE

(* load_vault: every account is to be verified again. *)
Restart ==
  /\ requests > 0
  /\ requests' = requests - 1
  /\ cipher' = diskCipher /\ active' = diskActive
  /\ status' = [a \in Accounts |-> Unverified]
  /\ Forget
  /\ Boot
  /\ UNCHANGED <<choice, secret, diskVars>>

(* A first start, or one with accounts saved by an earlier process.        *)
Init ==
  /\ runtime = NoCredentials /\ armed = FALSE
  /\ test = NoTest /\ switch = NoSwitch
  /\ phase = [t \in Threads |-> Idle]
  /\ order = [t \in Threads |-> NoOrder]
  /\ overtaken = {}
  /\ kept = TRUE /\ signed = {}
  /\ \/ connection = FALSE /\ balance = None /\ enabled \in BOOLEAN
     \/ /\ Bootstraps
        /\ connection = TRUE /\ balance = EnvAccount /\ enabled = TRUE
  /\ \E first \in {{}, SavedFirst} :
       /\ cipher = [a \in Accounts |->
                      IF a \in first
                      THEN [of |-> [account |-> a, right |-> TRUE], under |-> 1]
                      ELSE NoCipher]
       /\ active \in first \cup {None}
       /\ choice \in {None, active}
       /\ secret = IF first = {} THEN 0 ELSE 1
  /\ status = [a \in Accounts |-> Unverified]
  /\ diskCipher = cipher /\ diskActive = active
  /\ requests = MaxRequests

SavingRequest ==
  \/ \E c \in Entered :
       \/ TestAndSave(c) \/ RuntimeCredentials(c)
       \/ \E a \in Accounts : Reconnect(a, c)
  \/ \E a \in Accounts :
       SelectActive(a) \/ ChooseInSettings(a) \/ SetDefault(a) \/ Delete(a)
  \/ NewSecret \/ ClearChoice

LiveRequest ==
  \/ SwitchLive \/ SwitchPasses \/ SwitchRefused \/ SwitchOff
  \/ ToggleOff \/ ToggleOn
  \/ \E on \in BOOLEAN : EnableInSettings(on)

TestRequest ==
  \/ \E a \in Accounts : TestAccount(a)
  \/ TestRuntime \/ TestSelected \/ TestPasses \/ TestFails

Ordering ==
  \/ CycleBegin \/ CycleEnd \/ StartOrder
  \/ \E x \in Tickets : PlanOrder(x) \/ StartManualOrder(x)
  \/ \E t \in Threads : \/ OrderRefused(t) \/ PlaceOrder(t)
                          \/ AddMargin(t) \/ OrderDone(t)

Next == SavingRequest \/ LiveRequest \/ TestRequest \/ Snapshot \/ Ordering
          \/ Restart

Spec == Init /\ [][Next]_vars

-----------------------------------------------------------------------------
(* Properties. *)

(* The shape of the state, and who is doing what in it. *)
TypeOK ==
  /\ status \in [Accounts -> Statuses]
  /\ cipher \in [Accounts -> Ciphers \cup {NoCipher}]
  /\ diskCipher \in [Accounts -> Ciphers \cup {NoCipher}]
  /\ {active, choice, diskActive, balance} \subseteq Accounts \cup {None}
  /\ {enabled, armed, connection} \subseteq BOOLEAN
  /\ secret \in 0..MaxSecrets /\ requests \in 0..MaxRequests
  /\ runtime \in Credentials \cup {NoCredentials}
  /\ test.of \in Credentials \cup {NoCredentials}
  /\ switch.of \in Credentials \cup {NoCredentials}
  /\ phase \in [Threads -> Phases]
  /\ DOMAIN order = Threads
  /\ \A t \in Threads : order[t] = NoOrder <=> phase[t] \in {Idle, Polling}
  /\ overtaken \subseteq Saved

(* What a restart would load is what the program works with: every handler *)
(* that changes an account or its credentials leaves memory and vault in   *)
(* agreement, the active account is a saved one, now and after a restart,  *)
(* and the selection in the settings, which may outlive its account, is    *)
(* never what credentials are activated by (accounts.py                    *)
(* _persist_live_accounts).                                                *)
VaultIsConsistent ==
  /\ diskCipher = cipher
  /\ {active, diskActive} \subseteq Saved \cup {None}
  /\ active = None => choice = None

(* An account shown as CONNECTED holds credentials the exchange accepts,   *)
(* whatever tests, reconnects and restarts overlap; the exception is an    *)
(* account that was saved again while a test of it was on its way          *)
(* (accounts.py test_connection).                                          *)
ConnectedIsProven ==
  \A a \in Saved : status[a] = Connected /\ a \notin overtaken
                     => cipher[a].of.right

(* The positions read, the leverage, the orders and the margin added in    *)
(* one poll cycle all go to one account, although each request is signed   *)
(* with the credentials in force at that moment: dashboards that activate  *)
(* the selected account, new vault keys and finishing tests never move a   *)
(* cycle to another account, only a request about accounts does            *)
(* (bitget_environment.py _credentials, monitoring.py _run_poll_cycle).    *)
OneAccountPerCycle == kept => Cardinality(signed) <= 1

(* An order about to be sent loses the configured risk at its stop and no  *)
(* more, is affordable with the margin it was sized for, and reaches its   *)
(* stop before its maintenance margin (bitget_environment.py               *)
(* _build_order_plan).                                                     *)
SizedWithinRisk ==
  \A t \in Threads : phase[t] = Sending =>
    /\ LosesTheRisk(order[t].plan)
    /\ OutlivesItsStop(order[t].plan)
    /\ order[t].from # None => IsAffordable(order[t].plan, Margin[order[t].from])

(* "live trading only uses the selected connected account"                 *)
(* (reports/account_persistence_active_selection_report.md:150): with an   *)
(* account selected whose credentials can be read, an automated order that *)
(* no account request interferes with is signed for that account and sized *)
(* by its margin.                                                          *)
OrdersUseSelectedAccount ==
  [][PlaceOrder("poll") /\ kept /\ Readable(Selected)
       => Signer.account = Selected /\ order["poll"].from = Selected]_vars
=============================================================================
