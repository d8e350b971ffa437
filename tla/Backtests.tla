------------------------------- MODULE Backtests -------------------------------
(***************************************************************************)
(* The backtesting API (src/backend/arjiobot/api/routes/backtesting.py)    *)
(* and the pages that use it (src/frontend/src/pages/Backtesting.tsx).     *)
(* Uploads and runs are requests of several pages, handled by the threads  *)
(* of the server's pool: they interleave between any two accesses to the   *)
(* state they share.  A page gives up on a request that takes too long;    *)
(* the server does not notice and goes on.  A restart empties the memory   *)
(* of the server, not that of the pages.                                   *)
(*                                                                         *)
(* A file's content stands for its hash.  Under which name it is sent, and *)
(* which symbol is found for it, is not told by its content.  Runs are     *)
(* keyed by the number in their run_id.                                    *)
(***************************************************************************)
EXTENDS BacktestReport

CONSTANTS
  Workers,      \* threads of the server
  Pages,        \* browser pages
  Csvs,         \* what files hold, by a handle
  Named,        \* the symbol in each name a file may be sent under
  Symbols,      \* trading symbols
  Typed,        \* what a page sends for one: symbols, or that it has none
  Strategies,   \* profiles: [funnel, model, research, tunable], by name
  Models,       \* the take profit models a page offers
  ExitMinutes,  \* values of time_exit_minutes
  MaxUploads,   \* bounds
  MaxRuns,
  None

Files == DOMAIN Csvs
Names == DOMAIN Named

(* What an upload says of a content: filename and detected_symbol. *)
Labels == [name : Names, symbol : Symbols \union {Unknown}]

(* What a page can ask for: minutes, if the model is the time based exit.  *)
Requests ==
  {request \in [profile : DOMAIN Strategies, model : Models, minutes : ExitMinutes \union {0}] :
     request.model = "TIME" <=> request.minutes # 0}

ASSUME BacktestsAssumption ==
  /\ MaxUploads \in Nat /\ MaxRuns \in Nat
  /\ ExitMinutes \subseteq 1 .. 120
  /\ None \notin Files \union Workers \union Pages \union Requests \union (Nat \X Files)

(* What stands in a file are rows with a minute and whole prices, in any   *)
(* order, with any gaps and repetitions, and malformed candles too.        *)
ASSUME FilesAssumption ==
  /\ \A f \in Files :
       /\ Csvs[f].rows \in Seq([t : Nat, bar : [o : Int, h : Int, l : Int, c : Int]])
       /\ Csvs[f].column \in Symbols \union {Unknown}
  /\ \A name \in Names : Named[name] \in Symbols \union {Unknown}
  /\ Typed \subseteq Symbols \union {Unknown}

(* A profile's own take profit is the one its funnel aims at. *)
ASSUME StrategiesAssumption ==
  \A profile \in DOMAIN Strategies :
    LET strategy == Strategies[profile]
    IN  /\ strategy.model \in {"RR", "LEG"}
        /\ strategy.funnel.legTarget = (strategy.model = "LEG")
        /\ strategy.funnel \in
             [linked : BOOLEAN, legacy : BOOLEAN, matchWindow : Nat, ratioMin : Nat,
              ratioMax : Nat, direct : BOOLEAN, legTarget : BOOLEAN, uncapped : BOOLEAN]

VARIABLES
  uploads,   \* uploaded_csvs: the description of a file, by upload id
  contents,  \* uploaded_csv_contents, by upload id
  runs,      \* backtest_runs, by number
  task,      \* what each thread is doing
  result,    \* the report it has: [report, plain], where plain, an auxiliary
             \* record, is the report before the time based exit
  page       \* of each page: uploadId and, as shown, uploadedCsv; what the
             \* user uploaded under them, file and label; for isUploading, the
             \* thread whose answer it awaits; and server, an auxiliary
             \* record of whether it was restarted since

vars == <<uploads, contents, runs, task, result, page>>

Steps == {"IDLE", "UPLOADED", "NUMBERED", "DESCRIBED", "KEPT",
          "REQUESTED", "SIMULATED", "CLOSED", "TITLED"}

(* file and label are what an upload brought, or what the user of the      *)
(* run's page has uploaded, shown and server those of the page; read and   *)
(* again are the contents a run has got for its simulation and for its     *)
(* time based exit, meta the description it keeps.                         *)
Idle == [step |-> "IDLE", page |-> None, file |-> None, label |-> None, id |-> None,
         shown |-> None, server |-> "SAME", request |-> None,
         read |-> None, again |-> None, meta |-> None, number |-> 0]

Upload(p, f, label) ==
  [Idle EXCEPT !.step = "UPLOADED", !.page = p, !.file = f, !.label = label]

Run(p, request) ==
  [Idle EXCEPT !.step = "REQUESTED", !.file = page[p].file, !.label = page[p].label,
               !.id = page[p].id, !.shown = page[p].shown, !.server = page[p].server,
               !.request = request]

Blank == [file |-> None, label |-> None, id |-> None, shown |-> None,
          uploading |-> None, server |-> "SAME"]

Init ==
  /\ uploads = <<>>
  /\ contents = <<>>
  /\ runs = <<>>
  /\ task = [w \in Workers |-> Idle]
  /\ result = [w \in Workers |-> None]
  /\ page = [p \in Pages |-> Blank]

At(w, step) == task[w].step = step

Goto(w, step) == task' = [task EXCEPT ![w].step = step]

Done(w) == task' = [task EXCEPT ![w] = Idle]

(* dictionary[key] = value *)
Put(dictionary, key, value) ==
  [k \in {key} \union DOMAIN dictionary |-> IF k = key THEN value ELSE dictionary[k]]

-----------------------------------------------------------------------------
(* Uploads. *)

(* handleUpload: the input is disabled while an upload is awaited.  The    *)
(* symbol the page sends may be none at all; which one the server will     *)
(* find depends on nothing but the request.                                *)
ChooseFile(w, p, f, name, typed) ==
  /\ At(w, "IDLE")
  /\ page[p].uploading = None
  /\ Cardinality(DOMAIN uploads) < MaxUploads
  /\ LET symbol == DetectedSymbol(Csvs[f], Named[name], typed)
     IN  task' = [task EXCEPT ![w] = Upload(p, f, [name |-> name, symbol |-> symbol])]
  /\ page' = [page EXCEPT ![p] = [Blank EXCEPT !.uploading = w]]
  /\ UNCHANGED <<uploads, contents, runs, result>>

(* The page's promise is settled, unless the page has given it up. *)
Settle(w, answer) ==
  LET p == task[w].page
  IN  page' = IF page[p].uploading # w THEN page ELSE [page EXCEPT ![p] = answer]

(* The files an upload can bring in, what they hold, and those of them     *)
(* that can be simulated; once for all states.                             *)
Accepted == {f \in Files : Loadable(Csvs[f])}
Loaded   == [f \in Accepted |-> Load(Csvs[f])]
Simulable == {f \in Accepted : Runnable(Csvs[f])}

Acceptable(w) == task[w].label.symbol # Unknown /\ task[w].file \in Accepted

RefuseUpload(w) ==
  /\ At(w, "UPLOADED")
  /\ ~Acceptable(w)
  /\ Settle(w, Blank)
  /\ Done(w)
  /\ UNCHANGED <<uploads, contents, runs, result>>

(* Mutant: numbered by the contents, of which the last may be still to be  *)
(* written.                                                                *)
NumberUploadByContents(w) ==
  /\ At(w, "UPLOADED")
  /\ Acceptable(w)
  /\ task' = [task EXCEPT ![w].step = "NUMBERED",
                          ![w].id = <<Cardinality(DOMAIN contents) + 1, task[w].file>>]
  /\ UNCHANGED <<uploads, contents, runs, page, result>>

(* The upload id: a number and the hash of the content, and of no more.    *)
NumberUpload(w) ==
  /\ At(w, "UPLOADED")
  /\ Acceptable(w)
  /\ task' = [task EXCEPT ![w].step = "NUMBERED",
                          ![w].id = <<Cardinality(DOMAIN uploads) + 1, task[w].file>>]
  /\ UNCHANGED <<uploads, contents, runs, page, result>>

(* The threads other than w whose uploads hold the same id: an auxiliary   *)
(* record of whose descriptions it shares its place with.                  *)
Sharers(w) ==
  {u \in Workers \ {w} :
     task[u].step \in {"NUMBERED", "DESCRIBED", "KEPT"} /\ task[u].id = task[w].id}

Description(w) ==
  [file |-> task[w].file, label |-> task[w].label, rivals |-> Sharers(w)]

(* Mutant: the content before the description. *)
DescribeUploadLater(w) ==
  /\ At(w, "NUMBERED")
  /\ contents' = Put(contents, task[w].id, task[w].file)
  /\ Goto(w, "DESCRIBED")
  /\ UNCHANGED <<uploads, runs, page, result>>

DescribeUpload(w) ==
  /\ At(w, "NUMBERED")
  /\ uploads' = Put(uploads, task[w].id, Description(w))
  /\ Goto(w, "DESCRIBED")
  /\ UNCHANGED <<contents, runs, page, result>>

KeepContent(w) ==
  /\ At(w, "DESCRIBED")
  /\ contents' = Put(contents, task[w].id, task[w].file)
  /\ Goto(w, "KEPT")
  /\ UNCHANGED <<uploads, runs, page, result>>

(* The answer is the description that is stored by now. *)
AnswerUpload(w) ==
  /\ At(w, "KEPT")
  /\ Settle(w, [Blank EXCEPT !.file = task[w].file, !.label = task[w].label,
                             !.id = task[w].id, !.shown = uploads[task[w].id]])
  /\ Done(w)
  /\ UNCHANGED <<uploads, contents, runs, result>>

(* uploadCsv's timeout, or a lost connection. *)
GiveUpUpload(p) ==
  /\ page[p].uploading # None
  /\ page' = [page EXCEPT ![p].uploading = None]
  /\ UNCHANGED <<uploads, contents, runs, task, result>>

-----------------------------------------------------------------------------
(* Runs. *)

Running(w) == task[w].step \in {"REQUESTED", "SIMULATED", "CLOSED", "TITLED"}

(* handleRun: only without an upload id does the page refuse; what it      *)
(* shows was set with the id.  It does not wait for an earlier run; after  *)
(* runBacktest's timeout nobody does.                                      *)
ClickRun(w, p, request) ==
  /\ At(w, "IDLE")
  /\ page[p].id # None
  /\ Cardinality(DOMAIN runs) + Cardinality({u \in Workers : Running(u)}) < MaxRuns
  /\ task' = [task EXCEPT ![w] = Run(p, request)]
  /\ UNCHANGED <<uploads, contents, runs, page, result>>

(* _research_profile_overrides: three profiles may take the time based     *)
(* exit, and another model if it is tunable; the others have their own.    *)
ModelAllowed(request) ==
  LET strategy == Strategies[request.profile]
  IN  \/ request.model = strategy.model
      \/ strategy.research /\ (request.model = "TIME" \/ strategy.tunable)

(* run_backtest's 400s: the override is blocked, the upload unknown. *)
RefuseRun(w) ==
  /\ At(w, "REQUESTED")
  /\ ~ModelAllowed(task[w].request) \/ task[w].id \notin DOMAIN contents
  /\ Done(w)
  /\ UNCHANGED <<uploads, contents, runs, page, result>>

(* run_csv_backtest raises. *)
FailRun(w) ==
  /\ At(w, "REQUESTED")
  /\ ModelAllowed(task[w].request)
  /\ task[w].id \in DOMAIN contents
  /\ contents[task[w].id] \notin Simulable
  /\ Done(w)
  /\ UNCHANGED <<uploads, contents, runs, page, result>>

(* The funnel a run really uses, with the model it was given: a run that   *)
(* is closed by time is simulated with the profile's own.                  *)
FunnelOf(request) ==
  LET strategy == Strategies[request.profile]
      model    == IF request.model = "TIME" THEN strategy.model ELSE request.model
  IN  [strategy.funnel EXCEPT !.legTarget = (model = "LEG")]

ReportFor(f, request) == ReportOf(View(FunnelOf(request), Loaded[f]), request.profile)

Allowed == {request \in Requests : ModelAllowed(request)}

Reports == [f \in Simulable |-> [request \in Allowed |-> ReportFor(f, request)]]

(* The risk of a trade is divided by its stop distance as a Decimal, here  *)
(* as a whole number.                                                      *)
ASSUME ExactSizes ==
  \A f \in Simulable, request \in Allowed :
    \A row \in Range(Reports[f][request].rows) :
      FixedRisk % StopDistance(row.kind, row.price, row.stop) = 0

AsRun(report) == [report |-> report, plain |-> report]

(* The description that is stored by now is kept, and the content, written *)
(* to a file of the run's own, simulated.                                  *)
SimulateUpload(w) ==
  /\ At(w, "REQUESTED")
  /\ ModelAllowed(task[w].request)
  /\ task[w].id \in DOMAIN contents
  /\ contents[task[w].id] \in Simulable
  /\ task' = [task EXCEPT
       ![w].step = IF task[w].request.model = "TIME" THEN "SIMULATED" ELSE "CLOSED",
       ![w].read = contents[task[w].id], ![w].meta = uploads[task[w].id],
       ![w].id   = IF task[w].request.model = "TIME" THEN task[w].id ELSE None]
  /\ result' = [result EXCEPT ![w] = AsRun(Reports[contents[task[w].id]][task[w].request])]
  /\ UNCHANGED <<uploads, contents, runs, page>>

(* The time based exit parses the upload again, not the run's file. *)
CloseByTime(w) ==
  /\ At(w, "SIMULATED")
  /\ task' = [task EXCEPT ![w].step = "CLOSED", ![w].again = contents[task[w].id],
                          ![w].id = None]
  /\ result' = [result EXCEPT ![w].report =
                  WithTimeExit(@, Loaded[contents[task[w].id]], task[w].request.minutes)]
  /\ UNCHANGED <<uploads, contents, runs, page>>

LockHolds(w) ==
  LET profile == task[w].request.profile
  IN  ProfileLockHolds(profile, profile, result[w].report.rows)

(* run_id: one more than the runs there are. *)
NumberRun(w) ==
  /\ At(w, "CLOSED")
  /\ LockHolds(w)
  /\ task' = [task EXCEPT ![w].step = "TITLED",
                          ![w].number = Cardinality(DOMAIN runs) + 1]
  /\ UNCHANGED <<uploads, contents, runs, page, result>>

(* The threads other than w that hold the same number: an auxiliary record *)
(* of whom a stored run may still lose its place to.                       *)
Rivals(w) ==
  {u \in Workers \ {w} : At(u, "TITLED") /\ task[u].number = task[w].number}

AsStored(w) ==
  [file |-> task[w].file, label |-> task[w].label, shown |-> task[w].shown,
   server |-> task[w].server, read |-> task[w].read, again |-> task[w].again,
   meta |-> task[w].meta, request |-> task[w].request,
   result |-> result[w], rivals |-> Rivals(w)]

(* Mutant: the list of the runs is capped. *)
StoreRunCapped(w) ==
  /\ At(w, "TITLED")
  /\ runs' = Put(<<>>, task[w].number, AsStored(w))
  /\ Done(w)
  /\ result' = [result EXCEPT ![w] = None]
  /\ UNCHANGED <<uploads, contents, page>>

StoreRun(w) ==
  /\ At(w, "TITLED")
  /\ runs' = Put(runs, task[w].number, AsStored(w))
  /\ Done(w)
  /\ result' = [result EXCEPT ![w] = None]
  /\ UNCHANGED <<uploads, contents, page>>

-----------------------------------------------------------------------------
(* The server stops and starts: its requests fail at the pages. *)
Interrupted(p) ==
  IF page[p].id = None THEN Blank
  ELSE [page[p] EXCEPT !.uploading = None, !.server = "RESTARTED"]

Restart ==
  /\ uploads' = <<>> /\ contents' = <<>> /\ runs' = <<>>
  /\ task' = [w \in Workers |-> Idle]
  /\ result' = [w \in Workers |-> None]
  /\ page' = [p \in Pages |-> Interrupted(p)]

Step(w) ==
  \/ \E p \in Pages, f \in Files, name \in Names, typed \in Typed :
       ChooseFile(w, p, f, name, typed)
  \/ \E p \in Pages, request \in Requests : ClickRun(w, p, request)
  \/ RefuseUpload(w) \/ NumberUpload(w) \/ DescribeUpload(w) \/ KeepContent(w)
  \/ AnswerUpload(w)
  \/ RefuseRun(w) \/ FailRun(w) \/ SimulateUpload(w) \/ CloseByTime(w)
  \/ NumberRun(w) \/ StoreRun(w)

Next == \/ \E w \in Workers : Step(w)
        \/ \E p \in Pages : GiveUpUpload(p)
        \/ Restart

Spec == Init /\ [][Next]_vars

-----------------------------------------------------------------------------
(* Properties. *)

Ids == Nat \X Files

Servers == {"SAME", "RESTARTED"}

Descriptions == [file : Files, label : Labels, rivals : SUBSET Workers]

TaskType ==
  [step : Steps, page : Pages \union {None}, file : Files \union {None},
   label : Labels \union {None}, id : Ids \union {None},
   shown : Descriptions \union {None}, server : Servers, request : Requests \union {None},
   read : Files \union {None}, again : Files \union {None},
   meta : Descriptions \union {None}, number : Nat]

UploadType ==
  /\ DOMAIN uploads \subseteq Ids /\ DOMAIN contents \subseteq DOMAIN uploads
  /\ \A id \in DOMAIN uploads : uploads[id] \in Descriptions
  /\ \A id \in DOMAIN contents : contents[id] \in Files

RunType ==
  /\ DOMAIN runs \subseteq Nat
  /\ \A n \in DOMAIN runs :
       runs[n].file \in Files /\ runs[n].request \in Allowed /\ runs[n].rivals \subseteq Workers

ThreadType == task \in [Workers -> TaskType] /\ DOMAIN result = Workers

Reading ==
  \A w \in Workers : task[w].read # None <=> task[w].step \in {"SIMULATED", "CLOSED", "TITLED"}

PageRecord ==
  [file : Files \union {None}, label : Labels \union {None}, id : Ids \union {None},
   shown : Descriptions \union {None}, uploading : Workers \union {None}, server : Servers]

PageType == page \in [Pages -> PageRecord]

(* Types; no content is kept without its description, and a run holds the  *)
(* content of its upload exactly from the moment it has read it.           *)
TypeOK == UploadType /\ RunType /\ ThreadType /\ Reading /\ PageType

(* A run is a run of its page's upload, although ids are numbered from     *)
(* the size of a dictionary that concurrent uploads and a restart make     *)
(* repeat itself, and name a content, not an upload.  What it simulated,   *)
(* what it looked its time based exits up in, and the hash and times in    *)
(* its report are always those of the content that was uploaded.  The name *)
(* and the symbol in its report are those the user uploaded it under and   *)
(* the page showed, unless the server was restarted since, or another      *)
(* upload in progress held the same id when the description was written    *)
(* (upload_id, the entry's two writes and the look-ups in run_backtest).   *)
RunsOnItsUpload ==
  \A n \in DOMAIN runs :
    LET run == runs[n]
    IN  /\ run.read = run.file /\ run.meta.file = run.file /\ run.shown.file = run.file
        /\ run.again = IF run.request.model = "TIME" THEN run.file ELSE None
        /\ run.server = "SAME" /\ run.shown.rivals = {} =>
             run.meta = run.shown /\ run.shown.label = run.label

(* A stored run is only ever overwritten by one that was numbered beside   *)
(* it, before it was stored: runs one after the other all stay in the list *)
(* (run_id = len(backtest_runs) + 1, taken before the report is stored).   *)
OnlyRacingRunsCollide ==
  \A w \in Workers :
    At(w, "TITLED") /\ task[w].number \in DOMAIN runs => w \in runs[task[w].number].rivals

(* The closed trades entered up to a row, and what some rows have brought. *)
ClosedUpTo(rows, i) ==
  {j \in DOMAIN rows :
     /\ Closed(rows[j])
     /\ \/ rows[j].entry < rows[i].entry
        \/ rows[j].entry = rows[i].entry /\ j <= i}

SumOver(rows, places) ==
  Totals([j \in DOMAIN rows |-> IF j \in places THEN rows[j].pnl ELSE 0])[Len(rows)]

(* The account of a report adds up: the final balance is the last point of *)
(* the equity curve; where no time based exit came after, the balance that *)
(* is shown with a trade is that of all trades entered up to it, of both   *)
(* directions, and the drawdown is the deepest fall of the curve (run's    *)
(* merge of both directions, _apply_balances, _performance_summary,        *)
(* _max_drawdown, _equity_curve_from_trades).                              *)
ReportAdds ==
  \A n \in DOMAIN runs :
    LET report == runs[n].result.report
        rows   == report.rows
        curve  == EquityCurve(rows)
    IN  /\ report.performance.final = curve[Len(curve)]
        /\ runs[n].request.model # "TIME" =>
             /\ \A i \in DOMAIN rows :
                  report.balances[i] = StartingBalance + SumOver(rows, ClosedUpTo(rows, i))
             /\ report.drawdown
                  = Max(UNION {{curve[i] - curve[j] : i \in 1 .. j} : j \in DOMAIN curve})

(* A time based exit tells the same story as the take profit run it was    *)
(* laid over: a trade stopped before it is due loses its risk and, in the  *)
(* run, was stopped in the same minute or had won before; one closed in    *)
(* time, or left without a candle, was not stopped before in the run       *)
(* either (_time_exit_trade against _simulate_bearish_trade and its        *)
(* mirror).                                                                *)
TimeExitAgrees ==
  \A n \in DOMAIN runs :
    LET run  == runs[n]
        was  == run.result.plain.rows
        is   == run.result.report.rows
        Agrees(i) ==
          LET due == was[i].entry + run.request.minutes
          IN  CASE is[i].reason = "PROTECTIVE_SL" ->
                     /\ was[i].entry < is[i].exit /\ is[i].exit < due
                     /\ is[i].outcome = "LOSS" /\ is[i].pnl = -FixedRisk
                     /\ \/ was[i].outcome = "LOSS" /\ was[i].exit = is[i].exit
                        \/ was[i].outcome = "WIN" /\ was[i].exit < is[i].exit
                [] is[i].reason = "TIME_BASED_EXIT" ->
                     /\ is[i].exit >= due
                     /\ was[i].outcome = "LOSS" => was[i].exit >= due
                [] is[i].reason = "DATA_UNAVAILABLE" -> was[i].outcome # "LOSS"
    IN  run.request.model = "TIME" =>
          Len(is) = Len(was) /\ \A i \in DOMAIN is : Agrees(i)

(* The rows at some of the places of a list, in its order. *)
Selected(rows, places) ==
  LET chosen == InOrder(places, {pair \in places \X places : pair[1] < pair[2]})
  IN  [i \in DOMAIN chosen |-> rows[chosen[i]]]

(* Where a report has the bearish trades that the older simulator can      *)
(* express: it enters at the open after the signal, and not where the      *)
(* signal's minute has been at the target already.                         *)
Expressible(rows, m) ==
  {i \in DOMAIN rows :
     /\ rows[i].kind = "HIGH" /\ m[rows[i].entry].l > rows[i].target
     /\ rows[i].entry + 1 \in DOMAIN m /\ m[rows[i].entry + 1].o = rows[i].price}

SameTrade(row, trade) ==
  /\ trade.price = row.price /\ trade.exit = row.exit + 1
  /\ trade.exitPrice = row.exitPrice /\ trade.gross = row.pnl
  /\ trade.reason = CASE row.outcome = "LOSS" -> "STOP_LOSS"
                       [] row.outcome = "WIN" -> "TAKE_PROFIT"
                       [] OTHER -> "END_OF_DATA"

SameTrades(rows, trades) ==
  LET account == EngineMetrics(trades)
      fees    == Totals([i \in DOMAIN rows |->
                           Fees(rows[i].price, rows[i].exitPrice, rows[i].size)])[Len(rows)]
  IN  /\ \A i \in DOMAIN rows : SameTrade(rows[i], trades[i])
      /\ account.wins = CountOf(rows, {"WIN"}) /\ account.losses = CountOf(rows, {"LOSS"})
      /\ account.ending
           = StartingBalance + Net(rows, {"WIN", "LOSS", "OPEN_OR_UNRESOLVED"}) - fees

Signals(rows) == [i \in DOMAIN rows |-> [at |-> rows[i].entry, stop |-> rows[i].stop]]

AgreesWithOlder(rows, m) ==
  SameTrades(rows, EngineTrades(Signals(rows), m, "CONSERVATIVE_STOP_FIRST"))

Comparisons ==
  [f \in Simulable |-> [profile \in DOMAIN Strategies |->
     ComparisonRow(Strategies[profile].funnel, profile, Loaded[f]).account]]

(* The program decides a bearish trade in three places.  They agree on     *)
(* every trade all can express: the older simulator has the same entry,    *)
(* minute and price of the exit and result, as many wins and losses, and   *)
(* the same account but for its fees (simulate_trade and run_backtest of   *)
(* the engine against _simulate_bearish_trade and run); the comparison of  *)
(* the profiles has the bearish trades of a run of a profile that links no *)
(* gaps, with its own model (run_research_comparison).                     *)
SimulatorsAgree ==
  \A n \in DOMAIN runs :
    LET run  == runs[n]
        rows == run.result.report.rows
        m    == Loaded[run.read]
    IN  /\ run.request.model = "RR" =>
             AgreesWithOlder(Selected(rows, Expressible(rows, m)), m)
        /\ LET strategy == Strategies[run.request.profile]
           IN  run.request.model = strategy.model /\ ~strategy.funnel.linked =>
             Comparisons[run.read][run.request.profile]
               = Account(Selected(rows, {i \in DOMAIN rows : rows[i].kind = "HIGH"}))
=============================================================================
