--------------------------- MODULE Backtests_proofs ---------------------------
(* Theorems about Backtests and their proofs.                              *)
EXTENDS Backtests, StrategyFunnel_proofs, FiniteSetTheorems, TLAPS

(* The numbers of the runs are those from 1 on, whatever collides.         *)
Sizes ==
  /\ IsFiniteSet(DOMAIN uploads)
  /\ \E k \in Nat : DOMAIN runs = 1 .. k

LEMMA Counting ==
  ASSUME Sizes
  PROVE  /\ Cardinality(DOMAIN uploads) \in Nat /\ Cardinality(DOMAIN runs) \in Nat
         /\ DOMAIN runs = 1 .. Cardinality(DOMAIN runs)
<1>1. PICK k \in Nat : DOMAIN runs = 1 .. k
  BY DEF Sizes
<1>2. Cardinality(DOMAIN runs) = k
  BY <1>1, FS_Interval, SMT
<1> QED
  BY <1>1, <1>2, FS_CardinalityType DEF Sizes

(* An id carries the content it was made for, through every step of an     *)
(* upload and of a run.                                                    *)
UploadSteps == {"UPLOADED", "NUMBERED", "DESCRIBED", "KEPT"}
ReadSteps   == {"SIMULATED", "CLOSED", "TITLED"}

TaskFile ==
  \A w \in Workers :
    /\ At(w, "IDLE") \/ (task[w].file \in Files /\ task[w].label \in Labels)
    /\ task[w].step \in UploadSteps => task[w].page \in Pages

TaskId ==
  \A w \in Workers :
    task[w].step \in {"NUMBERED", "DESCRIBED", "KEPT", "REQUESTED", "SIMULATED"} =>
      task[w].id \in Ids /\ task[w].id[2] = task[w].file

TaskKept ==
  \A w \in Workers :
    /\ task[w].step \in {"DESCRIBED", "KEPT"} => task[w].id \in DOMAIN uploads
    /\ At(w, "SIMULATED") => task[w].id \in DOMAIN contents

TaskRequest ==
  \A w \in Workers :
    /\ At(w, "REQUESTED") => task[w].request \in Requests
    /\ At(w, "SIMULATED") => task[w].request.model = "TIME"
    /\ task[w].step \in ReadSteps => task[w].request \in Allowed

TaskRead ==
  \A w \in Workers :
    /\ task[w].step \in ReadSteps =>
         task[w].read = task[w].file /\ task[w].meta.file = task[w].file
    /\ task[w].step \in {"CLOSED", "TITLED"} =>
         task[w].again = IF task[w].request.model = "TIME" THEN task[w].file ELSE None
    /\ task[w].step \notin {"CLOSED", "TITLED"} => task[w].again = None

(* A description that was shown without rivals, and whose server was not   *)
(* restarted since, is the uploader's own and is still the one stored; a   *)
(* run that has read the stored one has read it.                           *)
Stands(t, stored) ==
  t.server # "SAME" \/ t.shown.rivals # {} \/ (t.shown.label = t.label /\ stored = t.shown)

TaskShown ==
  \A w \in Workers :
    /\ task[w].step \in {"REQUESTED"} \union ReadSteps => task[w].shown.file = task[w].file
    /\ At(w, "REQUESTED") /\ task[w].server = "SAME" => task[w].id \in DOMAIN uploads
    /\ At(w, "REQUESTED") => Stands(task[w], uploads[task[w].id])
    /\ task[w].step \in ReadSteps => Stands(task[w], task[w].meta)

TaskInv == TaskFile /\ TaskId /\ TaskKept /\ TaskRequest /\ TaskRead /\ TaskShown

PageInv ==
  \A p \in Pages : page[p].id # None =>
    /\ page[p].id \in Ids /\ page[p].id[2] = page[p].file
    /\ page[p].label \in Labels /\ page[p].shown.file = page[p].file

PageShown ==
  \A p \in Pages : page[p].id # None =>
    /\ page[p].server = "SAME" => page[p].id \in DOMAIN uploads
    /\ Stands(page[p], uploads[page[p].id])

StoreInv ==
  /\ \A id \in DOMAIN uploads : uploads[id].file = id[2]
  /\ \A id \in DOMAIN contents : contents[id] = id[2]

(* An id is given out again only while no upload has been described under  *)
(* it: who may still write there stands among the rivals of what is        *)
(* written, and so does an upload in progress that has been overwritten.   *)
IdInv ==
  /\ \A id \in DOMAIN uploads : id[1] \in 1 .. Cardinality(DOMAIN uploads)
  /\ \A w \in Workers :
       /\ At(w, "NUMBERED") =>
            /\ task[w].id[1] \in 1 .. Cardinality(DOMAIN uploads) + 1
            /\ task[w].id \in DOMAIN uploads => w \in uploads[task[w].id].rivals
       /\ task[w].step \in {"DESCRIBED", "KEPT"} =>
            \/ uploads[task[w].id].label = task[w].label
            \/ w \in uploads[task[w].id].rivals

NumberInv ==
  \A w \in Workers :
    At(w, "TITLED") =>
      /\ task[w].number \in 1 .. Cardinality(DOMAIN runs) + 1
      /\ task[w].number \in DOMAIN runs => w \in runs[task[w].number].rivals

-----------------------------------------------------------------------------
(* What each step does to the thread that takes it. *)
Others(w) == \A u \in Workers : u # w => task'[u] = task[u]

SameUpload(w) ==
  /\ task'[w].page = task[w].page /\ task'[w].file = task[w].file
  /\ task'[w].label = task[w].label /\ task'[w].again = task[w].again

SameRun(w) ==
  /\ task'[w].file = task[w].file /\ task'[w].label = task[w].label
  /\ task'[w].shown = task[w].shown /\ task'[w].server = task[w].server
  /\ task'[w].request = task[w].request

LEMMA SymbolDetected ==
  ASSUME NEW f \in Files, NEW name \in Names, NEW typed \in Typed
  PROVE  DetectedSymbol(Csvs[f], Named[name], typed) \in Symbols \union {Unknown}
BY FilesAssumption DEF DetectedSymbol

LEMMA ChooseStep ==
  ASSUME ThreadType, PageType, NEW w \in Workers, NEW p \in Pages, NEW f \in Files,
         NEW name \in Names, NEW typed \in Typed, ChooseFile(w, p, f, name, typed)
  PROVE  /\ Others(w) /\ task' \in [Workers -> TaskType]
         /\ task'[w].step = "UPLOADED" /\ task'[w].page = p /\ task'[w].file = f
         /\ task'[w].label \in Labels /\ task'[w].again = None /\ task'[w].read = None
         /\ page' \in [Pages -> PageRecord] /\ page'[p].id = None
         /\ \A q \in Pages : q # p => page'[q] = page[q]
         /\ UNCHANGED <<uploads, contents, runs, result>>
<1>1. PICK label : label = [name |-> name,
                           symbol |-> DetectedSymbol(Csvs[f], Named[name], typed)]
  OBVIOUS
<1>2. label \in Labels
  BY <1>1, SymbolDetected DEF Labels
<1>3. PICK t : t = Upload(p, f, label)
  OBVIOUS
<1>4. /\ t \in TaskType /\ t.step = "UPLOADED" /\ t.page = p /\ t.file = f
      /\ t.label = label /\ t.again = None /\ t.read = None
  BY <1>2, <1>3 DEF Upload, Idle, TaskType, Steps, Servers
<1>5. task' = [task EXCEPT ![w] = t]
  BY <1>1, <1>3 DEF ChooseFile
<1>6. PICK r : r = [Blank EXCEPT !.uploading = w]
  OBVIOUS
<1>7. r \in PageRecord /\ r.id = None
  BY <1>6 DEF Blank, PageRecord, Servers
<1>8. page' = [page EXCEPT ![p] = r] /\ UNCHANGED <<uploads, contents, runs, result>>
  BY <1>6 DEF ChooseFile
<1> QED
  BY <1>2, <1>4, <1>5, <1>7, <1>8 DEF Others, ThreadType, PageType, PageRecord

LEMMA ClickStep ==
  ASSUME ThreadType, PageType, NEW w \in Workers, NEW p \in Pages, NEW request \in Requests,
         ClickRun(w, p, request)
  PROVE  /\ Others(w) /\ task' \in [Workers -> TaskType] /\ page[p].id # None
         /\ task'[w].step = "REQUESTED" /\ task'[w].file = page[p].file
         /\ task'[w].label = page[p].label /\ task'[w].id = page[p].id
         /\ task'[w].shown = page[p].shown /\ task'[w].server = page[p].server
         /\ task'[w].request = request /\ task'[w].again = None /\ task'[w].read = None
         /\ UNCHANGED <<uploads, contents, runs, page, result>>
<1>1. PICK t : t = Run(p, request)
  OBVIOUS
<1>2. PICK r \in PageRecord : r = page[p]
  BY DEF PageType
<1>3. /\ t.step = "REQUESTED" /\ t.file = r.file /\ t.label = r.label
      /\ t.id = r.id /\ t.shown = r.shown /\ t.server = r.server /\ t.request = request
      /\ t.again = None /\ t.read = None
  BY <1>1, <1>2 DEF Run, Idle
<1>5. t \in TaskType
  <2>1. t = [step |-> "REQUESTED", page |-> None, file |-> r.file, label |-> r.label,
             id |-> r.id, shown |-> r.shown, server |-> r.server, request |-> request,
             read |-> None, again |-> None, meta |-> None, number |-> 0]
    BY <1>1, <1>2 DEF Run, Idle
  <2>2. "REQUESTED" \in Steps
    BY DEF Steps
  <2> QED
    BY <2>1, <2>2, <1>2 DEF TaskType, PageRecord
<1>4. task' = [task EXCEPT ![w] = t] /\ page[p].id # None
  BY <1>1 DEF ClickRun
<1> QED
  BY <1>2, <1>3, <1>4, <1>5 DEF Others, ThreadType, ClickRun

LEMMA NumberStep ==
  ASSUME ThreadType, Sizes, TaskFile, NEW w \in Workers, NumberUpload(w)
  PROVE  /\ Others(w) /\ task' \in [Workers -> TaskType] /\ SameUpload(w)
         /\ At(w, "UPLOADED") /\ task'[w].step = "NUMBERED" /\ task'[w].read = task[w].read
         /\ task'[w].id = <<Cardinality(DOMAIN uploads) + 1, task[w].file>>
         /\ task'[w].id \in Ids
         /\ UNCHANGED <<uploads, contents, runs, page, result>>
<1>1. PICK t \in TaskType : t = task[w]
  BY DEF ThreadType
<1>2. PICK id : id = <<Cardinality(DOMAIN uploads) + 1, t.file>>
  OBVIOUS
<1>3. id \in Ids
  BY <1>1, <1>2, Counting DEF NumberUpload, At, TaskFile, Ids
<1>4. PICK moved : moved = [t EXCEPT !.step = "NUMBERED", !.id = id]
  OBVIOUS
<1>5. /\ moved \in TaskType /\ moved.step = "NUMBERED" /\ moved.id = id
      /\ moved.page = t.page /\ moved.file = t.file /\ moved.label = t.label
      /\ moved.again = t.again /\ moved.read = t.read
  BY <1>3, <1>4 DEF TaskType, Steps
<1>6. task' = [task EXCEPT ![w] = moved]
  BY <1>1, <1>2, <1>4 DEF NumberUpload, ThreadType
<1> QED
  BY <1>1, <1>2, <1>3, <1>5, <1>6 DEF Others, SameUpload, ThreadType, NumberUpload

(* Goto *)
LEMMA GotoStep ==
  ASSUME ThreadType, NEW w \in Workers, NEW step \in Steps, Goto(w, step)
  PROVE  /\ Others(w) /\ task' \in [Workers -> TaskType] /\ SameUpload(w)
         /\ task'[w].step = step /\ task'[w].read = task[w].read /\ task'[w].id = task[w].id
<1>1. PICK t \in TaskType : t = task[w]
  BY DEF ThreadType
<1>2. PICK moved : moved = [t EXCEPT !.step = step]
  OBVIOUS
<1>3. /\ moved \in TaskType /\ moved.step = step /\ moved.id = t.id
      /\ moved.page = t.page /\ moved.file = t.file /\ moved.label = t.label
      /\ moved.again = t.again /\ moved.read = t.read
  BY <1>2 DEF TaskType
<1>4. task' = [task EXCEPT ![w] = moved]
  BY <1>1, <1>2 DEF Goto, ThreadType
<1> QED
  BY <1>1, <1>3, <1>4 DEF Others, SameUpload, ThreadType

(* Done *)
LEMMA DoneStep ==
  ASSUME ThreadType, NEW w \in Workers, Done(w)
  PROVE  /\ Others(w) /\ task' \in [Workers -> TaskType]
         /\ task'[w].step = "IDLE" /\ task'[w].again = None /\ task'[w].read = None
<1>1. Idle \in TaskType /\ Idle.step = "IDLE" /\ Idle.again = None /\ Idle.read = None
  BY DEF Idle, TaskType, Steps, Servers
<1> QED
  BY <1>1 DEF Done, Others, ThreadType

LEMMA AnswerStep ==
  ASSUME ThreadType, UploadType, PageType, TaskFile, TaskKept, NEW w \in Workers, AnswerUpload(w),
         NEW p \in Pages, page'[p] # page[p]
  PROVE  /\ page'[p].id = task[w].id /\ page'[p].file = task[w].file
         /\ page'[p].label = task[w].label /\ page'[p].shown = uploads[task[w].id]
         /\ page'[p].server = "SAME"
<1>1. PICK r : r = [Blank EXCEPT !.file = task[w].file, !.label = task[w].label,
                                 !.id = task[w].id, !.shown = uploads[task[w].id]]
  OBVIOUS
<1>2. /\ r.id = task[w].id /\ r.file = task[w].file /\ r.label = task[w].label
      /\ r.shown = uploads[task[w].id] /\ r.server = "SAME"
  BY <1>1 DEF Blank
<1>3. page'[p] = r
  BY <1>1 DEF AnswerUpload, Settle, PageType
<1> QED
  BY <1>2, <1>3

LEMMA SimulateStep ==
  ASSUME ThreadType, UploadType, NEW w \in Workers, SimulateUpload(w)
  PROVE  /\ Others(w) /\ task' \in [Workers -> TaskType] /\ SameRun(w)
         /\ At(w, "REQUESTED") /\ task'[w].again = task[w].again
         /\ task'[w].step = IF task[w].request.model = "TIME" THEN "SIMULATED" ELSE "CLOSED"
         /\ task'[w].read = contents[task[w].id] /\ task'[w].meta = uploads[task[w].id]
         /\ task[w].request.model = "TIME" => task'[w].id = task[w].id
         /\ task[w].id \in DOMAIN contents /\ task[w].id \in DOMAIN uploads
         /\ UNCHANGED <<uploads, contents, runs, page>>
<1>1. PICK t \in TaskType : t = task[w]
  BY DEF ThreadType
<1>2. PICK f \in Files, d \in Descriptions : f = contents[t.id] /\ d = uploads[t.id]
  BY <1>1 DEF SimulateUpload, UploadType
<1>3. PICK step \in Steps, id \in Ids \union {None} :
        /\ step = IF t.request.model = "TIME" THEN "SIMULATED" ELSE "CLOSED"
        /\ id = IF t.request.model = "TIME" THEN t.id ELSE None
  BY DEF TaskType, Steps
<1>4. PICK moved : moved = [t EXCEPT !.step = step, !.read = f, !.meta = d, !.id = id]
  OBVIOUS
<1>5. /\ moved \in TaskType /\ moved.step = step /\ moved.read = f /\ moved.meta = d
      /\ moved.id = id /\ moved.file = t.file /\ moved.label = t.label
      /\ moved.shown = t.shown /\ moved.server = t.server /\ moved.request = t.request
      /\ moved.again = t.again
  BY <1>4 DEF TaskType
<1>6. task' = [task EXCEPT ![w] = moved]
  BY <1>1, <1>2, <1>3, <1>4 DEF SimulateUpload, ThreadType
<1>7. /\ At(w, "REQUESTED") /\ UNCHANGED <<uploads, contents, runs, page>>
      /\ t.id \in DOMAIN contents /\ t.id \in DOMAIN uploads
  BY <1>1 DEF SimulateUpload, UploadType
<1>8. Others(w) /\ task' \in [Workers -> TaskType] /\ task'[w] = moved
  BY <1>5, <1>6 DEF Others, ThreadType
<1> QED
  BY <1>1, <1>2, <1>3, <1>5, <1>7, <1>8 DEF SameRun

LEMMA CloseStep ==
  ASSUME ThreadType, UploadType, TaskKept, NEW w \in Workers, CloseByTime(w)
  PROVE  /\ Others(w) /\ task' \in [Workers -> TaskType] /\ SameRun(w)
         /\ At(w, "SIMULATED") /\ task'[w].step = "CLOSED"
         /\ task'[w].again = contents[task[w].id]
         /\ task'[w].read = task[w].read /\ task'[w].meta = task[w].meta
         /\ UNCHANGED <<uploads, contents, runs, page>>
<1>1. PICK t \in TaskType : t = task[w]
  BY DEF ThreadType
<1>2. PICK f \in Files : f = contents[t.id]
  BY <1>1 DEF CloseByTime, TaskKept, UploadType
<1>3. PICK moved : moved = [t EXCEPT !.step = "CLOSED", !.again = f, !.id = None]
  OBVIOUS
<1>4. /\ moved \in TaskType /\ moved.step = "CLOSED" /\ moved.again = f
      /\ moved.file = t.file /\ moved.label = t.label /\ moved.shown = t.shown
      /\ moved.server = t.server /\ moved.request = t.request /\ moved.read = t.read
      /\ moved.meta = t.meta
  BY <1>3 DEF TaskType, Steps
<1>5. task' = [task EXCEPT ![w] = moved]
  BY <1>1, <1>2, <1>3 DEF CloseByTime, ThreadType
<1> QED
  BY <1>1, <1>2, <1>4, <1>5 DEF Others, SameRun, ThreadType, CloseByTime

LEMMA TitleStep ==
  ASSUME ThreadType, Sizes, NEW w \in Workers, NumberRun(w)
  PROVE  /\ Others(w) /\ task' \in [Workers -> TaskType] /\ SameRun(w)
         /\ At(w, "CLOSED") /\ task'[w].step = "TITLED"
         /\ task'[w].number = Cardinality(DOMAIN runs) + 1 /\ task'[w].again = task[w].again
         /\ task'[w].read = task[w].read /\ task'[w].meta = task[w].meta
         /\ UNCHANGED <<uploads, contents, runs, page, result>>
<1>1. PICK t \in TaskType : t = task[w]
  BY DEF ThreadType
<1>2. PICK n \in Nat : n = Cardinality(DOMAIN runs) + 1
  BY Counting
<1>3. PICK moved : moved = [t EXCEPT !.step = "TITLED", !.number = n]
  OBVIOUS
<1>4. /\ moved.step = "TITLED" /\ moved.number = n
      /\ moved.file = t.file /\ moved.label = t.label /\ moved.shown = t.shown
      /\ moved.server = t.server /\ moved.request = t.request /\ moved.read = t.read
      /\ moved.meta = t.meta /\ moved.again = t.again
  BY <1>3 DEF TaskType
<1>7. moved \in TaskType
  <2>1. "TITLED" \in Steps
    BY DEF Steps
  <2>2. moved = [step |-> "TITLED", page |-> t.page, file |-> t.file, label |-> t.label,
                 id |-> t.id, shown |-> t.shown, server |-> t.server,
                 request |-> t.request, read |-> t.read, again |-> t.again,
                 meta |-> t.meta, number |-> n]
    BY <1>3 DEF TaskType
  <2> QED
    BY <1>2, <2>1, <2>2 DEF TaskType
<1>5. task' = [task EXCEPT ![w] = moved]
  BY <1>1, <1>2, <1>3 DEF NumberRun, ThreadType
<1> QED
  BY <1>1, <1>2, <1>4, <1>5, <1>7 DEF Others, SameRun, ThreadType, NumberRun

LEMMA RestartStep ==
  ASSUME PageType, Restart
  PROVE  /\ DOMAIN uploads' = {} /\ DOMAIN contents' = {} /\ DOMAIN runs' = {}
         /\ task' \in [Workers -> TaskType] /\ result' = [w \in Workers |-> None]
         /\ \A w \in Workers : /\ task'[w].step = "IDLE" /\ task'[w].again = None
                                /\ task'[w].read = None
         /\ page' \in [Pages -> PageRecord]
         /\ \A p \in Pages :
              /\ page'[p].id = page[p].id
              /\ page[p].id # None =>
                   /\ page'[p].file = page[p].file /\ page'[p].label = page[p].label
                   /\ page'[p].shown = page[p].shown /\ page'[p].server = "RESTARTED"
<1>1. Idle \in TaskType /\ Idle.step = "IDLE" /\ Idle.again = None /\ Idle.read = None
  BY DEF Idle, TaskType, Steps, Servers
<1>2. ASSUME NEW p \in Pages
      PROVE  /\ Interrupted(p) \in PageRecord
             /\ Interrupted(p).id = page[p].id
             /\ page[p].id # None =>
                  /\ Interrupted(p).file = page[p].file /\ Interrupted(p).label = page[p].label
                  /\ Interrupted(p).shown = page[p].shown
                  /\ Interrupted(p).server = "RESTARTED"
  <2>1. PICK r \in PageRecord : r = page[p]
    BY DEF PageType
  <2>2. PICK s : s = [r EXCEPT !.uploading = None, !.server = "RESTARTED"]
    OBVIOUS
  <2>3. /\ s \in PageRecord /\ s.id = r.id /\ s.file = r.file /\ s.label = r.label
        /\ s.shown = r.shown /\ s.server = "RESTARTED"
    BY <2>2 DEF PageRecord, Servers
  <2>4. CASE page[p].id # None
    <3>1. Interrupted(p) = s
      BY <2>1, <2>2, <2>4 DEF Interrupted
    <3> QED
      BY <2>1, <2>3, <3>1
  <2>5. CASE page[p].id = None
    <3>1. Interrupted(p) = Blank
      BY <2>5 DEF Interrupted
    <3>2. Blank \in PageRecord /\ Blank.id = None
      BY DEF Blank, PageRecord, Servers
    <3> QED
      BY <2>5, <3>1, <3>2
  <2> QED
    BY <2>4, <2>5
<1>3. /\ DOMAIN uploads' = {} /\ DOMAIN contents' = {} /\ DOMAIN runs' = {}
      /\ task' = [w \in Workers |-> Idle] /\ result' = [w \in Workers |-> None]
      /\ page' = [p \in Pages |-> Interrupted(p)]
  BY DEF Restart
<1> QED
  BY <1>1, <1>2, <1>3

-----------------------------------------------------------------------------
LEMMA NextSizes ==
  ASSUME Sizes, NumberInv, [Next]_vars
  PROVE  Sizes'
<1> USE DEF Sizes
<1>1. ASSUME NEW w \in Workers, NEW p \in Pages, NEW f \in Files,
             NEW name \in Names, NEW typed \in Typed, ChooseFile(w, p, f, name, typed)
      PROVE Sizes'
  BY <1>1 DEF ChooseFile, Upload, At, Idle, Blank
<1>2. ASSUME NEW w \in Workers, NEW p \in Pages, NEW request \in Requests, ClickRun(w, p, request)
      PROVE Sizes'
  BY <1>2 DEF ClickRun, Run, At, Idle
<1>3. ASSUME NEW w \in Workers, RefuseUpload(w) PROVE Sizes'
  BY <1>3 DEF RefuseUpload, Settle, Blank, At, Done, Idle
<1>4. ASSUME NEW w \in Workers, NumberUpload(w) PROVE Sizes'
  BY <1>4 DEF NumberUpload, At
<1>5. ASSUME NEW w \in Workers, DescribeUpload(w) PROVE Sizes'
  <2>1. IsFiniteSet(DOMAIN uploads \cup {task[w].id})
    BY FS_AddElement
  <2> QED
    BY <1>5, <2>1 DEF DescribeUpload, At, Goto, Put
<1>6. ASSUME NEW w \in Workers, KeepContent(w) PROVE Sizes'
  BY <1>6 DEF KeepContent, Goto, At, Put
<1>7. ASSUME NEW w \in Workers, RefuseRun(w) PROVE Sizes'
  BY <1>7 DEF RefuseRun, At, Done, Idle
<1>8. ASSUME NEW w \in Workers, FailRun(w) PROVE Sizes'
  BY <1>8 DEF FailRun, At, Done, Idle
<1>9. ASSUME NEW w \in Workers, SimulateUpload(w) PROVE Sizes'
  BY <1>9 DEF SimulateUpload, At
<1>10. ASSUME NEW w \in Workers, CloseByTime(w) PROVE Sizes'
  BY <1>10 DEF CloseByTime, At
<1>11. ASSUME NEW w \in Workers, NumberRun(w) PROVE Sizes'
  BY <1>11 DEF NumberRun, At
<1>12. ASSUME NEW w \in Workers, StoreRun(w) PROVE Sizes'
  <2>1. PICK k \in Nat : DOMAIN runs = 1 .. k
    OBVIOUS
  <2>2. task[w].number \in 1 .. k + 1
    BY <1>12, <2>1, Counting DEF StoreRun, At, NumberInv, Sizes
  <2>3. DOMAIN runs' = {task[w].number} \cup 1 .. k
    BY <1>12, <2>1 DEF StoreRun, Put
  <2>4. CASE task[w].number = k + 1
    BY <1>12, <2>3, <2>4, DOMAIN runs' = 1 .. k + 1 DEF StoreRun
  <2>5. CASE task[w].number \in 1 .. k
    BY <1>12, <2>3, <2>5, DOMAIN runs' = 1 .. k DEF StoreRun
  <2> QED
    BY <2>2, <2>4, <2>5
<1>13. ASSUME NEW p \in Pages, GiveUpUpload(p) PROVE Sizes'
  BY <1>13 DEF GiveUpUpload, At
<1>14. ASSUME Restart PROVE Sizes'
  <2>1. DOMAIN uploads' = {} /\ DOMAIN runs' = {}
    BY <1>14 DEF Restart
  <2>2. IsFiniteSet(DOMAIN uploads')
    BY <2>1, FS_EmptySet
  <2>3. DOMAIN runs' = 1 .. 0
    BY <2>1
  <2> QED
    BY <2>2, <2>3
<1>15. ASSUME UNCHANGED vars PROVE Sizes'
  BY <1>15 DEF vars, At
<1>16. ASSUME NEW w \in Workers, AnswerUpload(w) PROVE Sizes'
  BY <1>16 DEF AnswerUpload, Settle, Blank, At, Done, Idle
<1> QED
  BY <1>1, <1>2, <1>3, <1>4, <1>5, <1>6, <1>7, <1>8,
     <1>9, <1>10, <1>11, <1>12, <1>13, <1>14, <1>15, <1>16 DEF Next, Step

LEMMA NextUploadType ==
  ASSUME UploadType, ThreadType, TaskFile, TaskId, TaskKept, [Next]_vars
  PROVE  UploadType'
<1> USE DEF UploadType, ThreadType, TaskType, TaskFile, TaskId, TaskKept
<1>1. ASSUME NEW w \in Workers, NEW p \in Pages, NEW f \in Files,
             NEW name \in Names, NEW typed \in Typed, ChooseFile(w, p, f, name, typed)
      PROVE UploadType'
  BY <1>1 DEF ChooseFile, Upload, At, Idle, Blank
<1>2. ASSUME NEW w \in Workers, NEW p \in Pages, NEW request \in Requests, ClickRun(w, p, request)
      PROVE UploadType'
  BY <1>2 DEF ClickRun, Run, At, Idle
<1>3. ASSUME NEW w \in Workers, RefuseUpload(w) PROVE UploadType'
  BY <1>3 DEF RefuseUpload, Settle, Blank, At, Done, Idle
<1>4. ASSUME NEW w \in Workers, NumberUpload(w) PROVE UploadType'
  BY <1>4 DEF NumberUpload, At
<1>5. ASSUME NEW w \in Workers, DescribeUpload(w) PROVE UploadType'
  <2>1. task[w].file \in Files /\ task[w].label \in Labels /\ task[w].id \in Ids
    BY <1>5 DEF DescribeUpload, At
  <2>2. Description(w) \in Descriptions
    BY <2>1 DEF Description, Descriptions, Sharers
  <2>3. PICK id, d : id = task[w].id /\ d = Description(w)
    OBVIOUS
  <2>4. uploads' = Put(uploads, id, d) /\ UNCHANGED contents
    BY <1>5, <2>3 DEF DescribeUpload
  <2> HIDE DEF ThreadType, TaskType, TaskFile, TaskId, TaskKept
  <2> QED
    BY <2>1, <2>2, <2>3, <2>4 DEF Put
<1>6. ASSUME NEW w \in Workers, KeepContent(w) PROVE UploadType'
  BY <1>6 DEF KeepContent, Goto, At, Put
<1>7. ASSUME NEW w \in Workers, RefuseRun(w) PROVE UploadType'
  BY <1>7 DEF RefuseRun, At, Done, Idle
<1>8. ASSUME NEW w \in Workers, FailRun(w) PROVE UploadType'
  BY <1>8 DEF FailRun, At, Done, Idle
<1>9. ASSUME NEW w \in Workers, SimulateUpload(w) PROVE UploadType'
  BY <1>9 DEF SimulateUpload, At
<1>10. ASSUME NEW w \in Workers, CloseByTime(w) PROVE UploadType'
  BY <1>10 DEF CloseByTime, At
<1>11. ASSUME NEW w \in Workers, NumberRun(w) PROVE UploadType'
  BY <1>11 DEF NumberRun, At
<1>12. ASSUME NEW w \in Workers, StoreRun(w) PROVE UploadType'
  BY <1>12 DEF StoreRun, AsStored, Rivals, At, Done, Put, Idle
<1>13. ASSUME NEW p \in Pages, GiveUpUpload(p) PROVE UploadType'
  BY <1>13 DEF GiveUpUpload, At
<1>14. ASSUME Restart PROVE UploadType'
  BY <1>14 DEF Restart, At, Idle
<1>15. ASSUME UNCHANGED vars PROVE UploadType'
  BY <1>15 DEF vars, At
<1>16. ASSUME NEW w \in Workers, AnswerUpload(w) PROVE UploadType'
  BY <1>16 DEF AnswerUpload, Settle, Blank, At, Done, Idle
<1> QED
  BY <1>1, <1>2, <1>3, <1>4, <1>5, <1>6, <1>7, <1>8,
     <1>9, <1>10, <1>11, <1>12, <1>13, <1>14, <1>15, <1>16 DEF Next, Step

LEMMA NextRunType ==
  ASSUME RunType, ThreadType, TaskFile, TaskRequest, Sizes, [Next]_vars
  PROVE  RunType'
<1> USE DEF RunType, ThreadType, TaskType, TaskFile, TaskRequest, ReadSteps
<1>1. ASSUME NEW w \in Workers, NEW p \in Pages, NEW f \in Files,
             NEW name \in Names, NEW typed \in Typed, ChooseFile(w, p, f, name, typed)
      PROVE RunType'
  BY <1>1 DEF ChooseFile, Upload, At, Idle, Blank
<1>2. ASSUME NEW w \in Workers, NEW p \in Pages, NEW request \in Requests, ClickRun(w, p, request)
      PROVE RunType'
  BY <1>2 DEF ClickRun, Run, At, Idle
<1>3. ASSUME NEW w \in Workers, RefuseUpload(w) PROVE RunType'
  BY <1>3 DEF RefuseUpload, Settle, Blank, At, Done, Idle
<1>4. ASSUME NEW w \in Workers, NumberUpload(w) PROVE RunType'
  BY <1>4 DEF NumberUpload, At
<1>5. ASSUME NEW w \in Workers, DescribeUpload(w) PROVE RunType'
  BY <1>5 DEF DescribeUpload, Description, Goto, At, Put
<1>6. ASSUME NEW w \in Workers, KeepContent(w) PROVE RunType'
  BY <1>6 DEF KeepContent, Goto, At, Put
<1>7. ASSUME NEW w \in Workers, RefuseRun(w) PROVE RunType'
  BY <1>7 DEF RefuseRun, At, Done, Idle
<1>8. ASSUME NEW w \in Workers, FailRun(w) PROVE RunType'
  BY <1>8 DEF FailRun, At, Done, Idle
<1>9. ASSUME NEW w \in Workers, SimulateUpload(w) PROVE RunType'
  BY <1>9 DEF SimulateUpload, At
<1>10. ASSUME NEW w \in Workers, CloseByTime(w) PROVE RunType'
  BY <1>10 DEF CloseByTime, At
<1>11. ASSUME NEW w \in Workers, NumberRun(w) PROVE RunType'
  BY <1>11 DEF NumberRun, At
<1>12. ASSUME NEW w \in Workers, StoreRun(w) PROVE RunType'
  BY <1>12 DEF StoreRun, AsStored, Rivals, At, Done, Put, Idle
<1>13. ASSUME NEW p \in Pages, GiveUpUpload(p) PROVE RunType'
  BY <1>13 DEF GiveUpUpload, At
<1>14. ASSUME Restart PROVE RunType'
  BY <1>14 DEF Restart, At, Idle
<1>15. ASSUME UNCHANGED vars PROVE RunType'
  BY <1>15 DEF vars, At
<1>16. ASSUME NEW w \in Workers, AnswerUpload(w) PROVE RunType'
  BY <1>16 DEF AnswerUpload, Settle, Blank, At, Done, Idle
<1> QED
  BY <1>1, <1>2, <1>3, <1>4, <1>5, <1>6, <1>7, <1>8,
     <1>9, <1>10, <1>11, <1>12, <1>13, <1>14, <1>15, <1>16 DEF Next, Step

LEMMA NextThreadType ==
  ASSUME ThreadType, UploadType, TaskFile, TaskKept, PageType, Sizes, [Next]_vars
  PROVE  ThreadType'
<1>1. ASSUME NEW w \in Workers, NEW p \in Pages, NEW f \in Files,
             NEW name \in Names, NEW typed \in Typed, ChooseFile(w, p, f, name, typed)
      PROVE ThreadType'
  BY <1>1, ChooseStep DEF ThreadType
<1>2. ASSUME NEW w \in Workers, NEW p \in Pages, NEW request \in Requests, ClickRun(w, p, request)
      PROVE ThreadType'
  BY <1>2, ClickStep DEF ThreadType
<1>3. ASSUME NEW w \in Workers, RefuseUpload(w) PROVE ThreadType'
  <2>1. Done(w) /\ DOMAIN result' = Workers
    BY <1>3 DEF RefuseUpload, ThreadType
  <2> QED
    BY <2>1, DoneStep DEF ThreadType
<1>4. ASSUME NEW w \in Workers, NumberUpload(w) PROVE ThreadType'
  BY <1>4, NumberStep DEF ThreadType
<1>5. ASSUME NEW w \in Workers, DescribeUpload(w) PROVE ThreadType'
  <2>1. Goto(w, "DESCRIBED") /\ DOMAIN result' = Workers
    BY <1>5 DEF DescribeUpload, ThreadType
  <2> QED
    BY <2>1, GotoStep DEF ThreadType, Steps
<1>6. ASSUME NEW w \in Workers, KeepContent(w) PROVE ThreadType'
  <2>1. Goto(w, "KEPT") /\ DOMAIN result' = Workers
    BY <1>6 DEF KeepContent, ThreadType
  <2> QED
    BY <2>1, GotoStep DEF ThreadType, Steps
<1>7. ASSUME NEW w \in Workers, RefuseRun(w) PROVE ThreadType'
  <2>1. Done(w) /\ DOMAIN result' = Workers
    BY <1>7 DEF RefuseRun, ThreadType
  <2> QED
    BY <2>1, DoneStep DEF ThreadType
<1>8. ASSUME NEW w \in Workers, FailRun(w) PROVE ThreadType'
  <2>1. Done(w) /\ DOMAIN result' = Workers
    BY <1>8 DEF FailRun, ThreadType
  <2> QED
    BY <2>1, DoneStep DEF ThreadType
<1>9. ASSUME NEW w \in Workers, SimulateUpload(w) PROVE ThreadType'
  <2>1. DOMAIN result' = Workers
    BY <1>9 DEF SimulateUpload, ThreadType
  <2> QED
    BY <1>9, <2>1, SimulateStep DEF ThreadType
<1>10. ASSUME NEW w \in Workers, CloseByTime(w) PROVE ThreadType'
  <2>1. DOMAIN result' = Workers
    BY <1>10 DEF CloseByTime, ThreadType
  <2> QED
    BY <1>10, <2>1, CloseStep DEF ThreadType
<1>11. ASSUME NEW w \in Workers, NumberRun(w) PROVE ThreadType'
  BY <1>11, TitleStep DEF ThreadType
<1>12. ASSUME NEW w \in Workers, StoreRun(w) PROVE ThreadType'
  <2>1. Done(w) /\ DOMAIN result' = Workers
    BY <1>12 DEF StoreRun, ThreadType
  <2> QED
    BY <2>1, DoneStep DEF ThreadType
<1>13. ASSUME NEW p \in Pages, GiveUpUpload(p) PROVE ThreadType'
  BY <1>13 DEF GiveUpUpload, ThreadType
<1>14. ASSUME Restart PROVE ThreadType'
  BY <1>14, RestartStep DEF ThreadType
<1>15. ASSUME UNCHANGED vars PROVE ThreadType'
  BY <1>15 DEF vars, ThreadType
<1>16. ASSUME NEW w \in Workers, AnswerUpload(w) PROVE ThreadType'
  <2>1. Done(w) /\ DOMAIN result' = Workers
    BY <1>16 DEF AnswerUpload, ThreadType
  <2> QED
    BY <2>1, DoneStep DEF ThreadType
<1> QED
  BY <1>1, <1>2, <1>3, <1>4, <1>5, <1>6, <1>7, <1>8,
     <1>9, <1>10, <1>11, <1>12, <1>13, <1>14, <1>15, <1>16 DEF Next, Step

LEMMA NextReading ==
  ASSUME ThreadType, UploadType, TaskFile, Reading, [Next]_vars
  PROVE  Reading'
<1> USE BacktestsAssumption DEF ThreadType, TaskType, UploadType, TaskFile, Reading, ReadSteps
<1>1. ASSUME NEW w \in Workers, NEW p \in Pages, NEW f \in Files,
             NEW name \in Names, NEW typed \in Typed, ChooseFile(w, p, f, name, typed)
      PROVE Reading'
  BY <1>1 DEF ChooseFile, Upload, At, Idle, Blank
<1>2. ASSUME NEW w \in Workers, NEW p \in Pages, NEW request \in Requests, ClickRun(w, p, request)
      PROVE Reading'
  BY <1>2 DEF ClickRun, Run, At, Idle
<1>3. ASSUME NEW w \in Workers, RefuseUpload(w) PROVE Reading'
  BY <1>3 DEF RefuseUpload, Settle, Blank, At, Done, Idle
<1>4. ASSUME NEW w \in Workers, NumberUpload(w) PROVE Reading'
  BY <1>4 DEF NumberUpload, At
<1>5. ASSUME NEW w \in Workers, DescribeUpload(w) PROVE Reading'
  BY <1>5 DEF DescribeUpload, Description, Goto, At, Put
<1>6. ASSUME NEW w \in Workers, KeepContent(w) PROVE Reading'
  BY <1>6 DEF KeepContent, Goto, At, Put
<1>7. ASSUME NEW w \in Workers, RefuseRun(w) PROVE Reading'
  BY <1>7 DEF RefuseRun, At, Done, Idle
<1>8. ASSUME NEW w \in Workers, FailRun(w) PROVE Reading'
  BY <1>8 DEF FailRun, At, Done, Idle
<1>9. ASSUME NEW w \in Workers, SimulateUpload(w) PROVE Reading'
  BY <1>9 DEF SimulateUpload, At
<1>10. ASSUME NEW w \in Workers, CloseByTime(w) PROVE Reading'
  BY <1>10 DEF CloseByTime, At
<1>11. ASSUME NEW w \in Workers, NumberRun(w) PROVE Reading'
  BY <1>11 DEF NumberRun, At
<1>12. ASSUME NEW w \in Workers, StoreRun(w) PROVE Reading'
  BY <1>12 DEF StoreRun, AsStored, Rivals, At, Done, Put, Idle
<1>13. ASSUME NEW p \in Pages, GiveUpUpload(p) PROVE Reading'
  BY <1>13 DEF GiveUpUpload, At
<1>14. ASSUME Restart PROVE Reading'
  BY <1>14 DEF Restart, At, Idle
<1>15. ASSUME UNCHANGED vars PROVE Reading'
  BY <1>15 DEF vars, At
<1>16. ASSUME NEW w \in Workers, AnswerUpload(w) PROVE Reading'
  BY <1>16 DEF AnswerUpload, Settle, Blank, At, Done, Idle
<1> QED
  BY <1>1, <1>2, <1>3, <1>4, <1>5, <1>6, <1>7, <1>8,
     <1>9, <1>10, <1>11, <1>12, <1>13, <1>14, <1>15, <1>16 DEF Next, Step

LEMMA NextPageType ==
  ASSUME PageType, ThreadType, UploadType, TaskFile, TaskId, TaskKept, [Next]_vars
  PROVE  PageType'
<1> USE DEF PageType
<1>1. ASSUME NEW w \in Workers, NEW p \in Pages, NEW f \in Files,
             NEW name \in Names, NEW typed \in Typed, ChooseFile(w, p, f, name, typed)
      PROVE PageType'
  BY <1>1, ChooseStep
<1>2. ASSUME NEW w \in Workers, NEW p \in Pages, NEW request \in Requests, ClickRun(w, p, request)
      PROVE PageType'
  BY <1>2 DEF ClickRun, Run, At, Idle
<1>3. ASSUME NEW w \in Workers, RefuseUpload(w) PROVE PageType'
  <2>1. Blank \in PageRecord
    BY DEF Blank, PageRecord, Servers
  <2> QED
    BY <1>3, <2>1 DEF RefuseUpload, Settle
<1>4. ASSUME NEW w \in Workers, NumberUpload(w) PROVE PageType'
  BY <1>4 DEF NumberUpload, At
<1>5. ASSUME NEW w \in Workers, DescribeUpload(w) PROVE PageType'
  BY <1>5 DEF DescribeUpload, Description, Goto, At, Put
<1>6. ASSUME NEW w \in Workers, KeepContent(w) PROVE PageType'
  BY <1>6 DEF KeepContent, Goto, At, Put
<1>7. ASSUME NEW w \in Workers, RefuseRun(w) PROVE PageType'
  BY <1>7 DEF RefuseRun, At, Done, Idle
<1>8. ASSUME NEW w \in Workers, FailRun(w) PROVE PageType'
  BY <1>8 DEF FailRun, At, Done, Idle
<1>9. ASSUME NEW w \in Workers, SimulateUpload(w) PROVE PageType'
  BY <1>9 DEF SimulateUpload, At
<1>10. ASSUME NEW w \in Workers, CloseByTime(w) PROVE PageType'
  BY <1>10 DEF CloseByTime, At
<1>11. ASSUME NEW w \in Workers, NumberRun(w) PROVE PageType'
  BY <1>11 DEF NumberRun, At
<1>12. ASSUME NEW w \in Workers, StoreRun(w) PROVE PageType'
  BY <1>12 DEF StoreRun, AsStored, Rivals, At, Done, Put, Idle
<1>13. ASSUME NEW p \in Pages, GiveUpUpload(p) PROVE PageType'
  BY <1>13 DEF GiveUpUpload, PageRecord
<1>14. ASSUME Restart PROVE PageType'
  BY <1>14, RestartStep
<1>15. ASSUME UNCHANGED vars PROVE PageType'
  BY <1>15 DEF vars, At
<1>16. ASSUME NEW w \in Workers, AnswerUpload(w) PROVE PageType'
  <2>1. PICK t \in TaskType : t = task[w]
    BY DEF ThreadType
  <2>2. PICK d \in Descriptions : d = uploads[task[w].id]
    BY <1>16 DEF AnswerUpload, At, TaskKept, UploadType
  <2>3. PICK r : r = [Blank EXCEPT !.file = t.file, !.label = t.label, !.id = t.id, !.shown = d]
    OBVIOUS
  <2>4. r \in PageRecord
    <3>1. r = [file |-> t.file, label |-> t.label, id |-> t.id, shown |-> d,
               uploading |-> None, server |-> "SAME"]
      BY <2>3 DEF Blank
    <3> QED
      BY <3>1 DEF TaskType, PageRecord, Servers
  <2> QED
    BY <1>16, <2>1, <2>2, <2>3, <2>4 DEF AnswerUpload, Settle
<1> QED
  BY <1>1, <1>2, <1>3, <1>4, <1>5, <1>6, <1>7, <1>8,
     <1>9, <1>10, <1>11, <1>12, <1>13, <1>14, <1>15, <1>16 DEF Next, Step

LEMMA NextTaskFile ==
  ASSUME ThreadType, PageType, PageInv, TaskFile, [Next]_vars
  PROVE  TaskFile'
<1> USE BacktestsAssumption DEF ThreadType, TaskType, TaskFile, UploadSteps, PageInv, PageType, Ids
<1>1. ASSUME NEW w \in Workers, NEW p \in Pages, NEW f \in Files,
             NEW name \in Names, NEW typed \in Typed, ChooseFile(w, p, f, name, typed)
      PROVE TaskFile'
  BY <1>1, ChooseStep DEF Others, At
<1>2. ASSUME NEW w \in Workers, NEW p \in Pages, NEW request \in Requests, ClickRun(w, p, request)
      PROVE TaskFile'
  BY <1>2 DEF ClickRun, Run, At, Idle
<1>3. ASSUME NEW w \in Workers, RefuseUpload(w) PROVE TaskFile'
  BY <1>3 DEF RefuseUpload, Settle, Blank, At, Done, Idle
<1>4. ASSUME NEW w \in Workers, NumberUpload(w) PROVE TaskFile'
  BY <1>4 DEF NumberUpload, At
<1>5. ASSUME NEW w \in Workers, DescribeUpload(w) PROVE TaskFile'
  BY <1>5 DEF DescribeUpload, Description, Goto, At, Put
<1>6. ASSUME NEW w \in Workers, KeepContent(w) PROVE TaskFile'
  BY <1>6 DEF KeepContent, Goto, At, Put
<1>7. ASSUME NEW w \in Workers, RefuseRun(w) PROVE TaskFile'
  BY <1>7 DEF RefuseRun, At, Done, Idle
<1>8. ASSUME NEW w \in Workers, FailRun(w) PROVE TaskFile'
  BY <1>8 DEF FailRun, At, Done, Idle
<1>9. ASSUME NEW w \in Workers, SimulateUpload(w) PROVE TaskFile'
  BY <1>9 DEF SimulateUpload, At
<1>10. ASSUME NEW w \in Workers, CloseByTime(w) PROVE TaskFile'
  BY <1>10 DEF CloseByTime, At
<1>11. ASSUME NEW w \in Workers, NumberRun(w) PROVE TaskFile'
  BY <1>11 DEF NumberRun, At
<1>12. ASSUME NEW w \in Workers, StoreRun(w) PROVE TaskFile'
  BY <1>12 DEF StoreRun, AsStored, Rivals, At, Done, Put, Idle
<1>13. ASSUME NEW p \in Pages, GiveUpUpload(p) PROVE TaskFile'
  BY <1>13 DEF GiveUpUpload, At
<1>14. ASSUME Restart PROVE TaskFile'
  BY <1>14 DEF Restart, At, Idle
<1>15. ASSUME UNCHANGED vars PROVE TaskFile'
  BY <1>15 DEF vars, At
<1>16. ASSUME NEW w \in Workers, AnswerUpload(w) PROVE TaskFile'
  BY <1>16 DEF AnswerUpload, Settle, Blank, At, Done, Idle
<1> QED
  BY <1>1, <1>2, <1>3, <1>4, <1>5, <1>6, <1>7, <1>8,
     <1>9, <1>10, <1>11, <1>12, <1>13, <1>14, <1>15, <1>16 DEF Next, Step

LEMMA NextTaskId ==
  ASSUME ThreadType, TaskFile, PageType, PageInv, Sizes, TaskId, [Next]_vars
  PROVE  TaskId'
<1> USE BacktestsAssumption, Counting DEF ThreadType, TaskType, TaskFile, TaskId, PageInv, PageType, Ids
<1>1. ASSUME NEW w \in Workers, NEW p \in Pages, NEW f \in Files,
             NEW name \in Names, NEW typed \in Typed, ChooseFile(w, p, f, name, typed)
      PROVE TaskId'
  BY <1>1 DEF ChooseFile, Upload, At, Idle, Blank
<1>2. ASSUME NEW w \in Workers, NEW p \in Pages, NEW request \in Requests, ClickRun(w, p, request)
      PROVE TaskId'
  BY <1>2 DEF ClickRun, Run, At, Idle
<1>3. ASSUME NEW w \in Workers, RefuseUpload(w) PROVE TaskId'
  BY <1>3 DEF RefuseUpload, Settle, Blank, At, Done, Idle
<1>4. ASSUME NEW w \in Workers, NumberUpload(w) PROVE TaskId'
  BY <1>4 DEF NumberUpload, At
<1>5. ASSUME NEW w \in Workers, DescribeUpload(w) PROVE TaskId'
  BY <1>5 DEF DescribeUpload, Description, Goto, At, Put
<1>6. ASSUME NEW w \in Workers, KeepContent(w) PROVE TaskId'
  BY <1>6 DEF KeepContent, Goto, At, Put
<1>7. ASSUME NEW w \in Workers, RefuseRun(w) PROVE TaskId'
  BY <1>7 DEF RefuseRun, At, Done, Idle
<1>8. ASSUME NEW w \in Workers, FailRun(w) PROVE TaskId'
  BY <1>8 DEF FailRun, At, Done, Idle
<1>9. ASSUME NEW w \in Workers, SimulateUpload(w) PROVE TaskId'
  BY <1>9 DEF SimulateUpload, At
<1>10. ASSUME NEW w \in Workers, CloseByTime(w) PROVE TaskId'
  BY <1>10 DEF CloseByTime, At
<1>11. ASSUME NEW w \in Workers, NumberRun(w) PROVE TaskId'
  BY <1>11 DEF NumberRun, At
<1>12. ASSUME NEW w \in Workers, StoreRun(w) PROVE TaskId'
  BY <1>12 DEF StoreRun, AsStored, Rivals, At, Done, Put, Idle
<1>13. ASSUME NEW p \in Pages, GiveUpUpload(p) PROVE TaskId'
  BY <1>13 DEF GiveUpUpload, At
<1>14. ASSUME Restart PROVE TaskId'
  BY <1>14 DEF Restart, At, Idle
<1>15. ASSUME UNCHANGED vars PROVE TaskId'
  BY <1>15 DEF vars, At
<1>16. ASSUME NEW w \in Workers, AnswerUpload(w) PROVE TaskId'
  BY <1>16 DEF AnswerUpload, Settle, Blank, At, Done, Idle
<1> QED
  BY <1>1, <1>2, <1>3, <1>4, <1>5, <1>6, <1>7, <1>8,
     <1>9, <1>10, <1>11, <1>12, <1>13, <1>14, <1>15, <1>16 DEF Next, Step

LEMMA NextTaskKept ==
  ASSUME ThreadType, TaskKept, [Next]_vars
  PROVE  TaskKept'
<1> USE DEF ThreadType, TaskType, TaskKept
<1>1. ASSUME NEW w \in Workers, NEW p \in Pages, NEW f \in Files,
             NEW name \in Names, NEW typed \in Typed, ChooseFile(w, p, f, name, typed)
      PROVE TaskKept'
  BY <1>1 DEF ChooseFile, Upload, At, Idle, Blank
<1>2. ASSUME NEW w \in Workers, NEW p \in Pages, NEW request \in Requests, ClickRun(w, p, request)
      PROVE TaskKept'
  BY <1>2 DEF ClickRun, Run, At, Idle
<1>3. ASSUME NEW w \in Workers, RefuseUpload(w) PROVE TaskKept'
  BY <1>3 DEF RefuseUpload, Settle, Blank, At, Done, Idle
<1>4. ASSUME NEW w \in Workers, NumberUpload(w) PROVE TaskKept'
  BY <1>4 DEF NumberUpload, At
<1>5. ASSUME NEW w \in Workers, DescribeUpload(w) PROVE TaskKept'
  BY <1>5 DEF DescribeUpload, Description, Goto, At, Put
<1>6. ASSUME NEW w \in Workers, KeepContent(w) PROVE TaskKept'
  BY <1>6 DEF KeepContent, Goto, At, Put
<1>7. ASSUME NEW w \in Workers, RefuseRun(w) PROVE TaskKept'
  BY <1>7 DEF RefuseRun, At, Done, Idle
<1>8. ASSUME NEW w \in Workers, FailRun(w) PROVE TaskKept'
  BY <1>8 DEF FailRun, At, Done, Idle
<1>9. ASSUME NEW w \in Workers, SimulateUpload(w) PROVE TaskKept'
  BY <1>9 DEF SimulateUpload, At
<1>10. ASSUME NEW w \in Workers, CloseByTime(w) PROVE TaskKept'
  BY <1>10 DEF CloseByTime, At
<1>11. ASSUME NEW w \in Workers, NumberRun(w) PROVE TaskKept'
  BY <1>11 DEF NumberRun, At
<1>12. ASSUME NEW w \in Workers, StoreRun(w) PROVE TaskKept'
  BY <1>12 DEF StoreRun, AsStored, Rivals, At, Done, Put, Idle
<1>13. ASSUME NEW p \in Pages, GiveUpUpload(p) PROVE TaskKept'
  BY <1>13 DEF GiveUpUpload, At
<1>14. ASSUME Restart PROVE TaskKept'
  BY <1>14 DEF Restart, At, Idle
<1>15. ASSUME UNCHANGED vars PROVE TaskKept'
  BY <1>15 DEF vars, At
<1>16. ASSUME NEW w \in Workers, AnswerUpload(w) PROVE TaskKept'
  BY <1>16 DEF AnswerUpload, Settle, Blank, At, Done, Idle
<1> QED
  BY <1>1, <1>2, <1>3, <1>4, <1>5, <1>6, <1>7, <1>8,
     <1>9, <1>10, <1>11, <1>12, <1>13, <1>14, <1>15, <1>16 DEF Next, Step

LEMMA NextTaskRequest ==
  ASSUME ThreadType, TaskRequest, [Next]_vars
  PROVE  TaskRequest'
<1> USE DEF ThreadType, TaskType, TaskRequest, ReadSteps, Allowed
<1>1. ASSUME NEW w \in Workers, NEW p \in Pages, NEW f \in Files,
             NEW name \in Names, NEW typed \in Typed, ChooseFile(w, p, f, name, typed)
      PROVE TaskRequest'
  BY <1>1 DEF ChooseFile, Upload, At, Idle, Blank
<1>2. ASSUME NEW w \in Workers, NEW p \in Pages, NEW request \in Requests, ClickRun(w, p, request)
      PROVE TaskRequest'
  BY <1>2 DEF ClickRun, Run, At, Idle
<1>3. ASSUME NEW w \in Workers, RefuseUpload(w) PROVE TaskRequest'
  BY <1>3 DEF RefuseUpload, Settle, Blank, At, Done, Idle
<1>4. ASSUME NEW w \in Workers, NumberUpload(w) PROVE TaskRequest'
  BY <1>4 DEF NumberUpload, At
<1>5. ASSUME NEW w \in Workers, DescribeUpload(w) PROVE TaskRequest'
  BY <1>5 DEF DescribeUpload, Description, Goto, At, Put
<1>6. ASSUME NEW w \in Workers, KeepContent(w) PROVE TaskRequest'
  BY <1>6 DEF KeepContent, Goto, At, Put
<1>7. ASSUME NEW w \in Workers, RefuseRun(w) PROVE TaskRequest'
  BY <1>7 DEF RefuseRun, At, Done, Idle
<1>8. ASSUME NEW w \in Workers, FailRun(w) PROVE TaskRequest'
  BY <1>8 DEF FailRun, At, Done, Idle
<1>9. ASSUME NEW w \in Workers, SimulateUpload(w) PROVE TaskRequest'
  BY <1>9 DEF SimulateUpload, At
<1>10. ASSUME NEW w \in Workers, CloseByTime(w) PROVE TaskRequest'
  BY <1>10 DEF CloseByTime, At
<1>11. ASSUME NEW w \in Workers, NumberRun(w) PROVE TaskRequest'
  BY <1>11 DEF NumberRun, At
<1>12. ASSUME NEW w \in Workers, StoreRun(w) PROVE TaskRequest'
  BY <1>12 DEF StoreRun, AsStored, Rivals, At, Done, Put, Idle
<1>13. ASSUME NEW p \in Pages, GiveUpUpload(p) PROVE TaskRequest'
  BY <1>13 DEF GiveUpUpload, At
<1>14. ASSUME Restart PROVE TaskRequest'
  BY <1>14 DEF Restart, At, Idle
<1>15. ASSUME UNCHANGED vars PROVE TaskRequest'
  BY <1>15 DEF vars, At
<1>16. ASSUME NEW w \in Workers, AnswerUpload(w) PROVE TaskRequest'
  BY <1>16 DEF AnswerUpload, Settle, Blank, At, Done, Idle
<1> QED
  BY <1>1, <1>2, <1>3, <1>4, <1>5, <1>6, <1>7, <1>8,
     <1>9, <1>10, <1>11, <1>12, <1>13, <1>14, <1>15, <1>16 DEF Next, Step

LEMMA NextTaskRead ==
  ASSUME ThreadType, UploadType, TaskId, TaskKept, TaskRequest, TaskRead, StoreInv, [Next]_vars
  PROVE  TaskRead'
<1> USE DEF ThreadType, TaskType, UploadType, TaskId, TaskKept, TaskRequest, TaskRead, StoreInv, ReadSteps
<1>1. ASSUME NEW w \in Workers, NEW p \in Pages, NEW f \in Files,
             NEW name \in Names, NEW typed \in Typed, ChooseFile(w, p, f, name, typed)
      PROVE TaskRead'
  BY <1>1 DEF ChooseFile, Upload, At, Idle, Blank
<1>2. ASSUME NEW w \in Workers, NEW p \in Pages, NEW request \in Requests, ClickRun(w, p, request)
      PROVE TaskRead'
  BY <1>2 DEF ClickRun, Run, At, Idle
<1>3. ASSUME NEW w \in Workers, RefuseUpload(w) PROVE TaskRead'
  BY <1>3 DEF RefuseUpload, Settle, Blank, At, Done, Idle
<1>4. ASSUME NEW w \in Workers, NumberUpload(w) PROVE TaskRead'
  BY <1>4 DEF NumberUpload, At
<1>5. ASSUME NEW w \in Workers, DescribeUpload(w) PROVE TaskRead'
  BY <1>5 DEF DescribeUpload, Description, Goto, At, Put
<1>6. ASSUME NEW w \in Workers, KeepContent(w) PROVE TaskRead'
  BY <1>6 DEF KeepContent, Goto, At, Put
<1>7. ASSUME NEW w \in Workers, RefuseRun(w) PROVE TaskRead'
  BY <1>7 DEF RefuseRun, At, Done, Idle
<1>8. ASSUME NEW w \in Workers, FailRun(w) PROVE TaskRead'
  BY <1>8 DEF FailRun, At, Done, Idle
<1>9. ASSUME NEW w \in Workers, SimulateUpload(w) PROVE TaskRead'
  <2>1. /\ contents[task[w].id] = task[w].file /\ uploads[task[w].id].file = task[w].file
        /\ task[w].again = None
    BY <1>9, SimulateStep DEF At
  <2> HIDE DEF TaskType
  <2> QED
    BY <1>9, <2>1, SimulateStep DEF Others, SameRun, At
<1>10. ASSUME NEW w \in Workers, CloseByTime(w) PROVE TaskRead'
  BY <1>10 DEF CloseByTime, At
<1>11. ASSUME NEW w \in Workers, NumberRun(w) PROVE TaskRead'
  BY <1>11 DEF NumberRun, At
<1>12. ASSUME NEW w \in Workers, StoreRun(w) PROVE TaskRead'
  BY <1>12 DEF StoreRun, AsStored, Rivals, At, Done, Put, Idle
<1>13. ASSUME NEW p \in Pages, GiveUpUpload(p) PROVE TaskRead'
  BY <1>13 DEF GiveUpUpload, At
<1>14. ASSUME Restart PROVE TaskRead'
  BY <1>14 DEF Restart, At, Idle
<1>15. ASSUME UNCHANGED vars PROVE TaskRead'
  BY <1>15 DEF vars, At
<1>16. ASSUME NEW w \in Workers, AnswerUpload(w) PROVE TaskRead'
  BY <1>16 DEF AnswerUpload, Settle, Blank, At, Done, Idle
<1> QED
  BY <1>1, <1>2, <1>3, <1>4, <1>5, <1>6, <1>7, <1>8,
     <1>9, <1>10, <1>11, <1>12, <1>13, <1>14, <1>15, <1>16 DEF Next, Step

LEMMA NextPageInv ==
  ASSUME ThreadType, UploadType, PageType, TaskFile, TaskId, TaskKept, PageInv, StoreInv, [Next]_vars
  PROVE  PageInv'
<1> USE BacktestsAssumption DEF ThreadType, TaskType, PageType, TaskFile, TaskId, UploadSteps, PageInv, Ids
<1>1. ASSUME NEW w \in Workers, NEW p \in Pages, NEW f \in Files,
             NEW name \in Names, NEW typed \in Typed, ChooseFile(w, p, f, name, typed)
      PROVE PageInv'
  BY <1>1 DEF ChooseFile, Upload, At, Idle, Blank
<1>2. ASSUME NEW w \in Workers, NEW p \in Pages, NEW request \in Requests, ClickRun(w, p, request)
      PROVE PageInv'
  BY <1>2 DEF ClickRun, Run, At, Idle
<1>3. ASSUME NEW w \in Workers, RefuseUpload(w) PROVE PageInv'
  BY <1>3 DEF RefuseUpload, Settle, Blank, At, Done, Idle
<1>4. ASSUME NEW w \in Workers, NumberUpload(w) PROVE PageInv'
  BY <1>4 DEF NumberUpload, At
<1>5. ASSUME NEW w \in Workers, DescribeUpload(w) PROVE PageInv'
  BY <1>5 DEF DescribeUpload, Description, Goto, At, Put
<1>6. ASSUME NEW w \in Workers, KeepContent(w) PROVE PageInv'
  BY <1>6 DEF KeepContent, Goto, At, Put
<1>7. ASSUME NEW w \in Workers, RefuseRun(w) PROVE PageInv'
  BY <1>7 DEF RefuseRun, At, Done, Idle
<1>8. ASSUME NEW w \in Workers, FailRun(w) PROVE PageInv'
  BY <1>8 DEF FailRun, At, Done, Idle
<1>9. ASSUME NEW w \in Workers, SimulateUpload(w) PROVE PageInv'
  BY <1>9 DEF SimulateUpload, At
<1>10. ASSUME NEW w \in Workers, CloseByTime(w) PROVE PageInv'
  BY <1>10 DEF CloseByTime, At
<1>11. ASSUME NEW w \in Workers, NumberRun(w) PROVE PageInv'
  BY <1>11 DEF NumberRun, At
<1>12. ASSUME NEW w \in Workers, StoreRun(w) PROVE PageInv'
  BY <1>12 DEF StoreRun, AsStored, Rivals, At, Done, Put, Idle
<1>13. ASSUME NEW p \in Pages, GiveUpUpload(p) PROVE PageInv'
  BY <1>13 DEF GiveUpUpload, At
<1>14. ASSUME Restart PROVE PageInv'
  BY <1>14, RestartStep
<1>15. ASSUME UNCHANGED vars PROVE PageInv'
  BY <1>15 DEF vars, At
<1>16. ASSUME NEW w \in Workers, AnswerUpload(w) PROVE PageInv'
  <2>1. /\ task[w].id \in Ids /\ task[w].id[2] = task[w].file /\ task[w].label \in Labels
        /\ uploads[task[w].id].file = task[w].file
    BY <1>16 DEF AnswerUpload, At, TaskKept, StoreInv
  <2> HIDE DEF ThreadType, TaskType, PageType
  <2> QED
    BY <1>16, <2>1, AnswerStep
<1> QED
  BY <1>1, <1>2, <1>3, <1>4, <1>5, <1>6, <1>7, <1>8,
     <1>9, <1>10, <1>11, <1>12, <1>13, <1>14, <1>15, <1>16 DEF Next, Step

LEMMA NextStoreInv ==
  ASSUME ThreadType, TaskId, StoreInv, [Next]_vars
  PROVE  StoreInv'
<1> USE DEF ThreadType, TaskType, TaskId, StoreInv
<1>1. ASSUME NEW w \in Workers, NEW p \in Pages, NEW f \in Files,
             NEW name \in Names, NEW typed \in Typed, ChooseFile(w, p, f, name, typed)
      PROVE StoreInv'
  BY <1>1 DEF ChooseFile, Upload, At, Idle, Blank
<1>2. ASSUME NEW w \in Workers, NEW p \in Pages, NEW request \in Requests, ClickRun(w, p, request)
      PROVE StoreInv'
  BY <1>2 DEF ClickRun, Run, At, Idle
<1>3. ASSUME NEW w \in Workers, RefuseUpload(w) PROVE StoreInv'
  BY <1>3 DEF RefuseUpload, Settle, Blank, At, Done, Idle
<1>4. ASSUME NEW w \in Workers, NumberUpload(w) PROVE StoreInv'
  BY <1>4 DEF NumberUpload, At
<1>5. ASSUME NEW w \in Workers, DescribeUpload(w) PROVE StoreInv'
  BY <1>5 DEF DescribeUpload, Description, Goto, At, Put
<1>6. ASSUME NEW w \in Workers, KeepContent(w) PROVE StoreInv'
  BY <1>6 DEF KeepContent, Goto, At, Put
<1>7. ASSUME NEW w \in Workers, RefuseRun(w) PROVE StoreInv'
  BY <1>7 DEF RefuseRun, At, Done, Idle
<1>8. ASSUME NEW w \in Workers, FailRun(w) PROVE StoreInv'
  BY <1>8 DEF FailRun, At, Done, Idle
<1>9. ASSUME NEW w \in Workers, SimulateUpload(w) PROVE StoreInv'
  BY <1>9 DEF SimulateUpload, At
<1>10. ASSUME NEW w \in Workers, CloseByTime(w) PROVE StoreInv'
  BY <1>10 DEF CloseByTime, At
<1>11. ASSUME NEW w \in Workers, NumberRun(w) PROVE StoreInv'
  BY <1>11 DEF NumberRun, At
<1>12. ASSUME NEW w \in Workers, StoreRun(w) PROVE StoreInv'
  BY <1>12 DEF StoreRun, AsStored, Rivals, At, Done, Put, Idle
<1>13. ASSUME NEW p \in Pages, GiveUpUpload(p) PROVE StoreInv'
  BY <1>13 DEF GiveUpUpload, At
<1>14. ASSUME Restart PROVE StoreInv'
  BY <1>14 DEF Restart, At, Idle
<1>15. ASSUME UNCHANGED vars PROVE StoreInv'
  BY <1>15 DEF vars, At
<1>16. ASSUME NEW w \in Workers, AnswerUpload(w) PROVE StoreInv'
  BY <1>16 DEF AnswerUpload, Settle, Blank, At, Done, Idle
<1> QED
  BY <1>1, <1>2, <1>3, <1>4, <1>5, <1>6, <1>7, <1>8,
     <1>9, <1>10, <1>11, <1>12, <1>13, <1>14, <1>15, <1>16 DEF Next, Step

LEMMA NextTaskShown ==
  ASSUME ThreadType, UploadType, TaskFile, TaskId, TaskKept, TaskShown, StoreInv, IdInv,
         PageType, PageInv, PageShown, [Next]_vars
  PROVE  TaskShown'
<1> USE DEF ThreadType, TaskType, UploadType, TaskFile, TaskId, TaskShown, ReadSteps, Stands
<1>1. ASSUME NEW w \in Workers, NEW p \in Pages, NEW f \in Files,
             NEW name \in Names, NEW typed \in Typed, ChooseFile(w, p, f, name, typed)
      PROVE TaskShown'
  BY <1>1 DEF ChooseFile, Upload, At, Idle, Blank
<1>2. ASSUME NEW w \in Workers, NEW p \in Pages, NEW request \in Requests, ClickRun(w, p, request)
      PROVE TaskShown'
  <2> HIDE DEF ThreadType, TaskType, UploadType, TaskFile, TaskId
  <2> QED
    BY <1>2, ClickStep DEF Others, PageInv, PageShown, At
<1>3. ASSUME NEW w \in Workers, RefuseUpload(w) PROVE TaskShown'
  BY <1>3 DEF RefuseUpload, Settle, Blank, At, Done, Idle
<1>4. ASSUME NEW w \in Workers, NumberUpload(w) PROVE TaskShown'
  BY <1>4 DEF NumberUpload, At
<1>5. ASSUME NEW w \in Workers, DescribeUpload(w) PROVE TaskShown'
  <2>1. /\ Others(w) /\ task'[w].step = "DESCRIBED"
    BY <1>5, GotoStep DEF DescribeUpload, Steps
  <2>2. PICK id, d : /\ id = task[w].id /\ d = Description(w)
                    /\ uploads' = Put(uploads, id, d)
    BY <1>5 DEF DescribeUpload
  <2>3. id \in DOMAIN uploads => uploads[id].rivals # {}
    BY <1>5, <2>2 DEF DescribeUpload, IdInv, At
  <2> HIDE DEF ThreadType, TaskType, UploadType, TaskFile, TaskId
  <2> QED
    BY <2>1, <2>2, <2>3 DEF Others, Put, At
<1>6. ASSUME NEW w \in Workers, KeepContent(w) PROVE TaskShown'
  BY <1>6 DEF KeepContent, Goto, At, Put
<1>7. ASSUME NEW w \in Workers, RefuseRun(w) PROVE TaskShown'
  BY <1>7 DEF RefuseRun, At, Done, Idle
<1>8. ASSUME NEW w \in Workers, FailRun(w) PROVE TaskShown'
  BY <1>8 DEF FailRun, At, Done, Idle
<1>9. ASSUME NEW w \in Workers, SimulateUpload(w) PROVE TaskShown'
  <2> HIDE DEF ThreadType, TaskType, UploadType, TaskFile, TaskId
  <2> QED
    BY <1>9, SimulateStep DEF Others, SameRun, At
<1>10. ASSUME NEW w \in Workers, CloseByTime(w) PROVE TaskShown'
  BY <1>10 DEF CloseByTime, At
<1>11. ASSUME NEW w \in Workers, NumberRun(w) PROVE TaskShown'
  BY <1>11 DEF NumberRun, At
<1>12. ASSUME NEW w \in Workers, StoreRun(w) PROVE TaskShown'
  BY <1>12 DEF StoreRun, AsStored, Rivals, At, Done, Put, Idle
<1>13. ASSUME NEW p \in Pages, GiveUpUpload(p) PROVE TaskShown'
  BY <1>13 DEF GiveUpUpload, At
<1>14. ASSUME Restart PROVE TaskShown'
  BY <1>14 DEF Restart, At, Idle
<1>15. ASSUME UNCHANGED vars PROVE TaskShown'
  BY <1>15 DEF vars, At
<1>16. ASSUME NEW w \in Workers, AnswerUpload(w) PROVE TaskShown'
  BY <1>16 DEF AnswerUpload, Settle, Blank, At, Done, Idle
<1> QED
  BY <1>1, <1>2, <1>3, <1>4, <1>5, <1>6, <1>7, <1>8,
     <1>9, <1>10, <1>11, <1>12, <1>13, <1>14, <1>15, <1>16 DEF Next, Step

LEMMA NextPageShown ==
  ASSUME ThreadType, UploadType, TaskFile, TaskId, TaskKept, PageType, PageInv, PageShown, IdInv, [Next]_vars
  PROVE  PageShown'
<1> USE BacktestsAssumption DEF ThreadType, TaskType, PageType, UploadType, TaskFile, TaskId, TaskKept, PageInv, PageShown, Stands
<1>1. ASSUME NEW w \in Workers, NEW p \in Pages, NEW f \in Files,
             NEW name \in Names, NEW typed \in Typed, ChooseFile(w, p, f, name, typed)
      PROVE PageShown'
  BY <1>1 DEF ChooseFile, Upload, At, Idle, Blank
<1>2. ASSUME NEW w \in Workers, NEW p \in Pages, NEW request \in Requests, ClickRun(w, p, request)
      PROVE PageShown'
  BY <1>2 DEF ClickRun, Run, At, Idle
<1>3. ASSUME NEW w \in Workers, RefuseUpload(w) PROVE PageShown'
  BY <1>3 DEF RefuseUpload, Settle, Blank, At, Done, Idle
<1>4. ASSUME NEW w \in Workers, NumberUpload(w) PROVE PageShown'
  BY <1>4 DEF NumberUpload, At
<1>5. ASSUME NEW w \in Workers, DescribeUpload(w) PROVE PageShown'
  <2>1. PICK id, d : /\ id = task[w].id /\ d = Description(w)
                    /\ uploads' = Put(uploads, id, d)
    BY <1>5 DEF DescribeUpload
  <2>2. id \in DOMAIN uploads => uploads[id].rivals # {}
    BY <1>5, <2>1 DEF DescribeUpload, IdInv, At
  <2> HIDE DEF ThreadType, TaskType, PageType, UploadType, TaskFile, TaskId, TaskKept
  <2> QED
    BY <1>5, <2>1, <2>2 DEF DescribeUpload, Put
<1>6. ASSUME NEW w \in Workers, KeepContent(w) PROVE PageShown'
  BY <1>6 DEF KeepContent, Goto, At, Put
<1>7. ASSUME NEW w \in Workers, RefuseRun(w) PROVE PageShown'
  BY <1>7 DEF RefuseRun, At, Done, Idle
<1>8. ASSUME NEW w \in Workers, FailRun(w) PROVE PageShown'
  BY <1>8 DEF FailRun, At, Done, Idle
<1>9. ASSUME NEW w \in Workers, SimulateUpload(w) PROVE PageShown'
  BY <1>9 DEF SimulateUpload, At
<1>10. ASSUME NEW w \in Workers, CloseByTime(w) PROVE PageShown'
  BY <1>10 DEF CloseByTime, At
<1>11. ASSUME NEW w \in Workers, NumberRun(w) PROVE PageShown'
  BY <1>11 DEF NumberRun, At
<1>12. ASSUME NEW w \in Workers, StoreRun(w) PROVE PageShown'
  BY <1>12 DEF StoreRun, AsStored, Rivals, At, Done, Put, Idle
<1>13. ASSUME NEW p \in Pages, GiveUpUpload(p) PROVE PageShown'
  BY <1>13 DEF GiveUpUpload, At
<1>14. ASSUME Restart PROVE PageShown'
  <2> HIDE DEF ThreadType, TaskType, PageType, UploadType, TaskFile, TaskId, TaskKept
  <2> QED
    BY <1>14, RestartStep
<1>15. ASSUME UNCHANGED vars PROVE PageShown'
  BY <1>15 DEF vars, At
<1>16. ASSUME NEW w \in Workers, AnswerUpload(w) PROVE PageShown'
  <2>1. /\ task[w].id \in DOMAIN uploads
        /\ uploads[task[w].id].rivals # {} \/ uploads[task[w].id].label = task[w].label
    BY <1>16 DEF AnswerUpload, At, TaskKept, IdInv
  <2>2. UNCHANGED uploads
    BY <1>16 DEF AnswerUpload
  <2> HIDE DEF ThreadType, TaskType, PageType, UploadType, TaskFile, TaskId, TaskKept
  <2> QED
    BY <1>16, <2>1, <2>2, AnswerStep
<1> QED
  BY <1>1, <1>2, <1>3, <1>4, <1>5, <1>6, <1>7, <1>8,
     <1>9, <1>10, <1>11, <1>12, <1>13, <1>14, <1>15, <1>16 DEF Next, Step

LEMMA NextIdInv ==
  ASSUME ThreadType, UploadType, TaskFile, TaskId, TaskKept, Sizes, Sizes', IdInv, [Next]_vars
  PROVE  IdInv'
<1> USE DEF ThreadType, TaskType, UploadType, TaskId, TaskKept, IdInv
<1>1. ASSUME NEW w \in Workers, NEW p \in Pages, NEW f \in Files,
             NEW name \in Names, NEW typed \in Typed, ChooseFile(w, p, f, name, typed)
      PROVE IdInv'
  BY <1>1 DEF ChooseFile, Upload, At, Idle, Blank
<1>2. ASSUME NEW w \in Workers, NEW p \in Pages, NEW request \in Requests, ClickRun(w, p, request)
      PROVE IdInv'
  BY <1>2 DEF ClickRun, Run, At, Idle
<1>3. ASSUME NEW w \in Workers, RefuseUpload(w) PROVE IdInv'
  BY <1>3 DEF RefuseUpload, Settle, Blank, At, Done, Idle
<1>4. ASSUME NEW w \in Workers, NumberUpload(w) PROVE IdInv'
  <2>1. PICK k \in Nat : k = Cardinality(DOMAIN uploads)
    BY Counting
  <2>2. task'[w].id[1] = k + 1 /\ task'[w].step = "NUMBERED" /\ Others(w) /\ UNCHANGED uploads
    BY <1>4, <2>1, NumberStep
  <2>3. task'[w].id \notin DOMAIN uploads
    BY <2>1, <2>2
  <2> HIDE DEF ThreadType, TaskType, UploadType, TaskId, TaskKept
  <2> QED
    BY <2>1, <2>2, <2>3 DEF Others, At
<1>5. ASSUME NEW w \in Workers, DescribeUpload(w) PROVE IdInv'
  <2>1. PICK k \in Nat, n \in Nat :
          k = Cardinality(DOMAIN uploads) /\ n = Cardinality(DOMAIN uploads')
    BY FS_CardinalityType DEF Sizes
  <2>2. /\ Others(w) /\ task'[w].step = "DESCRIBED" /\ task'[w].id = task[w].id
        /\ task'[w].label = task[w].label /\ At(w, "NUMBERED")
    BY <1>5, GotoStep DEF DescribeUpload, SameUpload, Steps
  <2>3. PICK id, d : /\ id = task[w].id /\ d = Description(w)
                    /\ uploads' = Put(uploads, id, d)
    BY <1>5 DEF DescribeUpload
  <2>4. d.label = task[w].label /\ d.rivals = Sharers(w)
    BY <2>3 DEF Description
  <2>5. DOMAIN uploads' = DOMAIN uploads \union {id}
    BY <2>3 DEF Put
  <2>6. n >= k /\ (id \notin DOMAIN uploads => n = k + 1)
    BY <2>1, <2>5, FS_AddElement DEF Sizes
  <2>7. \A i \in DOMAIN uploads' : i[1] \in 1 .. n
    BY <2>1, <2>2, <2>3, <2>5, <2>6 DEF At
  <2>8. ASSUME NEW u \in Workers
        PROVE  /\ At(u, "NUMBERED")' =>
                    /\ task'[u].id[1] \in 1 .. n + 1
                    /\ task'[u].id \in DOMAIN uploads' => u \in uploads'[task'[u].id].rivals
               /\ task'[u].step \in {"DESCRIBED", "KEPT"} =>
                    \/ uploads'[task'[u].id].label = task'[u].label
                    \/ u \in uploads'[task'[u].id].rivals
    <3>1. CASE u = w
      BY <2>2, <2>3, <2>4, <3>1 DEF Put, At
    <3>2. CASE u # w
      <4>1. task'[u] = task[u]
        BY <2>2, <3>2 DEF Others
      <4>2. CASE task[u].id = id
        BY <2>1, <2>3, <2>4, <2>6, <3>2, <4>1, <4>2 DEF Put, At, Sharers
      <4>3. CASE task[u].id # id
        <5>1. /\ task[u].id \in DOMAIN uploads' <=> task[u].id \in DOMAIN uploads
              /\ task[u].id \in DOMAIN uploads => uploads'[task[u].id] = uploads[task[u].id]
          BY <2>3, <4>3 DEF Put
        <5> QED
          BY <2>1, <2>6, <4>1, <5>1 DEF At
      <4> QED
        BY <4>2, <4>3
    <3> QED
      BY <3>1, <3>2
  <2> HIDE DEF ThreadType, TaskType, UploadType, TaskId, TaskKept
  <2> QED
    BY <2>1, <2>7, <2>8
<1>6. ASSUME NEW w \in Workers, KeepContent(w) PROVE IdInv'
  BY <1>6 DEF KeepContent, Goto, At, Put
<1>7. ASSUME NEW w \in Workers, RefuseRun(w) PROVE IdInv'
  BY <1>7 DEF RefuseRun, At, Done, Idle
<1>8. ASSUME NEW w \in Workers, FailRun(w) PROVE IdInv'
  BY <1>8 DEF FailRun, At, Done, Idle
<1>9. ASSUME NEW w \in Workers, SimulateUpload(w) PROVE IdInv'
  <2> HIDE DEF ThreadType, TaskType, UploadType, TaskId, TaskKept
  <2> QED
    BY <1>9, SimulateStep DEF Others, At
<1>10. ASSUME NEW w \in Workers, CloseByTime(w) PROVE IdInv'
  BY <1>10 DEF CloseByTime, At
<1>11. ASSUME NEW w \in Workers, NumberRun(w) PROVE IdInv'
  BY <1>11 DEF NumberRun, At
<1>12. ASSUME NEW w \in Workers, StoreRun(w) PROVE IdInv'
  BY <1>12 DEF StoreRun, AsStored, Rivals, At, Done, Put, Idle
<1>13. ASSUME NEW p \in Pages, GiveUpUpload(p) PROVE IdInv'
  BY <1>13 DEF GiveUpUpload, At
<1>14. ASSUME Restart PROVE IdInv'
  BY <1>14 DEF Restart, At, Idle
<1>15. ASSUME UNCHANGED vars PROVE IdInv'
  BY <1>15 DEF vars, At
<1>16. ASSUME NEW w \in Workers, AnswerUpload(w) PROVE IdInv'
  BY <1>16 DEF AnswerUpload, Settle, Blank, At, Done, Idle
<1> QED
  BY <1>1, <1>2, <1>3, <1>4, <1>5, <1>6, <1>7, <1>8,
     <1>9, <1>10, <1>11, <1>12, <1>13, <1>14, <1>15, <1>16 DEF Next, Step

LEMMA NextRuns ==
  ASSUME ThreadType, TaskRead, TaskShown, RunsOnItsUpload, [Next]_vars
  PROVE  RunsOnItsUpload'
<1> USE DEF ThreadType, TaskType, TaskRead, TaskShown, Stands, ReadSteps, RunsOnItsUpload
<1>1. ASSUME NEW w \in Workers, NEW p \in Pages, NEW f \in Files,
             NEW name \in Names, NEW typed \in Typed, ChooseFile(w, p, f, name, typed)
      PROVE RunsOnItsUpload'
  BY <1>1 DEF ChooseFile, Upload, At, Idle, Blank
<1>2. ASSUME NEW w \in Workers, NEW p \in Pages, NEW request \in Requests, ClickRun(w, p, request)
      PROVE RunsOnItsUpload'
  BY <1>2 DEF ClickRun, Run, At, Idle
<1>3. ASSUME NEW w \in Workers, RefuseUpload(w) PROVE RunsOnItsUpload'
  BY <1>3 DEF RefuseUpload, Settle, Blank, At, Done, Idle
<1>4. ASSUME NEW w \in Workers, NumberUpload(w) PROVE RunsOnItsUpload'
  BY <1>4 DEF NumberUpload, At
<1>5. ASSUME NEW w \in Workers, DescribeUpload(w) PROVE RunsOnItsUpload'
  BY <1>5 DEF DescribeUpload, Description, Goto, At, Put
<1>6. ASSUME NEW w \in Workers, KeepContent(w) PROVE RunsOnItsUpload'
  BY <1>6 DEF KeepContent, Goto, At, Put
<1>7. ASSUME NEW w \in Workers, RefuseRun(w) PROVE RunsOnItsUpload'
  BY <1>7 DEF RefuseRun, At, Done, Idle
<1>8. ASSUME NEW w \in Workers, FailRun(w) PROVE RunsOnItsUpload'
  BY <1>8 DEF FailRun, At, Done, Idle
<1>9. ASSUME NEW w \in Workers, SimulateUpload(w) PROVE RunsOnItsUpload'
  BY <1>9 DEF SimulateUpload, At
<1>10. ASSUME NEW w \in Workers, CloseByTime(w) PROVE RunsOnItsUpload'
  BY <1>10 DEF CloseByTime, At
<1>11. ASSUME NEW w \in Workers, NumberRun(w) PROVE RunsOnItsUpload'
  BY <1>11 DEF NumberRun, At
<1>12. ASSUME NEW w \in Workers, StoreRun(w) PROVE RunsOnItsUpload'
  BY <1>12 DEF StoreRun, AsStored, Rivals, At, Done, Put, Idle
<1>13. ASSUME NEW p \in Pages, GiveUpUpload(p) PROVE RunsOnItsUpload'
  BY <1>13 DEF GiveUpUpload, At
<1>14. ASSUME Restart PROVE RunsOnItsUpload'
  BY <1>14 DEF Restart, At, Idle
<1>15. ASSUME UNCHANGED vars PROVE RunsOnItsUpload'
  BY <1>15 DEF vars, At
<1>16. ASSUME NEW w \in Workers, AnswerUpload(w) PROVE RunsOnItsUpload'
  BY <1>16 DEF AnswerUpload, Settle, Blank, At, Done, Idle
<1> QED
  BY <1>1, <1>2, <1>3, <1>4, <1>5, <1>6, <1>7, <1>8,
     <1>9, <1>10, <1>11, <1>12, <1>13, <1>14, <1>15, <1>16 DEF Next, Step

LEMMA NextNumberInv ==
  ASSUME ThreadType, Sizes, Sizes', NumberInv, [Next]_vars
  PROVE  NumberInv'
<1> USE Counting DEF ThreadType, TaskType, NumberInv
<1>1. ASSUME NEW w \in Workers, NEW p \in Pages, NEW f \in Files,
             NEW name \in Names, NEW typed \in Typed, ChooseFile(w, p, f, name, typed)
      PROVE NumberInv'
  BY <1>1 DEF ChooseFile, Upload, At, Idle, Blank
<1>2. ASSUME NEW w \in Workers, NEW p \in Pages, NEW request \in Requests, ClickRun(w, p, request)
      PROVE NumberInv'
  BY <1>2 DEF ClickRun, Run, At, Idle
<1>3. ASSUME NEW w \in Workers, RefuseUpload(w) PROVE NumberInv'
  BY <1>3 DEF RefuseUpload, Settle, Blank, At, Done, Idle
<1>4. ASSUME NEW w \in Workers, NumberUpload(w) PROVE NumberInv'
  BY <1>4 DEF NumberUpload, At
<1>5. ASSUME NEW w \in Workers, DescribeUpload(w) PROVE NumberInv'
  BY <1>5 DEF DescribeUpload, Description, Goto, At, Put
<1>6. ASSUME NEW w \in Workers, KeepContent(w) PROVE NumberInv'
  BY <1>6 DEF KeepContent, Goto, At, Put
<1>7. ASSUME NEW w \in Workers, RefuseRun(w) PROVE NumberInv'
  BY <1>7 DEF RefuseRun, At, Done, Idle
<1>8. ASSUME NEW w \in Workers, FailRun(w) PROVE NumberInv'
  BY <1>8 DEF FailRun, At, Done, Idle
<1>9. ASSUME NEW w \in Workers, SimulateUpload(w) PROVE NumberInv'
  BY <1>9 DEF SimulateUpload, At
<1>10. ASSUME NEW w \in Workers, CloseByTime(w) PROVE NumberInv'
  BY <1>10 DEF CloseByTime, At
<1>11. ASSUME NEW w \in Workers, NumberRun(w) PROVE NumberInv'
  BY <1>11 DEF NumberRun, At
<1>12. ASSUME NEW w \in Workers, StoreRun(w) PROVE NumberInv'
  <2>1. PICK k \in Nat, l \in Nat : DOMAIN runs = 1 .. k /\ DOMAIN runs' = 1 .. l
    BY DEF Sizes
  <2> HIDE DEF Sizes
  <2>10. Cardinality(DOMAIN runs) = k
    BY <2>1, FS_Interval, SMT
  <2>11. Cardinality(DOMAIN runs') = l
    BY <2>1, FS_Interval, SMT
  <2>2. Cardinality(DOMAIN runs) = k /\ Cardinality(DOMAIN runs') = l
    BY <2>10, <2>11
  <2>3. DOMAIN runs' = {task[w].number} \cup DOMAIN runs
    BY <1>12 DEF StoreRun, Put
  <2>4. k <= l
    <3>1. CASE k = 0
      BY <3>1
    <3>2. CASE k # 0
      <4>1. k \in 1 .. k
        BY <3>2
      <4>2. k \in 1 .. l
        BY <4>1, <2>1, <2>3
      <4> QED
        BY <4>2
    <3> QED
      BY <3>1, <3>2
  <2>5. SUFFICES ASSUME NEW u \in Workers, At(u, "TITLED")'
        PROVE  /\ (task[u].number)' \in 1 .. l + 1
               /\ (task[u].number)' \in DOMAIN runs' => u \in (runs[task[u].number].rivals)'
    BY <2>2 DEF NumberInv
  <2>6. u # w /\ task'[u] = task[u] /\ At(u, "TITLED")
    BY <1>12, <2>5 DEF StoreRun, Done, At, Idle
  <2>7. task[u].number \in 1 .. l + 1
    BY <2>1, <2>2, <2>4, <2>6
  <2>8. CASE task[u].number = task[w].number
    BY <1>12, <2>6, <2>7, <2>8 DEF StoreRun, AsStored, Put, Rivals
  <2>9. CASE task[u].number # task[w].number
    BY <1>12, <2>3, <2>6, <2>7, <2>9 DEF StoreRun, Put
  <2> QED
    BY <2>8, <2>9
<1>13. ASSUME NEW p \in Pages, GiveUpUpload(p) PROVE NumberInv'
  BY <1>13 DEF GiveUpUpload, At
<1>14. ASSUME Restart PROVE NumberInv'
  BY <1>14 DEF Restart, At, Idle
<1>15. ASSUME UNCHANGED vars PROVE NumberInv'
  BY <1>15 DEF vars, At
<1>16. ASSUME NEW w \in Workers, AnswerUpload(w) PROVE NumberInv'
  BY <1>16 DEF AnswerUpload, Settle, Blank, At, Done, Idle
<1> QED
  BY <1>1, <1>2, <1>3, <1>4, <1>5, <1>6, <1>7, <1>8,
     <1>9, <1>10, <1>11, <1>12, <1>13, <1>14, <1>15, <1>16 DEF Next, Step

-----------------------------------------------------------------------------
(* The inductive invariant. *)
Inv ==
  /\ TypeOK /\ Sizes /\ TaskInv /\ PageInv /\ PageShown
  /\ StoreInv /\ IdInv /\ NumberInv /\ RunsOnItsUpload

LEMMA InitInv ==
  ASSUME Init
  PROVE  Inv
<1> USE BacktestsAssumption DEF Init, Idle
<1>1. UploadType /\ RunType /\ StoreInv /\ RunsOnItsUpload
  BY DEF UploadType, RunType, StoreInv, RunsOnItsUpload
<1>2. ThreadType
  <2>1. Idle \in TaskType
    BY DEF TaskType, Steps, Servers
  <2> QED
    BY <2>1 DEF ThreadType
<1>3. /\ Reading /\ TaskFile /\ TaskId /\ TaskKept /\ TaskRequest /\ TaskRead /\ TaskShown
      /\ NumberInv /\ IdInv
  BY DEF Reading, TaskFile, TaskId, TaskKept, TaskRequest, TaskRead, TaskShown, NumberInv,
         IdInv, At, UploadSteps, ReadSteps
<1>4. PageType /\ PageInv /\ PageShown
  <2>1. Blank \in PageRecord /\ Blank.id = None
    BY DEF Blank, PageRecord, Servers
  <2> QED
    BY <2>1 DEF PageType, PageInv, PageShown
<1>5. DOMAIN uploads = {} /\ DOMAIN runs = {}
  OBVIOUS
<1>6. IsFiniteSet(DOMAIN uploads)
  BY <1>5, FS_EmptySet
<1>7. DOMAIN runs = 1 .. 0
  BY <1>5
<1>8. Sizes
  BY <1>6, <1>7 DEF Sizes
<1> QED
  BY <1>1, <1>2, <1>3, <1>4, <1>8 DEF Inv, TypeOK, TaskInv

LEMMA NextInv ==
  ASSUME Inv, [Next]_vars
  PROVE  Inv'
<1>1. UploadType /\ RunType /\ ThreadType /\ Reading /\ PageType
  BY DEF Inv, TypeOK
<1>2. TaskFile /\ TaskId /\ TaskKept /\ TaskRequest /\ TaskRead /\ TaskShown
  BY DEF Inv, TaskInv
<1>3. Sizes /\ PageInv /\ PageShown /\ StoreInv /\ IdInv /\ NumberInv /\ RunsOnItsUpload
  BY DEF Inv
<1>4. Sizes'
  BY <1>3, NextSizes
<1>5. TypeOK'
  BY <1>1, <1>2, <1>3, NextUploadType, NextRunType, NextThreadType, NextReading,
     NextPageType DEF TypeOK
<1>6. TaskInv'
  BY <1>1, <1>2, <1>3, NextTaskFile, NextTaskId, NextTaskKept, NextTaskRequest,
     NextTaskRead, NextTaskShown DEF TaskInv
<1>7. PageInv' /\ PageShown' /\ StoreInv' /\ IdInv' /\ NumberInv' /\ RunsOnItsUpload'
  BY <1>1, <1>2, <1>3, <1>4, NextPageInv, NextPageShown, NextStoreInv, NextIdInv,
     NextNumberInv, NextRuns
<1> QED
  BY <1>4, <1>5, <1>6, <1>7 DEF Inv

LEMMA Invariance == Spec => []Inv
<1>1. Init => Inv
  BY InitInv
<1>2. Inv /\ [Next]_vars => Inv'
  BY NextInv
<1> QED
  BY <1>1, <1>2, PTL DEF Spec

(* The type invariant of the backtesting API: whatever the requests do to  *)
(* each other, no content is kept without its description, and every       *)
(* stored run is one of an allowed request (upload_csv, run_backtest).     *)
THEOREM TypeCorrect == Spec => []TypeOK
<1>1. Inv => TypeOK
  BY DEF Inv
<1> QED
  BY <1>1, Invariance, PTL

(* For any number of threads, pages and files, a run and its report are of *)
(* the content that was uploaded: an id that repeats carries the same one. *)
(* They are under the name and the symbol of that upload too, unless the   *)
(* server was restarted in between or another upload in progress held the  *)
(* id when the description was written (upload_csv's upload_id and entry,  *)
(* run_backtest's look-ups).                                               *)
THEOREM RunsAreOfTheirUpload == Spec => []RunsOnItsUpload
<1>1. Inv => RunsOnItsUpload
  BY DEF Inv
<1> QED
  BY <1>1, Invariance, PTL

(* Only a run that was numbered beside it ever takes a stored run's place  *)
(* (run_backtest's run_id).                                                *)
THEOREM RunsCollideOnlyRacing == Spec => []OnlyRacingRunsCollide
<1>1. Inv => OnlyRacingRunsCollide
  BY DEF Inv, NumberInv, OnlyRacingRunsCollide
<1> QED
  BY <1>1, Invariance, PTL

-----------------------------------------------------------------------------
(* Numbers, and loops over them. *)

(* Min and Max, of finitely many integers, are what they say. *)
LEMMA LeastOfIntegers ==
  ASSUME NEW S \in SUBSET Int, IsFiniteSet(S), S # {}
  PROVE  Min(S) \in S /\ \A x \in S : Min(S) <= x
<1>. DEFINE Below(x) == {y \in S : y < x}
            All == {Below(x) : x \in S}
<1>1. All \subseteq FiniteSubsetsOf(S) /\ All # {}
  <2>1. \A x \in S : Below(x) \in SUBSET S
    OBVIOUS
  <2>2. \A x \in S : IsFiniteSet(Below(x))
    BY <2>1, FS_Subset
  <2>. QED BY <2>1, <2>2 DEF FiniteSubsetsOf
<1>2. PICK X \in All : \A Y \in All : <<Y, X>> \notin StrictSubsetOrdering(S)
  BY <1>1, FS_StrictSubsetOrderingWellFounded, WFMin
<1>3. PICK x \in S : X = Below(x)
  OBVIOUS
<1>4. ASSUME NEW y \in S PROVE x <= y
  <2>1. SUFFICES ASSUME y < x PROVE FALSE
    OBVIOUS
  <2>2. Below(y) \subseteq Below(x) /\ y \in Below(x) /\ y \notin Below(y)
    <3>1. \A z \in S : z < y => z < x
      BY <2>1
    <3>2. ~(y < y)
      OBVIOUS
    <3>. QED BY <2>1, <3>1, <3>2
  <2>3. <<Below(y), X>> \in StrictSubsetOrdering(S)
    BY <2>2, <1>3 DEF StrictSubsetOrdering
  <2>. QED BY <2>3, <1>2
<1>. QED BY <1>4 DEF Min

LEMMA GreatestOfIntegers ==
  ASSUME NEW S \in SUBSET Int, IsFiniteSet(S), S # {}
  PROVE  Max(S) \in S /\ \A x \in S : x <= Max(S)
<1>. DEFINE Above(x) == {y \in S : y > x}
            All == {Above(x) : x \in S}
<1>1. All \subseteq FiniteSubsetsOf(S) /\ All # {}
  <2>1. \A x \in S : Above(x) \in SUBSET S
    OBVIOUS
  <2>2. \A x \in S : IsFiniteSet(Above(x))
    BY <2>1, FS_Subset
  <2>. QED BY <2>1, <2>2 DEF FiniteSubsetsOf
<1>2. PICK X \in All : \A Y \in All : <<Y, X>> \notin StrictSubsetOrdering(S)
  BY <1>1, FS_StrictSubsetOrderingWellFounded, WFMin
<1>3. PICK x \in S : X = Above(x)
  OBVIOUS
<1>4. ASSUME NEW y \in S PROVE y <= x
  <2>1. SUFFICES ASSUME y > x PROVE FALSE
    OBVIOUS
  <2>2. Above(y) \subseteq Above(x) /\ y \in Above(x) /\ y \notin Above(y)
    <3>1. \A z \in S : z > y => z > x
      BY <2>1
    <3>2. ~(y > y)
      OBVIOUS
    <3>. QED BY <2>1, <3>1, <3>2
  <2>3. <<Above(y), X>> \in StrictSubsetOrdering(S)
    BY <2>2, <1>3 DEF StrictSubsetOrdering
  <2>. QED BY <2>3, <1>2
<1>. QED BY <1>4 DEF Max

(* A set that holds 0 and, with a number below n, its successor. *)
LEMMA UpwardInduction ==
  ASSUME NEW n \in Nat, NEW Good, 0 \in Good,
         \A k \in 0 .. n - 1 : k \in Good => k + 1 \in Good
  PROVE  \A k \in 0 .. n : k \in Good
<1>. DEFINE Bad == {k \in 0 .. n : k \notin Good}
<1>1. SUFFICES ASSUME Bad # {} PROVE FALSE
  OBVIOUS
<1>2. Bad \in SUBSET Nat
  OBVIOUS
<1>3. Min(Bad) \in Bad /\ \A x \in Bad : Min(Bad) <= x
  BY <1>1, <1>2, MinOfNaturals
<1>4. PICK k \in 0 .. n : k = Min(Bad) /\ k \notin Good
  BY <1>3
<1>5. k # 0 /\ k - 1 \in 0 .. n - 1
  BY <1>4
<1>6. k - 1 \in Good
  <2>1. k - 1 \notin Bad
    <3>1. ~(k <= k - 1)
      BY <1>4
    <3>. QED BY <1>3, <1>4, <3>1
  <2>. QED BY <1>5, <2>1
<1>. QED BY <1>4, <1>5, <1>6

(* A loop over 1 .. n whose turns keep to States has a value after each.   *)
Keeps(turn, States, n) == \A x \in States, i \in 1 .. n : turn[<<x, i>>] \in States

Loops(f, first, turn, n) ==
  f[0] = first /\ \A i \in 1 .. n : f[i] = turn[<<f[i - 1], i>>]

(* Such a loop has a value after each turn, as a recursive function.       *)
LEMMA Looping ==
  ASSUME NEW n \in Nat, NEW States, NEW first \in States,
         NEW turn, Keeps(turn, States, n)
  PROVE  \E f \in [0 .. n -> States] : Loops(f, first, turn, n)
<1>. USE DEF Keeps, Loops
<1>. DEFINE Runs(k) == {f \in [0 .. k -> States] :
                          f[0] = first /\ \A i \in 1 .. k : f[i] = turn[<<f[i - 1], i>>]}
            Good == {k \in 0 .. n : Runs(k) # {}}
<1>1. 0 \in Good
  <2>1. [i \in 0 .. 0 |-> first] \in Runs(0)
    OBVIOUS
  <2>. QED BY <2>1
<1>2. ASSUME NEW k \in 0 .. n - 1, k \in Good PROVE k + 1 \in Good
  <2>1. PICK f \in [0 .. k -> States] :
          f[0] = first /\ \A i \in 1 .. k : f[i] = turn[<<f[i - 1], i>>]
    BY <1>2
  <2>7. PICK g : g = [i \in 0 .. k + 1 |-> IF i <= k THEN f[i] ELSE turn[<<f[k], k + 1>>]]
    OBVIOUS
  <2>2. turn[<<f[k], k + 1>>] \in States
    <3>1. k + 1 \in 1 .. n /\ f[k] \in States
      OBVIOUS
    <3>. QED BY <3>1
  <2>3. g \in [0 .. k + 1 -> States]
    BY <2>7, <2>2
  <2>4. g[0] = first
    BY <2>1, <2>7
  <2>5. ASSUME NEW i \in 1 .. k + 1 PROVE g[i] = turn[<<g[i - 1], i>>]
    <3>1. i - 1 \in 0 .. k /\ g[i - 1] = f[i - 1]
      BY <2>7
    <3>2. CASE i \in 1 .. k
      <4>1. g[i] = f[i] /\ f[i] = turn[<<f[i - 1], i>>]
        BY <2>1, <2>7, <3>2
      <4>. QED BY ONLY <3>1, <4>1
    <3>3. CASE i = k + 1
      <4>1. i - 1 = k /\ i \in 0 .. k + 1 /\ ~(i <= k)
        BY <3>3
      <4>2. g[i] = turn[<<f[k], i>>]
        BY <2>7, <3>3, <4>1
      <4>. QED BY <3>1, <4>1, <4>2
    <3>4. i \in 1 .. k \/ i = k + 1
      OBVIOUS
    <3>. QED BY <3>2, <3>3, <3>4
  <2>6. g \in Runs(k + 1)
    BY <2>3, <2>4, <2>5
  <2>. QED BY <2>6
<1>3. n \in Good
  <2>. HIDE DEF Good
  <2>. QED BY <1>1, <1>2, UpwardInduction
<1>. QED BY <1>3

(* Totals is one: it adds a number a turn.                                 *)
LEMMA RunningTotals ==
  ASSUME NEW n \in Nat, NEW numbers \in [1 .. n -> Int]
  PROVE  /\ Totals(numbers) \in [0 .. n -> Int]
         /\ Totals(numbers)[0] = 0
         /\ \A i \in 1 .. n : Totals(numbers)[i] = Totals(numbers)[i - 1] + numbers[i]
<1>. DEFINE Turn(f, i) == IF i = 0 THEN 0 ELSE f[i - 1] + numbers[i]
<1>1. Len(numbers) = n
  OBVIOUS
<1>2. PICK turn : turn = [p \in Int \X (1 .. n) |-> p[1] + numbers[p[2]]]
  OBVIOUS
<1>3. \A x \in Int, i \in 1 .. n : turn[<<x, i>>] = x + numbers[i]
  BY <1>2
<1>4. PICK f \in [0 .. n -> Int] : Loops(f, 0, turn, n)
  <2>1. \A x \in Int, i \in 1 .. n : x + numbers[i] \in Int
    OBVIOUS
  <2>2. Keeps(turn, Int, n)
    BY <1>3, <2>1 DEF Keeps
  <2>3. 0 \in Int
    OBVIOUS
  <2>4. \E f \in [0 .. n -> Int] : Loops(f, 0, turn, n)
    BY <2>2, <2>3, Looping
  <2>. QED BY <2>4
<1>5. \A i \in 1 .. n : f[i] = f[i - 1] + numbers[i]
  <2>. SUFFICES ASSUME NEW i \in 1 .. n PROVE f[i] = f[i - 1] + numbers[i]
    OBVIOUS
  <2>1. f[i - 1] \in Int
    OBVIOUS
  <2>. QED BY <1>3, <1>4, <2>1 DEF Loops
<1>6. f = [i \in 0 .. n |-> Turn(f, i)]
  BY <1>4, <1>5 DEF Loops
<1>7. Totals(numbers) = CHOOSE g : g = [i \in 0 .. n |-> Turn(g, i)]
  BY <1>1 DEF Totals
<1>8. Totals(numbers) = [i \in 0 .. n |-> Turn(Totals(numbers), i)]
  BY <1>6, <1>7
<1>. DEFINE t == Totals(numbers)
<1>. HIDE DEF t
<1>9. t = [i \in 0 .. n |-> IF i = 0 THEN 0 ELSE t[i - 1] + numbers[i]]
  BY <1>8 DEF t
<1>10. t[0] = 0 /\ \A i \in 1 .. n : t[i] = t[i - 1] + numbers[i]
  BY <1>9
<1>. DEFINE Good == {i \in 0 .. n : t[i] \in Int}
<1>11. 0 \in Good
  BY <1>10
<1>12. \A k \in 0 .. n - 1 : k \in Good => k + 1 \in Good
  <2>. SUFFICES ASSUME NEW k \in 0 .. n - 1, k \in Good PROVE k + 1 \in Good
    OBVIOUS
  <2>1. k + 1 \in 1 .. n /\ (k + 1) - 1 = k
    OBVIOUS
  <2>2. t[k + 1] = t[k] + numbers[k + 1]
    BY <1>10, <2>1
  <2>. QED BY <2>1, <2>2
<1>13. \A i \in 0 .. n : i \in Good
  <2>. HIDE DEF Good
  <2>. QED BY <1>11, <1>12, UpwardInduction
<1>14. t \in [0 .. n -> Int]
  BY <1>9, <1>13
<1>. QED BY <1>10, <1>14 DEF t

(* The same numbers up to k have the same total there. *)
LEMMA SameTotals ==
  ASSUME NEW n \in Nat, NEW a \in [1 .. n -> Int], NEW b \in [1 .. n -> Int],
         NEW k \in 0 .. n, \A i \in 1 .. k : a[i] = b[i]
  PROVE  Totals(a)[k] = Totals(b)[k]
<1>. DEFINE Good == {i \in 0 .. k : Totals(a)[i] = Totals(b)[i]}
<1>1. /\ Totals(a)[0] = 0 /\ \A i \in 1 .. n : Totals(a)[i] = Totals(a)[i - 1] + a[i]
      /\ Totals(b)[0] = 0 /\ \A i \in 1 .. n : Totals(b)[i] = Totals(b)[i - 1] + b[i]
  BY RunningTotals
<1>2. 0 \in Good
  BY <1>1
<1>3. \A i \in 0 .. k - 1 : i \in Good => i + 1 \in Good
  <2>. SUFFICES ASSUME NEW i \in 0 .. k - 1, i \in Good PROVE i + 1 \in Good
    OBVIOUS
  <2>1. i + 1 \in 1 .. k /\ i + 1 \in 1 .. n /\ (i + 1) - 1 = i
    OBVIOUS
  <2>. QED BY <1>1, <2>1
<1>4. \A i \in 0 .. k : i \in Good
  <2>. HIDE DEF Good
  <2>1. k \in Nat
    OBVIOUS
  <2>. QED BY <2>1, <1>2, <1>3, UpwardInduction
<1>. QED BY <1>4

(* Numbers that are 0 beyond k have their whole total there. *)
LEMMA TotalEnds ==
  ASSUME NEW n \in Nat, NEW a \in [1 .. n -> Int], NEW k \in 0 .. n,
         \A i \in k + 1 .. n : a[i] = 0
  PROVE  Totals(a)[n] = Totals(a)[k]
<1>. DEFINE Good == {i \in 0 .. n : i >= k => Totals(a)[i] = Totals(a)[k]}
<1>1. /\ Totals(a)[0] = 0 /\ \A i \in 1 .. n : Totals(a)[i] = Totals(a)[i - 1] + a[i]
      /\ Totals(a) \in [0 .. n -> Int]
  BY RunningTotals
<1>2. 0 \in Good
  OBVIOUS
<1>3. \A i \in 0 .. n - 1 : i \in Good => i + 1 \in Good
  <2>. SUFFICES ASSUME NEW i \in 0 .. n - 1, i \in Good, i + 1 > k PROVE i + 1 \in Good
    OBVIOUS
  <2>1. i + 1 \in k + 1 .. n /\ i + 1 \in 1 .. n /\ (i + 1) - 1 = i /\ i >= k
    OBVIOUS
  <2>2. Totals(a)[i] \in Int
    BY <1>1
  <2>3. Totals(a)[i + 1] = Totals(a)[i] + 0
    BY <1>1, <2>1
  <2>. QED BY <2>1, <2>2, <2>3
<1>4. \A i \in 0 .. n : i \in Good
  <2>. HIDE DEF Good
  <2>. QED BY <1>2, <1>3, UpwardInduction
<1>. QED BY <1>4

(* The total of differences is the difference of the totals. *)
LEMMA TotalsApart ==
  ASSUME NEW n \in Nat, NEW a \in [1 .. n -> Int], NEW b \in [1 .. n -> Int],
         NEW c \in [1 .. n -> Int], \A i \in 1 .. n : a[i] = b[i] - c[i]
  PROVE  Totals(a)[n] = Totals(b)[n] - Totals(c)[n]
<1>. DEFINE Good == {i \in 0 .. n : Totals(a)[i] = Totals(b)[i] - Totals(c)[i]}
<1>1. /\ Totals(a)[0] = 0 /\ \A i \in 1 .. n : Totals(a)[i] = Totals(a)[i - 1] + a[i]
      /\ Totals(b)[0] = 0 /\ \A i \in 1 .. n : Totals(b)[i] = Totals(b)[i - 1] + b[i]
      /\ Totals(c)[0] = 0 /\ \A i \in 1 .. n : Totals(c)[i] = Totals(c)[i - 1] + c[i]
      /\ Totals(b) \in [0 .. n -> Int] /\ Totals(c) \in [0 .. n -> Int]
  BY RunningTotals
<1>2. 0 \in Good
  BY <1>1
<1>3. \A i \in 0 .. n - 1 : i \in Good => i + 1 \in Good
  <2>. SUFFICES ASSUME NEW i \in 0 .. n - 1, i \in Good PROVE i + 1 \in Good
    OBVIOUS
  <2>1. i + 1 \in 1 .. n /\ (i + 1) - 1 = i
    OBVIOUS
  <2>2. Totals(b)[i] \in Int /\ Totals(c)[i] \in Int /\ b[i + 1] \in Int /\ c[i + 1] \in Int
    BY <1>1, <2>1
  <2>3. /\ Totals(a)[i + 1] = (Totals(b)[i] - Totals(c)[i]) + (b[i + 1] - c[i + 1])
        /\ Totals(b)[i + 1] = Totals(b)[i] + b[i + 1]
        /\ Totals(c)[i + 1] = Totals(c)[i] + c[i + 1]
    BY <1>1, <2>1
  <2>. QED BY <2>1, <2>2, <2>3
<1>4. \A i \in 0 .. n : i \in Good
  <2>. HIDE DEF Good
  <2>. QED BY <1>2, <1>3, UpwardInduction
<1>. QED BY <1>4

-----------------------------------------------------------------------------
(* Sets in order. *)

(* A relation that puts every two elements of a set in an order.           *)
Orders(R, S) ==
  \A x, y \in S :
    /\ <<x, x>> \notin R
    /\ x # y => (<<x, y>> \in R \/ <<y, x>> \in R)
    /\ \A z \in S : (<<x, y>> \in R /\ <<y, z>> \in R) => <<x, z>> \in R

Earlier(S, R, x) == {y \in S : <<y, x>> \in R}

(* Under an order of the set the element with more before it is later.     *)
LEMMA RanksRise ==
  ASSUME NEW S, IsFiniteSet(S), NEW R, Orders(R, S)
  PROVE  /\ \A x \in S : Cardinality(Earlier(S, R, x)) \in 0 .. Cardinality(S) - 1
         /\ \A x, y \in S :
              <<x, y>> \in R <=> Cardinality(Earlier(S, R, x)) < Cardinality(Earlier(S, R, y))
         /\ \A x, y \in S :
              Cardinality(Earlier(S, R, x)) = Cardinality(Earlier(S, R, y)) => x = y
<1>1. PICK rank : rank = [x \in S |-> Cardinality(Earlier(S, R, x))]
  OBVIOUS
<1>2. \A x \in S : rank[x] = Cardinality(Earlier(S, R, x))
  BY <1>1
<1>3. \A x \in S : IsFiniteSet(Earlier(S, R, x)) /\ rank[x] \in Nat
  <2>1. \A x \in S : Earlier(S, R, x) \in SUBSET S
    BY DEF Earlier
  <2>. QED BY <1>2, <2>1, FS_Subset, FS_CardinalityType
<1>4. ASSUME NEW x \in S PROVE rank[x] \in 0 .. Cardinality(S) - 1
  <2>1. Earlier(S, R, x) \in SUBSET S /\ x \notin Earlier(S, R, x)
    BY DEF Earlier, Orders
  <2>2. Earlier(S, R, x) # S
    BY <2>1
  <2>3. rank[x] <= Cardinality(S) /\ rank[x] # Cardinality(S)
    BY <1>2, <2>1, <2>2, FS_Subset
  <2>. QED BY <1>3, <2>3, FS_CardinalityType
<1>5. ASSUME NEW x \in S, NEW y \in S, <<x, y>> \in R PROVE rank[x] < rank[y]
  <2>1. \A z \in Earlier(S, R, x) : z \in Earlier(S, R, y)
    BY <1>5 DEF Earlier, Orders
  <2>2. x \in Earlier(S, R, y) /\ x \notin Earlier(S, R, x)
    BY <1>5 DEF Earlier, Orders
  <2>3. Earlier(S, R, x) \in SUBSET Earlier(S, R, y) /\ Earlier(S, R, x) # Earlier(S, R, y)
    BY <2>1, <2>2
  <2>4. rank[x] <= rank[y] /\ rank[x] # rank[y]
    BY <1>2, <1>3, <2>3, FS_Subset
  <2>. QED BY <1>3, <2>4
<1>6. \A x, y \in S : x = y \/ <<x, y>> \in R \/ <<y, x>> \in R
  BY DEF Orders
<1>7. \A x, y \in S : rank[x] \in Nat /\ rank[y] \in Nat
  BY <1>3
<1>8. ASSUME NEW x \in S, NEW y \in S PROVE <<x, y>> \in R <=> rank[x] < rank[y]
  <2>1. rank[x] \in Nat /\ rank[y] \in Nat
    BY <1>7
  <2>2. <<x, y>> \in R => rank[x] < rank[y]
    BY <1>5
  <2>3. <<y, x>> \in R => rank[y] < rank[x]
    BY <1>5
  <2>4. x = y \/ <<x, y>> \in R \/ <<y, x>> \in R
    BY <1>6
  <2>. QED BY <2>1, <2>2, <2>3, <2>4
<1>9. ASSUME NEW x \in S, NEW y \in S, rank[x] = rank[y] PROVE x = y
  <2>1. rank[x] \in Nat /\ rank[y] \in Nat
    BY <1>7
  <2>2. ~(rank[x] < rank[y]) /\ ~(rank[y] < rank[x])
    BY <1>9, <2>1
  <2>. QED BY <1>6, <1>8, <2>2
<1>. QED BY <1>2, <1>4, <1>8, <1>9

(* InOrder lists each element once, in the order.                          *)
LEMMA Listed ==
  ASSUME NEW S, IsFiniteSet(S), NEW R, Orders(R, S)
  PROVE  LET list == InOrder(S, R)
             n    == Cardinality(S)
         IN  /\ n \in Nat /\ DOMAIN list = 1 .. n /\ Len(list) = n
             /\ \A i \in 1 .. n :
                  list[i] \in S /\ Cardinality(Earlier(S, R, list[i])) = i - 1
             /\ \A x \in S : \E i \in 1 .. n : list[i] = x
             /\ \A i, j \in 1 .. n : <<list[i], list[j]>> \in R <=> i < j
<1>. DEFINE list == InOrder(S, R)
            n    == Cardinality(S)
            rank == [x \in S |-> Cardinality(Earlier(S, R, x))]
            ranks == {rank[x] : x \in S}
<1>1. n \in Nat
  BY FS_CardinalityType
<1>2. list = [i \in 1 .. n |->
                CHOOSE x \in S : Cardinality({y \in S : <<y, x>> \in R}) = i - 1]
  BY DEF InOrder
<1>3. /\ \A x \in S : rank[x] \in 0 .. n - 1
      /\ \A x, y \in S : <<x, y>> \in R <=> rank[x] < rank[y]
      /\ \A x, y \in S : rank[x] = rank[y] => x = y
  BY RanksRise
<1>4. \A x \in S : rank[x] = Cardinality(Earlier(S, R, x))
  OBVIOUS
<1>5. DOMAIN rank = S
  OBVIOUS
<1>. HIDE DEF rank, list
<1>6. Cardinality(ranks) = n
  BY <1>3, <1>5, ValuesFinite
<1>7. ranks = 0 .. n - 1
  <2>1. ranks \in SUBSET (0 .. n - 1)
    BY <1>3
  <2>2. IsFiniteSet(0 .. n - 1) /\ Cardinality(0 .. n - 1) = n
    BY <1>1, FS_Interval
  <2>. HIDE DEF ranks
  <2>. QED BY <1>6, <2>1, <2>2, FS_Subset
<1>8. ASSUME NEW i \in 1 .. n PROVE list[i] \in S /\ rank[list[i]] = i - 1
  <2>1. i - 1 \in 0 .. n - 1
    BY <1>1
  <2>2. \E x \in S : rank[x] = i - 1
    BY <1>7, <2>1
  <2>3. \E x \in S : Cardinality({y \in S : <<y, x>> \in R}) = i - 1
    BY <1>4, <2>2 DEF Earlier
  <2>4. list[i] \in S /\ Cardinality({y \in S : <<y, list[i]>> \in R}) = i - 1
    BY <1>2, <2>3
  <2>. QED BY <1>4, <2>4 DEF Earlier
<1>9. ASSUME NEW x \in S PROVE \E i \in 1 .. n : list[i] = x
  <2>1. rank[x] + 1 \in 1 .. n /\ (rank[x] + 1) - 1 = rank[x]
    BY <1>1, <1>3
  <2>2. list[rank[x] + 1] \in S /\ rank[list[rank[x] + 1]] = rank[x]
    BY <1>8, <2>1
  <2>. QED BY <1>3, <2>1, <2>2
<1>10. ASSUME NEW i \in 1 .. n, NEW j \in 1 .. n PROVE <<list[i], list[j]>> \in R <=> i < j
  BY <1>3, <1>8
<1>11. DOMAIN list = 1 .. n /\ Len(list) = n
  BY <1>1, <1>2
<1>. QED BY <1>1, <1>4, <1>8, <1>9, <1>10, <1>11 DEF list

-----------------------------------------------------------------------------
(* The account of a report: rows, n of them, with whole results.           *)
Booked(rows, n) ==
  /\ n \in Nat /\ rows = [i \in 1 .. n |-> rows[i]]
  /\ \A i \in 1 .. n : rows[i].pnl \in Int

Curves == {curve \in Seq(Int) : curve # <<>>}

LEMMA CurveGrows ==
  ASSUME NEW curve \in Curves, NEW x \in Int
  PROVE  /\ Append(curve, curve[Len(curve)] + x) \in Curves
         /\ curve[Len(curve)] \in Int /\ Len(curve) \in Nat \ {0}
<1>1. curve \in Seq(Int) /\ Len(curve) \in Nat /\ Len(curve) # 0
  BY DEF Curves
<1>2. curve[Len(curve)] \in Int
  BY <1>1
<1>. DEFINE longer == Append(curve, curve[Len(curve)] + x)
<1>3. longer \in Seq(Int) /\ Len(longer) = Len(curve) + 1
  BY <1>1, <1>2
<1>4. longer # <<>>
  BY <1>1, <1>3
<1>. QED BY <1>1, <1>2, <1>3, <1>4 DEF Curves

(* The loop of _equity_curve_from_trades, turn by turn.                    *)
LEMMA CurveByTurns ==
  ASSUME NEW n, NEW rows, Booked(rows, n)
  PROVE  \E f \in [0 .. n -> Curves] :
           /\ f[0] = <<StartingBalance>>
           /\ \A i \in 1 .. n : f[i] = Continued(f[i - 1], rows[i])
           /\ EquityCurve(rows) = f[n]
<1>. DEFINE Turn(f, i) == IF i = 0 THEN <<StartingBalance>> ELSE Continued(f[i - 1], rows[i])
<1>1. n \in Nat
  BY DEF Booked
<1>2. Len(rows) = n
  BY DEF Booked
<1>3. PICK turn : turn = [p \in Curves \X (1 .. n) |-> Continued(p[1], rows[p[2]])]
  OBVIOUS
<1>4. \A x \in Curves, i \in 1 .. n : turn[<<x, i>>] = Continued(x, rows[i])
  BY <1>3
<1>5. PICK f \in [0 .. n -> Curves] : Loops(f, <<StartingBalance>>, turn, n)
  <2>1. \A x \in Curves, i \in 1 .. n : Continued(x, rows[i]) \in Curves
    BY CurveGrows DEF Continued, Booked
  <2>2. Keeps(turn, Curves, n)
    BY <1>4, <2>1 DEF Keeps
  <2>3. <<StartingBalance>> \in Curves
    BY ReportAssumption DEF ReportAssumption, Curves
  <2>4. \E f \in [0 .. n -> Curves] : Loops(f, <<StartingBalance>>, turn, n)
    BY <1>1, <2>2, <2>3, Looping
  <2>. QED BY <2>4
<1>6. ASSUME NEW i \in 1 .. n PROVE f[i] = Continued(f[i - 1], rows[i])
  <2>1. f[i - 1] \in Curves
    BY <1>1
  <2>. QED BY <1>4, <1>5, <2>1 DEF Loops
<1>7. f = [i \in 0 .. n |-> Turn(f, i)]
  <2>1. ASSUME NEW i \in 0 .. n PROVE f[i] = Turn(f, i)
    <3>1. CASE i = 0
      BY <1>5, <3>1 DEF Loops
    <3>2. CASE i # 0
      <4>1. i \in 1 .. n
        BY <1>1, <3>2
      <4>. QED BY <1>6, <3>2, <4>1
    <3>. QED BY <3>1, <3>2
  <2>. HIDE DEF Turn
  <2>. QED BY <2>1
<1>8. PICK g : /\ g = [i \in 0 .. n |-> Turn(g, i)]
               /\ EquityCurve(rows) = g[n]
  <2>. DEFINE h == CHOOSE g : g = [i \in 0 .. n |-> Turn(g, i)]
  <2>1. EquityCurve(rows) = h[n]
    BY <1>2 DEF EquityCurve
  <2>2. h = [i \in 0 .. n |-> Turn(h, i)]
    BY <1>7
  <2>. HIDE DEF h
  <2>. QED BY <2>1, <2>2
<1>. DEFINE Good == {i \in 0 .. n : g[i] = f[i]}
<1>9. 0 \in Good
  BY <1>1, <1>5, <1>8 DEF Loops
<1>10. ASSUME NEW k \in 0 .. n - 1, k \in Good PROVE k + 1 \in Good
  <2>1. k + 1 \in 1 .. n /\ k + 1 \in 0 .. n /\ (k + 1) - 1 = k /\ k + 1 # 0
    BY <1>1
  <2>2. g[k + 1] = Continued(g[k], rows[k + 1])
    BY <1>8, <2>1
  <2>3. f[k + 1] = Continued(f[k], rows[k + 1])
    BY <1>6, <2>1
  <2>. QED BY <1>10, <2>1, <2>2, <2>3
<1>11. \A i \in 0 .. n : i \in Good
  <2>. HIDE DEF Good
  <2>. QED BY <1>1, <1>9, <1>10, UpwardInduction
<1>12. g[n] = f[n]
  BY <1>1, <1>11
<1>. QED BY <1>5, <1>6, <1>8, <1>12 DEF Loops

Falls == [balance : Int, peak : Int, worst : Int]

Even == [balance |-> StartingBalance, peak |-> StartingBalance, worst |-> 0]

LEMMA MaxOfTwo ==
  ASSUME NEW a \in Int, NEW b \in Int
  PROVE  Max({a, b}) = IF a >= b THEN a ELSE b
BY DEF Max

(* One turn of the loop of _max_drawdown.                                  *)
LEMMA FallStays ==
  ASSUME NEW fall \in Falls, NEW row, row.pnl \in Int
  PROVE  /\ Drawn(fall, row) \in Falls
         /\ ~Closed(row) => Drawn(fall, row) = fall
         /\ Closed(row) =>
              LET balance == fall.balance + row.pnl
                  peak    == IF fall.peak >= balance THEN fall.peak ELSE balance
                  depth   == peak - balance
              IN  Drawn(fall, row)
                    = [balance |-> balance, peak |-> peak,
                       worst |-> IF fall.worst >= depth THEN fall.worst ELSE depth]
<1>. DEFINE balance == fall.balance + row.pnl
            peak    == IF fall.peak >= balance THEN fall.peak ELSE balance
            depth   == peak - balance
            worst   == IF fall.worst >= depth THEN fall.worst ELSE depth
<1>1. fall.balance \in Int /\ fall.peak \in Int /\ fall.worst \in Int
  BY DEF Falls
<1>2. balance \in Int
  BY <1>1
<1>. HIDE DEF balance
<1>3. Max({fall.peak, balance}) = peak /\ peak \in Int
  BY <1>1, <1>2, MaxOfTwo
<1>. HIDE DEF peak
<1>4. depth \in Int /\ Max({fall.worst, depth}) = worst /\ worst \in Int
  BY <1>1, <1>2, <1>3, MaxOfTwo
<1>5. Drawn(fall, row) = IF ~Closed(row) THEN fall
                         ELSE [balance |-> balance, peak |-> peak, worst |-> worst]
  BY <1>3, <1>4 DEF Drawn, balance
<1>. QED BY <1>2, <1>3, <1>4, <1>5 DEF Falls, balance, peak

(* And all its turns.                                                      *)
LEMMA FallByTurns ==
  ASSUME NEW n, NEW rows, Booked(rows, n)
  PROVE  \E f \in [0 .. n -> Falls] :
           /\ f[0] = Even
           /\ \A i \in 1 .. n : f[i] = Drawn(f[i - 1], rows[i])
           /\ MaxDrawdown(rows) = f[n].worst
<1>. DEFINE Turn(f, i) == IF i = 0 THEN Even ELSE Drawn(f[i - 1], rows[i])
<1>1. n \in Nat
  BY DEF Booked
<1>2. Len(rows) = n
  BY DEF Booked
<1>3. PICK turn : turn = [p \in Falls \X (1 .. n) |-> Drawn(p[1], rows[p[2]])]
  OBVIOUS
<1>4. \A x \in Falls, i \in 1 .. n : turn[<<x, i>>] = Drawn(x, rows[i])
  BY <1>3
<1>5. PICK f \in [0 .. n -> Falls] : Loops(f, Even, turn, n)
  <2>1. \A x \in Falls, i \in 1 .. n : Drawn(x, rows[i]) \in Falls
    BY FallStays DEF Booked
  <2>2. Keeps(turn, Falls, n)
    BY <1>4, <2>1 DEF Keeps
  <2>3. Even \in Falls
    BY ReportAssumption DEF ReportAssumption, Falls, Even
  <2>4. \E f \in [0 .. n -> Falls] : Loops(f, Even, turn, n)
    BY <1>1, <2>2, <2>3, Looping
  <2>. QED BY <2>4
<1>6. ASSUME NEW i \in 1 .. n PROVE f[i] = Drawn(f[i - 1], rows[i])
  <2>1. f[i - 1] \in Falls
    BY <1>1
  <2>. QED BY <1>4, <1>5, <2>1 DEF Loops
<1>7. f = [i \in 0 .. n |-> Turn(f, i)]
  <2>1. ASSUME NEW i \in 0 .. n PROVE f[i] = Turn(f, i)
    <3>1. CASE i = 0
      BY <1>5, <3>1 DEF Loops
    <3>2. CASE i # 0
      <4>1. i \in 1 .. n
        BY <1>1, <3>2
      <4>. QED BY <1>6, <3>2, <4>1
    <3>. QED BY <3>1, <3>2
  <2>. HIDE DEF Turn
  <2>. QED BY <2>1
<1>8. PICK g : /\ g = [i \in 0 .. n |-> Turn(g, i)]
               /\ MaxDrawdown(rows) = g[n].worst
  <2>. DEFINE h == CHOOSE g : g = [i \in 0 .. n |-> Turn(g, i)]
  <2>1. MaxDrawdown(rows) = h[n].worst
    BY <1>2 DEF MaxDrawdown, Even
  <2>2. h = [i \in 0 .. n |-> Turn(h, i)]
    BY <1>7
  <2>. HIDE DEF h
  <2>. QED BY <2>1, <2>2
<1>. DEFINE Good == {i \in 0 .. n : g[i] = f[i]}
<1>9. 0 \in Good
  BY <1>1, <1>5, <1>8 DEF Loops
<1>10. ASSUME NEW k \in 0 .. n - 1, k \in Good PROVE k + 1 \in Good
  <2>1. k + 1 \in 1 .. n /\ k + 1 \in 0 .. n /\ (k + 1) - 1 = k /\ k + 1 # 0
    BY <1>1
  <2>2. g[k + 1] = Drawn(g[k], rows[k + 1])
    BY <1>8, <2>1
  <2>3. f[k + 1] = Drawn(f[k], rows[k + 1])
    BY <1>6, <2>1
  <2>. QED BY <1>10, <2>1, <2>2, <2>3
<1>11. \A i \in 0 .. n : i \in Good
  <2>. HIDE DEF Good
  <2>. QED BY <1>1, <1>9, <1>10, UpwardInduction
<1>12. g[n] = f[n]
  BY <1>1, <1>11
<1>. QED BY <1>5, <1>6, <1>8, <1>12 DEF Loops

(* The loop of _max_drawdown has the last, the highest and the deepest of  *)
(* what the curve has so far.                                              *)
Tracks(fall, curve) ==
  /\ fall.balance = curve[Len(curve)]
  /\ \E i \in 1 .. Len(curve) : fall.peak = curve[i]
  /\ \A i \in 1 .. Len(curve) : curve[i] <= fall.peak
  /\ \E j \in 1 .. Len(curve) : \E i \in 1 .. j : fall.worst = curve[i] - curve[j]
  /\ \A j \in 1 .. Len(curve) : \A i \in 1 .. j : curve[i] - curve[j] <= fall.worst

(* Each turn of both loops keeps them so.                                  *)
LEMMA TracksOn ==
  ASSUME NEW fall \in Falls, NEW curve \in Curves, Tracks(fall, curve),
         NEW row, row.pnl \in Int, row.outcome # "BREAKEVEN"
  PROVE  Tracks(Drawn(fall, row), Continued(curve, row))
<1>1. CASE ~Closed(row)
  BY <1>1, FallStays DEF Closed, Continued
<1>2. CASE Closed(row)
  <2>. DEFINE n == Len(curve)
              balance == fall.balance + row.pnl
              peak    == IF fall.peak >= balance THEN fall.peak ELSE balance
              depth   == peak - balance
              worst   == IF fall.worst >= depth THEN fall.worst ELSE depth
  <2>1. PICK a : a = Drawn(fall, row)
    OBVIOUS
  <2>2. a.balance = balance /\ a.peak = peak /\ a.worst = worst
    BY <1>2, <2>1, FallStays
  <2>3. PICK c : c = Continued(curve, row)
    OBVIOUS
  <2>4. curve \in Seq(Int) /\ n \in Nat \ {0} /\ curve[n] \in Int
    BY CurveGrows DEF Curves
  <2>5. c = Append(curve, curve[n] + row.pnl)
    BY <1>2, <2>3 DEF Closed, Continued
  <2>6. Len(c) = n + 1 /\ c[n + 1] = balance /\ \A i \in 1 .. n : c[i] = curve[i]
    BY <2>4, <2>5 DEF Tracks
  <2>7. \A i \in 1 .. n : curve[i] \in Int
    BY <2>4
  <2>8. balance \in Int /\ fall.peak \in Int /\ fall.worst \in Int
    BY DEF Falls
  <2>. HIDE DEF n, balance
  <2>9. \E i \in 1 .. n + 1 : peak = c[i]
    <3>1. PICK i \in 1 .. n : fall.peak = curve[i]
      BY DEF Tracks, n
    <3>2. c[i] = fall.peak /\ i \in 1 .. n + 1 /\ n + 1 \in 1 .. n + 1
      BY <2>4, <2>6, <3>1
    <3>. QED BY <2>6, <3>2
  <2>10. \A i \in 1 .. n + 1 : c[i] <= peak
    <3>1. \A i \in 1 .. n : curve[i] <= fall.peak
      BY DEF Tracks, n
    <3>2. fall.peak <= peak /\ balance <= peak /\ peak \in Int
      BY <2>8
    <3>3. \A i \in 1 .. n : c[i] <= peak
      BY <2>6, <2>7, <2>8, <3>1, <3>2
    <3>. QED BY <2>4, <2>6, <3>2, <3>3
  <2>. HIDE DEF peak
  <2>11. peak \in Int
    BY <2>8 DEF peak
  <2>12. \E j \in 1 .. n + 1 : \E i \in 1 .. j : worst = c[i] - c[j]
    <3>1. CASE fall.worst >= depth
      <4>1. PICK j \in 1 .. n : \E i \in 1 .. j : fall.worst = curve[i] - curve[j]
        BY DEF Tracks, n
      <4>2. PICK i \in 1 .. j : fall.worst = curve[i] - curve[j]
        BY <4>1
      <4>3. j \in 1 .. n + 1 /\ c[i] = curve[i] /\ c[j] = curve[j]
        BY <2>4, <2>6
      <4>. QED BY <3>1, <4>2, <4>3
    <3>2. CASE ~(fall.worst >= depth)
      <4>1. PICK i \in 1 .. n + 1 : peak = c[i]
        BY <2>9
      <4>2. n + 1 \in 1 .. n + 1 /\ worst = c[i] - c[n + 1]
        BY <2>4, <2>6, <3>2, <4>1
      <4>. QED BY <4>2
    <3>. QED BY <3>1, <3>2
  <2>13. ASSUME NEW j \in 1 .. n + 1, NEW i \in 1 .. j PROVE c[i] - c[j] <= worst
    <3>1. fall.worst <= worst /\ depth <= worst /\ worst \in Int /\ depth \in Int
      BY <2>8, <2>11
    <3>. HIDE DEF worst
    <3>2. CASE j \in 1 .. n
      <4>1. i \in 1 .. n /\ c[i] = curve[i] /\ c[j] = curve[j]
        BY <2>4, <2>6, <3>2
      <4>2. curve[i] - curve[j] <= fall.worst
        BY <3>2 DEF Tracks, n
      <4>. QED BY <2>7, <2>8, <3>1, <3>2, <4>1, <4>2
    <3>3. CASE j = n + 1
      <4>1. i \in 1 .. n + 1 /\ c[i] <= peak /\ c[j] = balance
        BY <2>6, <2>10, <3>3
      <4>2. c[i] \in Int
        BY <2>4, <2>6, <2>7, <2>8, <4>1
      <4>. QED BY <2>8, <2>11, <3>1, <4>1, <4>2
    <3>. QED BY <2>4, <3>2, <3>3
  <2>14. a.balance = c[n + 1] /\ a.peak = peak /\ a.worst = worst
    BY <2>2, <2>6 DEF balance, peak
  <2>. HIDE DEF worst
  <2>15. Tracks(a, c)
    BY <2>6, <2>9, <2>10, <2>12, <2>13, <2>14 DEF Tracks
  <2>. QED BY <2>1, <2>3, <2>15
<1>. QED BY <1>1, <1>2

LEMMA GreatestIs ==
  ASSUME NEW S \in SUBSET Int, NEW m \in S, \A x \in S : x <= m
  PROVE  Max(S) = m
<1>1. Max(S) \in S /\ \A x \in S : Max(S) >= x
  BY DEF Max
<1>2. Max(S) >= m /\ Max(S) <= m /\ Max(S) \in Int /\ m \in Int
  BY <1>1
<1>. QED BY <1>2

(* The drawdown is the deepest fall of the curve. *)
LEMMA DrawdownIsDeepest ==
  ASSUME NEW n, NEW rows, Booked(rows, n), \A i \in 1 .. n : rows[i].outcome # "BREAKEVEN"
  PROVE  LET curve == EquityCurve(rows)
         IN  MaxDrawdown(rows)
               = Max(UNION {{curve[i] - curve[j] : i \in 1 .. j} : j \in DOMAIN curve})
<1>1. PICK f \in [0 .. n -> Curves] :
        /\ f[0] = <<StartingBalance>>
        /\ \A i \in 1 .. n : f[i] = Continued(f[i - 1], rows[i])
        /\ EquityCurve(rows) = f[n]
  BY CurveByTurns
<1>2. PICK g \in [0 .. n -> Falls] :
        /\ g[0] = Even
        /\ \A i \in 1 .. n : g[i] = Drawn(g[i - 1], rows[i])
        /\ MaxDrawdown(rows) = g[n].worst
  BY FallByTurns
<1>3. n \in Nat
  BY DEF Booked
<1>. DEFINE Good == {i \in 0 .. n : Tracks(g[i], f[i])}
<1>4. 0 \in Good
  <2>1. StartingBalance \in Int
    BY ReportAssumption DEF ReportAssumption
  <2>2. Tracks(Even, <<StartingBalance>>)
    BY <2>1 DEF Tracks, Even
  <2>. QED BY <1>1, <1>2, <1>3, <2>2
<1>5. ASSUME NEW k \in 0 .. n - 1, k \in Good PROVE k + 1 \in Good
  <2>1. k + 1 \in 1 .. n /\ (k + 1) - 1 = k /\ k \in 0 .. n
    BY <1>3
  <2>2. f[k] \in Curves /\ g[k] \in Falls /\ Tracks(g[k], f[k])
    BY <1>5, <2>1
  <2>3. rows[k + 1].pnl \in Int /\ rows[k + 1].outcome # "BREAKEVEN"
    BY <2>1 DEF Booked
  <2>4. Tracks(Drawn(g[k], rows[k + 1]), Continued(f[k], rows[k + 1]))
    BY <2>2, <2>3, TracksOn
  <2>5. f[k + 1] = Continued(f[k], rows[k + 1]) /\ g[k + 1] = Drawn(g[k], rows[k + 1])
    BY <1>1, <1>2, <2>1
  <2>. QED BY <2>1, <2>4, <2>5
<1>6. \A i \in 0 .. n : i \in Good
  <2>. HIDE DEF Good
  <2>. QED BY <1>3, <1>4, <1>5, UpwardInduction
<1>7. Tracks(g[n], f[n]) /\ f[n] \in Curves
  BY <1>3, <1>6
<1>8. PICK curve : curve = f[n]
  OBVIOUS
<1>. DEFINE depths == UNION {{curve[i] - curve[j] : i \in 1 .. j} : j \in DOMAIN curve}
<1>9. curve \in Seq(Int) /\ DOMAIN curve = 1 .. Len(curve)
  BY <1>7, <1>8 DEF Curves
<1>10. \A x : x \in depths <=> \E j \in 1 .. Len(curve) : \E i \in 1 .. j : x = curve[i] - curve[j]
  BY <1>9
<1>11. \A j \in 1 .. Len(curve) : \A i \in 1 .. j : curve[i] - curve[j] \in Int
  BY <1>9
<1>. HIDE DEF depths
<1>12. depths \in SUBSET Int
  BY <1>10, <1>11
<1>13. g[n].worst \in depths /\ \A x \in depths : x <= g[n].worst
  BY <1>7, <1>8, <1>10 DEF Tracks
<1>14. Max(depths) = g[n].worst
  BY <1>12, <1>13, GreatestIs
<1>. QED BY <1>1, <1>2, <1>8, <1>14 DEF depths

(* The last point of the curve is the balance after all decided trades.    *)
LEMMA CurveEnds ==
  ASSUME NEW n, NEW rows, Booked(rows, n)
  PROVE  LET curve == EquityCurve(rows)
         IN  curve[Len(curve)] = StartingBalance + Net(rows, {"WIN", "LOSS", "BREAKEVEN"})
<1>1. PICK f \in [0 .. n -> Curves] :
        /\ f[0] = <<StartingBalance>>
        /\ \A i \in 1 .. n : f[i] = Continued(f[i - 1], rows[i])
        /\ EquityCurve(rows) = f[n]
  BY CurveByTurns
<1>2. n \in Nat /\ Len(rows) = n /\ DOMAIN rows = 1 .. n /\ \A i \in 1 .. n : rows[i].pnl \in Int
  BY DEF Booked
<1>. DEFINE earned == Earned(rows, {"WIN", "LOSS", "BREAKEVEN"})
<1>3. /\ earned \in [1 .. n -> Int]
      /\ \A i \in 1 .. n : earned[i] = IF rows[i].outcome \in {"WIN", "LOSS", "BREAKEVEN"}
                                       THEN rows[i].pnl ELSE 0
  BY <1>2 DEF Earned
<1>. HIDE DEF earned
<1>4. /\ Totals(earned) \in [0 .. n -> Int] /\ Totals(earned)[0] = 0
      /\ \A i \in 1 .. n : Totals(earned)[i] = Totals(earned)[i - 1] + earned[i]
  BY <1>2, <1>3, RunningTotals
<1>5. StartingBalance \in Int
  BY ReportAssumption DEF ReportAssumption
<1>. DEFINE Good == {i \in 0 .. n : f[i][Len(f[i])] = StartingBalance + Totals(earned)[i]}
<1>6. 0 \in Good
  <2>1. f[0] = <<StartingBalance>> /\ Len(<<StartingBalance>>) = 1
    BY <1>1
  <2>2. f[0][Len(f[0])] = StartingBalance
    BY <2>1
  <2>. QED BY <1>2, <1>4, <1>5, <2>2
<1>7. ASSUME NEW k \in 0 .. n - 1, k \in Good PROVE k + 1 \in Good
  <2>1. k + 1 \in 1 .. n /\ (k + 1) - 1 = k /\ k \in 0 .. n
    BY <1>2
  <2>2. PICK curve \in Curves : curve = f[k]
    BY <2>1
  <2>3. curve \in Seq(Int) /\ Len(curve) \in Nat \ {0}
    BY CurveGrows DEF Curves
  <2>4. curve[Len(curve)] = StartingBalance + Totals(earned)[k] /\ Totals(earned)[k] \in Int
    BY <1>4, <1>7, <2>1, <2>2
  <2>5. PICK longer : longer = Continued(curve, rows[k + 1])
    OBVIOUS
  <2>6. longer[Len(longer)] = curve[Len(curve)] + earned[k + 1]
    <3>1. CASE rows[k + 1].outcome \in {"WIN", "LOSS", "BREAKEVEN"}
      <4>1. rows[k + 1].pnl \in Int /\ earned[k + 1] = rows[k + 1].pnl
        BY <1>2, <1>3, <2>1, <3>1
      <4>2. longer = Append(curve, curve[Len(curve)] + earned[k + 1])
        BY <2>5, <3>1, <4>1 DEF Continued
      <4>. QED BY <2>3, <4>1, <4>2
    <3>2. CASE rows[k + 1].outcome \notin {"WIN", "LOSS", "BREAKEVEN"}
      <4>1. longer = curve /\ earned[k + 1] = 0
        BY <1>3, <2>1, <2>5, <3>2 DEF Continued
      <4>. QED BY <1>5, <2>4, <4>1
    <3>. QED BY <3>1, <3>2
  <2>7. f[k + 1] = longer
    BY <1>1, <2>1, <2>2, <2>5
  <2>8. Totals(earned)[k + 1] = Totals(earned)[k] + earned[k + 1] /\ earned[k + 1] \in Int
    BY <1>3, <1>4, <2>1
  <2>. QED BY <1>5, <2>1, <2>4, <2>6, <2>7, <2>8
<1>8. \A i \in 0 .. n : i \in Good
  <2>. HIDE DEF Good
  <2>. QED BY <1>2, <1>6, <1>7, UpwardInduction
<1>. QED BY <1>1, <1>2, <1>8 DEF Net, earned

(* With rows in the order of their entries the trades entered up to a row  *)
(* are those listed up to it.                                              *)
LEMMA BalancesUpTo ==
  ASSUME NEW n, NEW rows, Booked(rows, n), \A i \in 1 .. n : rows[i].entry \in Int,
         \A i, j \in 1 .. n : i < j => rows[i].entry <= rows[j].entry,
         NEW i \in 1 .. n
  PROVE  Balances(rows)[i] = StartingBalance + SumOver(rows, ClosedUpTo(rows, i))
<1>1. n \in Nat /\ Len(rows) = n /\ DOMAIN rows = 1 .. n /\ \A j \in 1 .. n : rows[j].pnl \in Int
  BY DEF Booked
<1>. DEFINE closed == Earned(rows, {"WIN", "LOSS"})
            here   == [j \in 1 .. n |-> IF j \in ClosedUpTo(rows, i) THEN rows[j].pnl ELSE 0]
<1>2. \A j \in 1 .. n : j \in ClosedUpTo(rows, i) <=> Closed(rows[j]) /\ j <= i
  <2>. SUFFICES ASSUME NEW j \in 1 .. n
                PROVE  j \in ClosedUpTo(rows, i) <=> Closed(rows[j]) /\ j <= i
    OBVIOUS
  <2>1. j \in ClosedUpTo(rows, i)
          <=> /\ Closed(rows[j])
              /\ \/ rows[j].entry < rows[i].entry
                 \/ rows[j].entry = rows[i].entry /\ j <= i
    BY <1>1 DEF ClosedUpTo
  <2>2. rows[i].entry \in Int /\ rows[j].entry \in Int
    OBVIOUS
  <2>3. (j < i => rows[j].entry <= rows[i].entry) /\ (i < j => rows[i].entry <= rows[j].entry)
    OBVIOUS
  <2>4. j = i \/ j < i \/ i < j
    BY <1>1
  <2>5. CASE j = i
    BY <2>1, <2>2, <2>5
  <2>6. CASE j < i
    BY <2>1, <2>2, <2>3, <2>6
  <2>7. CASE i < j
    BY <2>1, <2>2, <2>3, <2>7
  <2>. QED BY <2>4, <2>5, <2>6, <2>7
<1>3. /\ closed \in [1 .. n -> Int]
      /\ \A j \in 1 .. n : closed[j] = IF Closed(rows[j]) THEN rows[j].pnl ELSE 0
  BY <1>1 DEF Earned, Closed
<1>4. /\ here \in [1 .. n -> Int]
      /\ \A j \in 1 .. n : here[j] = IF Closed(rows[j]) /\ j <= i THEN rows[j].pnl ELSE 0
  BY <1>1, <1>2
<1>5. Balances(rows)[i] = StartingBalance + Totals(closed)[i]
  BY <1>1 DEF Balances
<1>6. SumOver(rows, ClosedUpTo(rows, i)) = Totals(here)[n]
  BY <1>1 DEF SumOver
<1>. HIDE DEF closed, here
<1>7. Totals(here)[n] = Totals(here)[i]
  <2>1. \A j \in i + 1 .. n : here[j] = 0
    BY <1>1, <1>4
  <2>2. i \in 0 .. n
    BY <1>1
  <2>. QED BY <1>1, <1>4, <2>1, <2>2, TotalEnds
<1>8. Totals(here)[i] = Totals(closed)[i]
  <2>1. ASSUME NEW j \in 1 .. i PROVE here[j] = closed[j]
    <3>1. j \in 1 .. n /\ j <= i
      BY <1>1
    <3>. QED BY <1>3, <1>4, <3>1
  <2>2. i \in 0 .. n
    BY <1>1
  <2>. QED BY <1>1, <1>3, <1>4, <2>1, <2>2, SameTotals
<1>. QED BY <1>5, <1>6, <1>7, <1>8

-----------------------------------------------------------------------------
(* What a file is and what its trades are. *)
Prices == [o : Int, h : Int, l : Int, c : Int]

(* m is a record of candles, the last of them at n or before. *)
Traded(m, n) ==
  /\ n \in Nat /\ DOMAIN m \subseteq 0 .. n /\ DOMAIN m # {}
  /\ \A t \in DOMAIN m : m[t] \in Prices

LEMMA Elements ==
  ASSUME NEW S, NEW s \in Seq(S), s # <<>>
  PROVE  /\ DOMAIN s = 1 .. Len(s) /\ Len(s) \in Nat /\ DOMAIN s # {}
         /\ \A i \in DOMAIN s : s[i] \in S
<1>1. DOMAIN s = 1 .. Len(s) /\ Len(s) \in Nat /\ Len(s) # 0
  OBVIOUS
<1>2. \A i \in 1 .. Len(s) : s[i] \in S
  OBVIOUS
<1>3. 1 \in 1 .. Len(s)
  BY <1>1
<1>. QED BY <1>1, <1>2, <1>3

(* A file that can be simulated is such a record.                          *)
LEMMA FileTraded ==
  ASSUME NEW f \in Simulable PROVE \E n : Traded(Loaded[f], n)
<1>1. PICK rows : rows = Csvs[f].rows
  OBVIOUS
<1>. DEFINE times == {rows[i].t : i \in DOMAIN rows}
            at == [i \in DOMAIN rows |-> rows[i].t]
<1>2. f \in Accepted /\ f \in Files
  BY DEF Simulable, Accepted
<1>3. rows \in Seq([t : Nat, bar : Prices]) /\ rows # <<>>
  <2>1. rows \in Seq([t : Nat, bar : Prices])
    BY <1>1, <1>2, FilesAssumption DEF FilesAssumption, Prices
  <2>. QED BY <1>1, <2>1 DEF Simulable, Runnable
<1>4. PICK Lines : Lines = [t : Nat, bar : Prices]
  OBVIOUS
<1>5. /\ DOMAIN rows = 1 .. Len(rows) /\ Len(rows) \in Nat /\ DOMAIN rows # {}
       /\ \A i \in DOMAIN rows : rows[i] \in Lines
  BY <1>3, <1>4, Elements
<1>6. \A i \in DOMAIN rows : rows[i].t \in Nat /\ rows[i].bar \in Prices
  BY <1>4, <1>5
<1>7. times \in SUBSET Nat /\ times # {}
  BY <1>5, <1>6
<1>8. IsFiniteSet(times)
  <2>1. IsFiniteSet(DOMAIN rows)
    BY <1>5, FS_Interval
  <2>2. times = {at[i] : i \in DOMAIN rows} /\ DOMAIN at = DOMAIN rows
    OBVIOUS
  <2>. HIDE DEF times, at
  <2>. QED BY <2>1, <2>2, ValuesFinite
<1>9. Loaded[f] = Load(Csvs[f])
  BY <1>2 DEF Loaded
<1>10. Loaded[f] = [t \in times |-> rows[CHOOSE i \in DOMAIN rows : rows[i].t = t].bar]
  BY <1>1, <1>9 DEF Load, Timestamps
<1>11. ASSUME NEW t \in times PROVE Loaded[f][t] \in Prices
  <2>1. PICK i \in DOMAIN rows : rows[i].t = t
    OBVIOUS
  <2>2. (CHOOSE j \in DOMAIN rows : rows[j].t = t) \in DOMAIN rows
    BY <2>1
  <2>. QED BY <1>6, <1>10, <2>2
<1>. HIDE DEF times
<1>12. Max(times) \in times /\ \A t \in times : t <= Max(times)
  <2>1. times \in SUBSET Int
    BY <1>7
  <2>. QED BY <1>7, <1>8, <2>1, GreatestOfIntegers
<1>13. PICK n \in Nat : \A t \in times : t <= n
  BY <1>7, <1>12
<1>14. DOMAIN Loaded[f] = times
  BY <1>10
<1>15. \A t \in times : t \in 0 .. n
  BY <1>7, <1>13
<1>16. Traded(Loaded[f], n)
  BY <1>7, <1>11, <1>14, <1>15 DEF Traded
<1>. QED BY <1>16

(* The candles of every timeframe have whole prices. *)
LEMMA ProfileTyped ==
  ASSUME NEW m, NEW n, Traded(m, n), NEW tf \in Nat \ {0}
  PROVE  /\ DOMAIN Profile(tf, m) \subseteq 0 .. n
         /\ \A t \in DOMAIN Profile(tf, m) : Profile(tf, m)[t] \in Prices
<1>1. n \in Nat /\ DOMAIN m \subseteq 0 .. n /\ DOMAIN m # {}
      /\ \A t \in DOMAIN m : m[t] \in Prices
  BY DEF Traded
<1>2. CASE tf = 1
  BY <1>1, <1>2 DEF Profile
<1>3. CASE tf # 1
  <2>1. Profile(tf, m) = [t \in Blocks(tf, m) |-> Synthetic(tf, m, t)]
    BY <1>3 DEF Profile
  <2>2. ASSUME NEW t \in Blocks(tf, m) PROVE t \in 0 .. n /\ Synthetic(tf, m, t) \in Prices
    <3>. DEFINE block == t .. t + tf - 1
                high  == [x \in block |-> m[x].h]
                low   == [x \in block |-> m[x].l]
                highs == {high[x] : x \in block}
                lows  == {low[x] : x \in block}
    <3>1. t \in DOMAIN m /\ block \subseteq DOMAIN m
      BY <1>1, BlocksComplete
    <3>2. t \in Nat /\ IsFiniteSet(block) /\ t \in block /\ t + tf - 1 \in block
      <4>1. t \in Nat /\ t + tf - 1 \in Int
        BY <1>1, <3>1
      <4>2. IsFiniteSet(block)
        BY <4>1, FS_Interval
      <4>. QED BY <4>1, <4>2
    <3>3. \A x \in block : high[x] = m[x].h /\ low[x] = m[x].l
      OBVIOUS
    <3>4. \A x \in block : m[x].h \in Int /\ m[x].l \in Int /\ m[x].o \in Int /\ m[x].c \in Int
      BY <1>1, <3>1 DEF Prices
    <3>5. DOMAIN high = block /\ DOMAIN low = block
      OBVIOUS
    <3>. HIDE DEF block, high, low
    <3>6. IsFiniteSet(highs) /\ IsFiniteSet(lows)
      BY <3>2, <3>5, ValuesFinite
    <3>7. highs \in SUBSET Int /\ lows \in SUBSET Int /\ highs # {} /\ lows # {}
      BY <3>2, <3>3, <3>4
    <3>8. highs = {m[x].h : x \in block} /\ lows = {m[x].l : x \in block}
      BY <3>3
    <3>. HIDE DEF highs, lows
    <3>9. Max(highs) \in Int /\ Min(lows) \in Int
      <4>1. Max(highs) \in highs
        BY <3>6, <3>7, GreatestOfIntegers
      <4>2. Min(lows) \in lows
        BY <3>6, <3>7, LeastOfIntegers
      <4>. QED BY <3>7, <4>1, <4>2
    <3>10. Synthetic(tf, m, t) = Bar(m[t].o, Max(highs), Min(lows), m[t + tf - 1].c)
      BY <3>8 DEF Synthetic, block
    <3>. QED BY <1>1, <3>1, <3>2, <3>4, <3>9, <3>10 DEF Bar, Prices
  <2>. QED BY <2>1, <2>2
<1>. QED BY <1>2, <1>3

(* A swing has a whole price, and is known by its kind and minute. *)
LEMMA SwingTyped ==
  ASSUME NEW n \in Nat, NEW series, DOMAIN series \subseteq 0 .. n, NEW tf,
         \A t \in DOMAIN series : series[t] \in Prices
  PROVE  /\ \A s \in Swings(tf, series) :
              s.kind \in Kinds /\ s.price \in Int /\ s.t \in Nat
         /\ \A s, r \in Swings(tf, series) : s.kind = r.kind /\ s.t = r.t => s = r
<1>1. ASSUME NEW s \in Swings(tf, series)
      PROVE  \E t \in DOMAIN series :
               \/ s = SwingHigh(tf, series, t) /\ s.kind = "HIGH" /\ s.t = t /\ s.price = series[t].h
               \/ s = SwingLow(tf, series, t) /\ s.kind = "LOW" /\ s.t = t /\ s.price = series[t].l
  <2>1. PICK t \in Middles(tf, series) :
          s = SwingHigh(tf, series, t) \/ s = SwingLow(tf, series, t)
    BY DEF Swings, SwingHighs, SwingLows
  <2>2. t \in DOMAIN series
    BY <2>1 DEF Middles
  <2>. QED BY <2>1, <2>2 DEF SwingHigh, SwingLow
<1>2. \A t \in DOMAIN series : t \in Nat /\ series[t].h \in Int /\ series[t].l \in Int
  BY DEF Prices
<1>. QED BY <1>1, <1>2 DEF Kinds

LEMMA GapTyped ==
  ASSUME NEW n \in Nat, NEW series, DOMAIN series \subseteq 0 .. n, NEW tf, NEW expansions,
         \A t \in DOMAIN series : series[t] \in Prices,
         NEW gap \in Gaps(tf, series, expansions)
  PROVE  gap.completion \in Int
<1>1. PICK t \in Middles(tf, series) : gap \in {BearishGap(tf, series, t, expansions),
                                                BullishGap(tf, series, t, expansions)}
  BY DEF Gaps
<1>2. t + tf \in DOMAIN series
  BY DEF Middles
<1>3. series[t + tf].l \in Int /\ series[t + tf].h \in Int
  BY <1>2 DEF Prices
<1>. QED BY <1>1, <1>3 DEF BearishGap, BullishGap, Window

(* What the view of a record looks at. *)
LEMMA ViewTyped ==
  ASSUME NEW m, NEW n, Traded(m, n), NEW p, NEW v, v = View(p, m)
  PROVE  /\ v.m = m /\ v.p = p
         /\ \A s \in v.expansions :
              s.kind \in Kinds /\ s.price \in Int /\ s.t \in Nat
         /\ \A s, r \in v.expansions : s.kind = r.kind /\ s.t = r.t => s = r
         /\ \A gap \in v.main : gap.t \in Nat /\ gap.completion \in Int
         /\ \A gap \in v.retrace : gap.t \in Nat
         /\ \A t \in DOMAIN v.windowBars : v.windowBars[t] \in Prices
         /\ IsFiniteSet(DOMAIN v.windowBars) /\ IsFiniteSet(v.expansions)
<1>. DEFINE series(tf) == Profile(tf, m)
<1>1. n \in Nat
  BY DEF Traded
<1>2. {SwingTf, MainTf, RetraceTf, WindowTf} \subseteq Nat \ {0}
  BY FunnelAssumption DEF FunnelAssumption
<1>3. ASSUME NEW tf \in {SwingTf, MainTf, RetraceTf, WindowTf}
      PROVE  /\ DOMAIN series(tf) \subseteq 0 .. n
             /\ \A t \in DOMAIN series(tf) : series(tf)[t] \in Prices
  BY <1>2, ProfileTyped
<1>. DEFINE known == IF p.linked THEN ScanExpansions(m) ELSE {}
            swings == Swings(SwingTf, series(SwingTf))
<1>4. /\ v.m = m /\ v.p = p
      /\ v.expansions = Expansions(swings)
      /\ v.main = Gaps(MainTf, series(MainTf), known)
      /\ v.retrace = Gaps(RetraceTf, series(RetraceTf), {})
      /\ v.windowBars = series(WindowTf)
  BY DEF View, ViewWith
<1>. HIDE DEF known, swings, series
<1>5. /\ \A s \in swings : s.kind \in Kinds /\ s.price \in Int /\ s.t \in Nat
      /\ \A s, r \in swings : s.kind = r.kind /\ s.t = r.t => s = r
  BY <1>1, <1>3, SwingTyped DEF swings
<1>6. v.expansions \in SUBSET swings
  BY <1>4 DEF Expansions
<1>7. IsFiniteSet(v.expansions)
  <2>1. IsFiniteSet(swings)
    BY <1>1, <1>3, SwingsFinite DEF swings
  <2>. QED BY <1>6, <2>1, FS_Subset
<1>8. ASSUME NEW gap \in v.main PROVE gap.t \in Nat /\ gap.completion \in Int
  <2>1. DOMAIN series(MainTf) \subseteq 0 .. n
        /\ \A t \in DOMAIN series(MainTf) : series(MainTf)[t] \in Prices
    BY <1>3
  <2>2. DOMAIN series(MainTf) \in SUBSET Nat
    BY <1>1, <2>1
  <2>. QED BY <1>1, <1>4, <2>1, <2>2, GapTyped, GapsAtMinutes
<1>9. ASSUME NEW gap \in v.retrace PROVE gap.t \in Nat
  <2>1. DOMAIN series(RetraceTf) \in SUBSET Nat
    BY <1>1, <1>3
  <2>. QED BY <1>4, <2>1, GapsAtMinutes
<1>10. /\ \A t \in DOMAIN v.windowBars : v.windowBars[t] \in Prices
       /\ IsFiniteSet(DOMAIN v.windowBars)
  <2>1. DOMAIN series(WindowTf) \in SUBSET (0 .. n) /\ IsFiniteSet(0 .. n)
    BY <1>1, <1>3, FS_Interval
  <2>. QED BY <1>3, <1>4, <2>1, FS_Subset
<1>. QED BY <1>4, <1>5, <1>6, <1>7, <1>8, <1>9, <1>10

(* A direct entry is at a minute of the record and has a whole target. *)
LEMMA EntryTyped ==
  ASSUME NEW m, NEW n, Traded(m, n), NEW p, NEW v, v = View(p, m), NEW s,
         FunnelOutcome(v, s).result = "direct_entry"
  PROVE  /\ FunnelOutcome(v, s).entry \in DOMAIN m
         /\ FunnelOutcome(v, s).target \in Int
<1>. DEFINE main    == MainGap(v, s)
            gap     == First(RetraceGaps(v, s, main))
            window  == Retracement(v, main)
            retrace == FirstRetrace(v, gap, main, window)
            goal    == FinalTarget(v, s.kind, main, window)
            taps    == {t \in DOMAIN v.m : t >= retrace /\ Touches(gap, v.m[t])}
<1>1. \A stage, g, e, t : /\ Outcome(stage, g, e, t).result = stage
                          /\ Outcome(stage, g, e, t).entry = e
                          /\ Outcome(stage, g, e, t).target = t
  BY DEF Outcome
<1>2. \A r : Rejected(r).result = r
  BY <1>1 DEF Rejected
<1>3. /\ main # NoGap /\ DirectEntry(v, s, gap, retrace) # NoMinute
      /\ FunnelOutcome(v, s)
           = Outcome("direct_entry", gap, DirectEntry(v, s, gap, retrace), goal)
  BY <1>1, <1>2, ReactionIsNoEntry DEF FunnelOutcome
<1>4. DOMAIN v.m \in SUBSET Nat
  <2>1. v.m = m
    BY ViewTyped
  <2>2. \A t \in DOMAIN m : t \in Nat
    BY DEF Traded
  <2>. QED BY <2>1, <2>2
<1>5. main \in v.main
  <2>1. \A found : found = {g \in v.main : MatchesExpansion(v, g, s)} /\ found # {}
                     => First(found) \in found
    BY ViewTyped, FirstIsOne
  <2>. QED BY <1>3, <2>1 DEF MainGap
<1>6. main.completion \in Int
  BY <1>5, ViewTyped
<1>. HIDE DEF main, gap, retrace
<1>7. DirectEntry(v, s, gap, retrace) \in DOMAIN m
  <2>1. taps # {} /\ DirectEntry(v, s, gap, retrace) = Min(taps)
    BY <1>3 DEF DirectEntry
  <2>2. taps \in SUBSET Nat
    BY <1>4
  <2>3. Min(taps) \in taps
    BY <2>1, <2>2, MinOfNaturals
  <2>. QED BY <2>1, <2>3, ViewTyped
<1>8. goal \in Int
  <2>1. window \in SUBSET DOMAIN v.windowBars
    BY DEF Retracement
  <2>. HIDE DEF window
  <2>. DEFINE low  == [t \in window |-> v.windowBars[t].l]
              high == [t \in window |-> v.windowBars[t].h]
              lows == {low[t] : t \in window}
              highs == {high[t] : t \in window}
  <2>2. IsFiniteSet(window)
    BY <2>1, ViewTyped, FS_Subset
  <2>3. \A t \in window : low[t] \in Int /\ high[t] \in Int
    BY <2>1, ViewTyped DEF Prices
  <2>4. DOMAIN low = window /\ DOMAIN high = window
    OBVIOUS
  <2>5. lows = {v.windowBars[t].l : t \in window} /\ highs = {v.windowBars[t].h : t \in window}
    OBVIOUS
  <2>. HIDE DEF low, high
  <2>6. IsFiniteSet(lows) /\ IsFiniteSet(highs)
    BY <2>2, <2>4, ValuesFinite
  <2>7. lows \in SUBSET Int /\ highs \in SUBSET Int
    BY <2>3
  <2>. HIDE DEF lows, highs
  <2>8. /\ {main.completion} \union lows \in SUBSET Int
        /\ {main.completion} \union highs \in SUBSET Int
        /\ {main.completion} \union lows # {} /\ {main.completion} \union highs # {}
    BY <1>6, <2>7
  <2>9. IsFiniteSet({main.completion} \union lows) /\ IsFiniteSet({main.completion} \union highs)
    BY <2>6, FS_Singleton, FS_Union
  <2>10. Min({main.completion} \union lows) \in Int /\ Max({main.completion} \union highs) \in Int
    <3>1. Min({main.completion} \union lows) \in {main.completion} \union lows
      BY <2>8, <2>9, LeastOfIntegers
    <3>2. Max({main.completion} \union highs) \in {main.completion} \union highs
      BY <2>8, <2>9, GreatestOfIntegers
    <3>. QED BY <2>8, <3>1, <3>2
  <2>. QED BY <2>5, <2>10 DEF FinalTarget, BearishTarget, BullishTarget
<1>. HIDE DEF window, goal
<1>. QED BY <1>1, <1>3, <1>7, <1>8

(* The candles in which a trade could end. *)
Hits(m, kind, entry, stop, target) ==
  {t \in DOMAIN m : /\ t > entry
                    /\ Stops(kind, m[t], stop) \/ Reaches(kind, m[t], target)}

(* What a listed trade is: entered at a candle, with a risk, and decided   *)
(* by the first candle that reaches its stop or its target.                *)
Sound(trade, m, kind) ==
  LET price == m[trade.entry].c
      hits  == Hits(m, kind, trade.entry, trade.stop, trade.target)
  IN  /\ trade.swing.kind = kind /\ trade.entry \in DOMAIN m
      /\ price \in Int /\ trade.stop \in Int /\ trade.target \in Int
      /\ StopDistance(kind, price, trade.stop) > 0
      /\ \/ trade.result = "OPEN" /\ hits = {}
         \/ /\ hits # {} /\ trade.exit = Min(hits)
            /\ trade.result = IF Stops(kind, m[Min(hits)], trade.stop) THEN "LOSS" ELSE "WIN"

(* Every trade of a funnel's list is sound; a bearish one whose target is  *)
(* not the leg's has the fixed multiple of its risk.                       *)
LEMMA ListedTrade ==
  ASSUME NEW m, NEW n, Traded(m, n), NEW p, NEW v, v = View(p, m),
         NEW kind \in Kinds, NEW trade \in TradeList(v, kind)
  PROVE  /\ Sound(trade, m, kind) /\ trade.swing \in v.expansions
         /\ trade = Simulate(v, trade.swing, FunnelOutcome(v, trade.swing))
         /\ kind = "HIGH" /\ ~p.legTarget =>
              trade.target = m[trade.entry].c - FixedReward(trade.stop - m[trade.entry].c)
<1>1. PICK s \in Entries(Outcomes(v, kind)) : trade = Simulate(v, s, Outcomes(v, kind)[s])
  BY DEF TradeList, Simulated
<1>2. /\ s \in v.expansions /\ s.kind = kind
      /\ trade = Simulate(v, s, FunnelOutcome(v, s))
      /\ FunnelOutcome(v, s).result = "direct_entry"
  BY <1>1 DEF Entries, Outcomes, ValidExpansions
<1>3. trade.swing = s /\ trade.result # "RISK_REJECTED"
  BY <1>2, SimulatedTrade DEF TradeList
<1>4. PICK outcome : outcome = FunnelOutcome(v, s)
  OBVIOUS
<1>5. outcome.entry \in DOMAIN m /\ outcome.target \in Int
  BY <1>2, <1>4, EntryTyped
<1>6. v.m = m /\ v.p = p /\ s.price \in Int
  BY <1>2, ViewTyped
<1>. DEFINE price == m[outcome.entry].c
            reward == FixedReward(StopDistance(kind, price, s.price))
            target == TakeProfit(p, outcome.target, price, IF kind = "HIGH" THEN -reward ELSE reward)
<1>7. price \in Int
  BY <1>5 DEF Traded, Prices
<1>. HIDE DEF price
<1>8. reward \in Int /\ StopDistance(kind, price, s.price) \in Int
  <2>1. StopDistance(kind, price, s.price) \in Int
    BY <1>6, <1>7 DEF StopDistance
  <2>2. RrNum \in Nat \ {0} /\ RrDen \in Nat \ {0}
    BY FunnelAssumption DEF FunnelAssumption
  <2>3. PICK d \in Int : d = StopDistance(kind, price, s.price)
    BY <2>1
  <2>4. RrNum * d \in Int
    BY <2>2
  <2>5. (RrNum * d) \div RrDen \in Int
    BY <2>2, <2>4
  <2>. QED BY <2>1, <2>3, <2>5 DEF FixedReward
<1>. HIDE DEF reward
<1>9. target \in Int
  BY <1>5, <1>7, <1>8 DEF TakeProfit
<1>. HIDE DEF target
<1>10. /\ StopDistance(kind, price, s.price) > 0
       /\ trade = Decide(v, s, outcome, target)
  <2>1. \A st, ta, re, ex : Trade(s, outcome, st, ta, re, ex).result = re
    BY DEF Trade
  <2>2. CASE kind = "HIGH"
    <3>1. trade = SimulateBearish(v, s, outcome)
      BY <1>2, <1>4, <2>2 DEF Simulate
    <3>2. StopDistance(kind, price, s.price) = s.price - price
      BY <2>2 DEF StopDistance
    <3>. QED BY <1>3, <1>6, <1>7, <2>1, <2>2, <3>1, <3>2 DEF SimulateBearish, price, reward, target
  <2>3. CASE kind = "LOW"
    <3>1. trade = SimulateBullish(v, s, outcome)
      BY <1>2, <1>4, <2>3 DEF Simulate
    <3>2. StopDistance(kind, price, s.price) = price - s.price
      BY <2>3 DEF StopDistance
    <3>. QED BY <1>3, <1>6, <1>7, <2>1, <2>3, <3>1, <3>2 DEF SimulateBullish, price, reward, target
  <2>. QED BY <2>2, <2>3 DEF Kinds
<1>. DEFINE hits == Hits(m, kind, outcome.entry, s.price, target)
<1>11. /\ hits = {} => trade = Trade(s, outcome, s.price, target, "OPEN", NoMinute)
       /\ hits # {} => trade = Trade(s, outcome, s.price, target,
                                     IF Stops(kind, m[Min(hits)], s.price) THEN "LOSS" ELSE "WIN",
                                     Min(hits))
  BY <1>2, <1>6, <1>10 DEF Decide, Hits, ExitCandle
<1>. HIDE DEF hits
<1>12. /\ trade.entry = outcome.entry /\ trade.stop = s.price /\ trade.target = target
       /\ \/ trade.result = "OPEN" /\ hits = {}
          \/ /\ hits # {} /\ trade.exit = Min(hits)
             /\ trade.result = IF Stops(kind, m[Min(hits)], s.price) THEN "LOSS" ELSE "WIN"
  BY <1>11 DEF Trade
<1>13. Sound(trade, m, kind)
  BY <1>2, <1>3, <1>5, <1>6, <1>7, <1>9, <1>10, <1>12 DEF Sound, hits, price
<1>14. kind = "HIGH" /\ ~p.legTarget => target = price - FixedReward(s.price - price)
  BY <1>7, <1>8 DEF target, TakeProfit, reward, StopDistance
<1>. QED BY <1>2, <1>3, <1>12, <1>13, <1>14 DEF price

-----------------------------------------------------------------------------
(* The rows of a report. *)

(* run's order of the trades leaves no choice between any two.             *)
LEMMA TradesOrdered ==
  ASSUME NEW m, NEW n, Traded(m, n), NEW p, NEW v, v = View(p, m),
         NEW trades \in SUBSET CombinedTrades(v)
  PROVE  IsFiniteSet(trades) /\ Orders(ByEntry(trades), trades)
<1>1. ASSUME NEW a \in trades
      PROVE  /\ a.entry \in Nat /\ a.swing.kind \in Kinds /\ a.swing.t \in Nat
             /\ a.swing \in v.expansions
             /\ a = Simulate(v, a.swing, FunnelOutcome(v, a.swing))
  <2>1. PICK kind \in Kinds : a \in TradeList(v, kind)
    BY DEF CombinedTrades, Kinds
  <2>2. /\ Sound(a, m, kind) /\ a.swing \in v.expansions
        /\ a = Simulate(v, a.swing, FunnelOutcome(v, a.swing))
    BY <2>1, ListedTrade
  <2>3. a.swing.kind = kind /\ a.entry \in DOMAIN m
    BY <2>2 DEF Sound
  <2>4. \A t \in DOMAIN m : t \in Nat
    BY DEF Traded
  <2>. QED BY <2>2, <2>3, <2>4, ViewTyped
<1>2. IsFiniteSet(trades)
  <2>. DEFINE f == [s \in v.expansions |-> Simulate(v, s, FunnelOutcome(v, s))]
              all == {f[s] : s \in v.expansions}
  <2>1. trades \in SUBSET all
    BY <1>1
  <2>2. IsFiniteSet(v.expansions) /\ DOMAIN f = v.expansions
    BY ViewTyped
  <2>. HIDE DEF f
  <2>3. IsFiniteSet(all)
    BY <2>2, ValuesFinite
  <2>. QED BY <2>1, <2>3, FS_Subset
<1>3. ASSUME NEW a \in trades, NEW b \in trades
      PROVE  <<a, b>> \in ByEntry(trades)
               <=> \/ a.entry < b.entry
                   \/ a.entry = b.entry /\ a.swing.kind = "HIGH" /\ b.swing.kind = "LOW"
                   \/ /\ a.entry = b.entry /\ a.swing.kind = b.swing.kind
                      /\ a.swing.t < b.swing.t
  BY DEF ByEntry, Before
<1>4. ASSUME NEW a \in trades, NEW b \in trades, a # b
      PROVE  a.swing.kind # b.swing.kind \/ a.swing.t # b.swing.t
  BY <1>1, <1>4, ViewTyped
<1>5. ASSUME NEW a \in trades PROVE <<a, a>> \notin ByEntry(trades)
  <2>1. a.entry \in Nat /\ a.swing.t \in Nat
    BY <1>1
  <2>. QED BY <1>3, <2>1
<1>6. ASSUME NEW a \in trades, NEW b \in trades, a # b
      PROVE  <<a, b>> \in ByEntry(trades) \/ <<b, a>> \in ByEntry(trades)
  <2>1. /\ a.entry \in Nat /\ a.swing.t \in Nat /\ a.swing.kind \in {"HIGH", "LOW"}
        /\ b.entry \in Nat /\ b.swing.t \in Nat /\ b.swing.kind \in {"HIGH", "LOW"}
    BY <1>1 DEF Kinds
  <2>2. a.swing.kind # b.swing.kind \/ a.swing.t # b.swing.t
    BY <1>4, <1>6
  <2>. QED BY <1>3, <2>1, <2>2
<1>7. ASSUME NEW a \in trades, NEW b \in trades, NEW c \in trades,
             <<a, b>> \in ByEntry(trades), <<b, c>> \in ByEntry(trades)
      PROVE  <<a, c>> \in ByEntry(trades)
  <2>1. /\ a.entry \in Nat /\ a.swing.t \in Nat
        /\ b.entry \in Nat /\ b.swing.t \in Nat
        /\ c.entry \in Nat /\ c.swing.t \in Nat
    BY <1>1
  <2>. QED BY <1>3, <1>7, <2>1
<1>8. Orders(ByEntry(trades), trades)
  BY <1>5, <1>6, <1>7 DEF Orders
<1>. QED BY <1>2, <1>8

(* What a row says of the candles it comes from.                           *)
Decided(row, m) ==
  LET hits == Hits(m, row.kind, row.entry, row.stop, row.target)
      risk == StopDistance(row.kind, row.price, row.stop)
  IN  /\ {"target", "exit", "exitPrice", "reason", "pnl", "outcome"} \subseteq DOMAIN row
      /\ row.kind \in Kinds /\ row.entry \in DOMAIN m /\ row.price = m[row.entry].c
      /\ row.price \in Int /\ row.stop \in Int /\ row.target \in Int
      /\ risk \in Int /\ risk > 0 /\ row.size = FixedRisk \div risk /\ row.size \in Int
      /\ row.exit \in DOMAIN m /\ row.exitPrice \in Int
      /\ row.pnl = Pnl(row.kind, row.price, row.exitPrice, row.size) /\ row.pnl \in Int
      /\ \/ /\ hits = {} /\ row.outcome = "OPEN_OR_UNRESOLVED"
            /\ row.exit = Latest(m) /\ row.exitPrice = m[Latest(m)].c
         \/ /\ hits # {} /\ row.exit = Min(hits) /\ Stops(row.kind, m[Min(hits)], row.stop)
            /\ row.outcome = "LOSS" /\ row.exitPrice = row.stop
         \/ /\ hits # {} /\ row.exit = Min(hits) /\ ~Stops(row.kind, m[Min(hits)], row.stop)
            /\ row.outcome = "WIN" /\ row.exitPrice = row.target

(* The row of a sound trade.                                               *)
LEMMA RowDecided ==
  ASSUME NEW m, NEW n, Traded(m, n), NEW v, v.m = m, NEW profile,
         NEW kind \in Kinds, NEW trade, Sound(trade, m, kind)
  PROVE  LET row == Row(v, profile, trade)
         IN  /\ Decided(row, m) /\ row.kind = kind /\ row.entry = trade.entry
             /\ row.stop = trade.stop /\ row.target = trade.target
<1>. DEFINE price == m[trade.entry].c
            risk  == StopDistance(kind, price, trade.stop)
            size  == FixedRisk \div risk
            hits  == Hits(m, kind, trade.entry, trade.stop, trade.target)
            last  == Latest(m)
<1>1. /\ trade.swing.kind = kind /\ trade.entry \in DOMAIN m
      /\ price \in Int /\ trade.stop \in Int /\ trade.target \in Int /\ risk > 0
      /\ \/ trade.result = "OPEN" /\ hits = {}
         \/ /\ hits # {} /\ trade.exit = Min(hits)
            /\ trade.result = IF Stops(kind, m[Min(hits)], trade.stop) THEN "LOSS" ELSE "WIN"
  BY DEF Sound
<1>2. last \in DOMAIN m /\ m[last].c \in Int
  <2>1. last \in DOMAIN m
    BY LatestIsLast DEF Traded
  <2>. QED BY <2>1 DEF Traded, Prices
<1>3. hits # {} => Min(hits) \in DOMAIN m
  <2>1. hits \in SUBSET DOMAIN m
    BY DEF Hits
  <2>2. \A t \in DOMAIN m : t \in Nat
    BY DEF Traded
  <2>. HIDE DEF hits
  <2>3. hits \in SUBSET Nat
    BY <2>1, <2>2
  <2>. QED BY <2>1, <2>3, MinOfNaturals
<1>4. risk \in Int /\ size \in Int
  <2>1. risk \in Int
    BY <1>1 DEF StopDistance
  <2>2. FixedRisk \in Nat
    BY ReportAssumption DEF ReportAssumption
  <2>. HIDE DEF risk
  <2>. QED BY <1>1, <2>1, <2>2
<1>. DEFINE exit == CASE trade.result = "LOSS" -> trade.stop
                      [] trade.result = "WIN"  -> trade.target
                      [] trade.result = "OPEN" -> m[last].c
            pnl  == Pnl(kind, price, exit, size)
<1>5. PICK row : row = Row(v, profile, trade)
  OBVIOUS
<1>6. /\ row.kind = kind /\ row.entry = trade.entry /\ row.price = price
      /\ row.stop = trade.stop /\ row.target = trade.target /\ row.size = size
      /\ row.exit = (IF trade.result = "OPEN" THEN last ELSE trade.exit)
      /\ row.exitPrice = exit /\ row.outcome = OutcomeOf(trade) /\ row.pnl = pnl
  BY <1>1, <1>5 DEF Row
<1>. HIDE DEF size
<1>7. exit \in Int
  BY <1>1, <1>2
<1>8. /\ trade.result = "OPEN" => exit = m[last].c
      /\ trade.result = "LOSS" => exit = trade.stop
      /\ trade.result = "WIN" => exit = trade.target
  OBVIOUS
<1>. HIDE DEF exit, price
<1>9. pnl \in Int
  BY <1>1, <1>4, <1>7 DEF Pnl
<1>. HIDE DEF pnl
<1>10. /\ hits = Hits(m, row.kind, row.entry, row.stop, row.target)
       /\ risk = StopDistance(row.kind, row.price, row.stop)
       /\ pnl = Pnl(row.kind, row.price, row.exitPrice, row.size)
       /\ size = FixedRisk \div risk /\ price = m[trade.entry].c
  BY <1>6 DEF pnl, price, size
<1>. HIDE DEF hits, last, risk
<1>11. row.exit \in DOMAIN m
  BY <1>1, <1>2, <1>3, <1>6
<1>12. \/ /\ hits = {} /\ row.outcome = "OPEN_OR_UNRESOLVED"
          /\ row.exit = last /\ row.exitPrice = m[last].c
       \/ /\ hits # {} /\ row.exit = Min(hits) /\ Stops(kind, m[Min(hits)], row.stop)
          /\ row.outcome = "LOSS" /\ row.exitPrice = row.stop
       \/ /\ hits # {} /\ row.exit = Min(hits) /\ ~Stops(kind, m[Min(hits)], row.stop)
          /\ row.outcome = "WIN" /\ row.exitPrice = row.target
  BY <1>1, <1>6, <1>8 DEF OutcomeOf
<1>13. {"target", "exit", "exitPrice", "reason", "pnl", "outcome"} \subseteq DOMAIN row
  BY <1>5 DEF Row
<1>14. Decided(row, m)
  BY <1>1, <1>4, <1>6, <1>7, <1>9, <1>10, <1>11, <1>12, <1>13 DEF Decided, last
<1>. QED BY <1>5, <1>6, <1>14

(* The rows of some of the trades of a report: each decided, in the order  *)
(* of their entries.                                                       *)
LEMMA RowsDecided ==
  ASSUME NEW m, NEW n, Traded(m, n), NEW p, NEW v, v = View(p, m), NEW profile,
         NEW trades \in SUBSET CombinedTrades(v)
  PROVE  LET rows == RowsOf(v, profile, trades)
             list == InOrder(trades, ByEntry(trades))
             size == Cardinality(trades)
         IN  /\ Booked(rows, size)
             /\ \A i \in 1 .. size :
                  /\ Decided(rows[i], m) /\ rows[i] = Row(v, profile, list[i])
                  /\ list[i] \in TradeList(v, rows[i].kind) /\ rows[i].entry = list[i].entry
                  /\ rows[i].stop = list[i].stop /\ rows[i].target = list[i].target
             /\ \A i, j \in 1 .. size : i < j => rows[i].entry <= rows[j].entry
<1>. DEFINE rows == RowsOf(v, profile, trades)
            list == InOrder(trades, ByEntry(trades))
            size == Cardinality(trades)
<1>1. IsFiniteSet(trades) /\ Orders(ByEntry(trades), trades)
  BY TradesOrdered
<1>2. /\ size \in Nat /\ DOMAIN list = 1 .. size
      /\ \A i \in 1 .. size : list[i] \in trades
      /\ \A i, j \in 1 .. size : <<list[i], list[j]>> \in ByEntry(trades) <=> i < j
  BY <1>1, Listed
<1>3. rows = [i \in 1 .. size |-> Row(v, profile, list[i])]
  BY <1>2 DEF RowsOf
<1>4. v.m = m
  BY ViewTyped
<1>. HIDE DEF rows, list, size
<1>5. ASSUME NEW i \in 1 .. size
      PROVE  /\ Decided(rows[i], m) /\ rows[i] = Row(v, profile, list[i])
             /\ list[i] \in TradeList(v, rows[i].kind) /\ rows[i].entry = list[i].entry
             /\ rows[i].stop = list[i].stop /\ rows[i].target = list[i].target
  <2>1. PICK kind \in Kinds : list[i] \in TradeList(v, kind)
    BY <1>2 DEF CombinedTrades, Kinds
  <2>2. Sound(list[i], m, kind)
    BY <2>1, ListedTrade
  <2>3. PICK trade : trade = list[i]
    OBVIOUS
  <2>4. PICK row : row = Row(v, profile, trade)
    OBVIOUS
  <2>5. /\ Decided(row, m) /\ row.kind = kind /\ row.entry = trade.entry
        /\ row.stop = trade.stop /\ row.target = trade.target
    BY <1>4, <2>2, <2>3, <2>4, RowDecided
  <2>6. rows[i] = row
    BY <1>3, <2>3, <2>4
  <2>. QED BY <2>1, <2>3, <2>4, <2>5, <2>6
<1>6. ASSUME NEW i \in 1 .. size, NEW j \in 1 .. size, i < j
      PROVE  rows[i].entry <= rows[j].entry
  <2>1. <<list[i], list[j]>> \in ByEntry(trades)
    BY <1>2, <1>6
  <2>2. list[i].entry < list[j].entry \/ list[i].entry = list[j].entry
    BY <2>1 DEF ByEntry, Before
  <2>3. rows[i].entry \in DOMAIN m /\ rows[j].entry \in DOMAIN m
    BY <1>5 DEF Decided
  <2>4. rows[i].entry \in Nat /\ rows[j].entry \in Nat
    BY <2>3 DEF Traded
  <2>5. rows[i].entry = list[i].entry /\ rows[j].entry = list[j].entry
    BY <1>5
  <2>. QED BY <2>2, <2>4, <2>5
<1>7. Booked(rows, size)
  <2>1. \A i \in 1 .. size : rows[i].pnl \in Int
    BY <1>5 DEF Decided
  <2>2. rows = [i \in 1 .. size |-> rows[i]]
    BY <1>3
  <2>. QED BY <1>2, <2>1, <2>2 DEF Booked
<1>. QED BY <1>5, <1>6, <1>7 DEF rows, list, size

-----------------------------------------------------------------------------
(* The time based exit of a row. *)

LEMMA WholeSize ==
  ASSUME NEW a \in Nat, NEW d \in Int, d > 0, a % d = 0
  PROVE  d * (a \div d) = a /\ a \div d \in Int
OBVIOUS

Ends(row, m, minutes) ==
  {t \in DOMAIN m : t > row.entry /\ (t >= row.entry + minutes \/ Stops(row.kind, m[t], row.stop))}

LEMMA ExitedRow ==
  ASSUME NEW m, NEW row, Decided(row, m), NEW exit, NEW price \in Int, NEW reason
  PROVE  LET is  == Exited(row, exit, price, reason)
             pnl == Pnl(row.kind, row.price, price, row.size)
         IN  /\ is.exit = exit /\ is.reason = reason /\ is.pnl = pnl /\ pnl \in Int
             /\ is.outcome = ResultOf(pnl)
<1>1. PICK pnl : pnl = Pnl(row.kind, row.price, price, row.size)
  OBVIOUS
<1>2. pnl \in Int
  BY <1>1 DEF Pnl, Decided
<1>3. {"target", "exit", "exitPrice", "reason", "pnl", "outcome"} \subseteq DOMAIN row
  BY DEF Decided
<1>4. Exited(row, exit, price, reason)
        = [row EXCEPT !.target = NoPrice, !.exit = exit, !.exitPrice = price,
                      !.reason = reason, !.pnl = pnl, !.outcome = ResultOf(pnl)]
  BY <1>1 DEF Exited
<1>. QED BY <1>1, <1>2, <1>3, <1>4

(* _time_exit_trade against the first candle that stops or wins the trade: *)
(* what it can say of a row and what that means for it.                    *)
LEMMA TimedRow ==
  ASSUME NEW m, NEW n, Traded(m, n), NEW row, Decided(row, m), NEW minutes \in Nat
  PROVE  LET is  == TimeExit(row, m, minutes)
             due == row.entry + minutes
         IN  /\ is.pnl \in Int
             /\ \/ is.reason = "DATA_UNAVAILABLE" /\ row.outcome # "LOSS"
                \/ /\ is.reason = "TIME_BASED_EXIT" /\ is.exit >= due
                   /\ row.outcome = "LOSS" => row.exit >= due
                \/ /\ is.reason = "PROTECTIVE_SL" /\ row.entry < is.exit /\ is.exit < due
                   /\ FixedRisk % StopDistance(row.kind, row.price, row.stop) = 0
                        => is.outcome = "LOSS" /\ is.pnl = -FixedRisk
                   /\ \/ row.outcome = "LOSS" /\ row.exit = is.exit
                      \/ row.outcome = "WIN" /\ row.exit < is.exit
<1>. DEFINE due  == row.entry + minutes
            ends == Ends(row, m, minutes)
            hits == Hits(m, row.kind, row.entry, row.stop, row.target)
            first == Min(ends)
<1>1. \A t \in DOMAIN m : t \in Nat
  BY DEF Traded
<1>2. row.entry \in Nat /\ due \in Nat /\ row.exit \in Nat
  BY <1>1 DEF Decided
<1>3. \A t : t \in ends <=> /\ t \in DOMAIN m /\ t > row.entry
                            /\ t >= due \/ Stops(row.kind, m[t], row.stop)
  BY DEF Ends
<1>4. \A t : t \in hits <=> /\ t \in DOMAIN m /\ t > row.entry
                            /\ Stops(row.kind, m[t], row.stop) \/ Reaches(row.kind, m[t], row.target)
  BY DEF Hits
<1>5. PICK is : is = TimeExit(row, m, minutes)
  OBVIOUS
<1>6. /\ ends = {} => is = NeverExited(row)
      /\ ends # {} /\ first >= due
           => is = Exited(row, first, m[first].c, "TIME_BASED_EXIT")
      /\ ends # {} /\ ~(first >= due)
           => is = Exited(row, first, row.stop, "PROTECTIVE_SL")
  BY <1>5 DEF TimeExit, Ends
<1>. HIDE DEF ends, hits, due
<1>7. ends # {} => first \in ends /\ \A t \in ends : first <= t
  <2>1. ends \in SUBSET Nat
    BY <1>1, <1>3
  <2>. QED BY <2>1, MinOfNaturals
<1>8. hits # {} => Min(hits) \in hits /\ \A t \in hits : Min(hits) <= t
  <2>1. hits \in SUBSET Nat
    BY <1>1, <1>4
  <2>. QED BY <2>1, MinOfNaturals
<1>9. \/ hits = {} /\ row.outcome = "OPEN_OR_UNRESOLVED"
      \/ /\ hits # {} /\ row.exit = Min(hits) /\ Stops(row.kind, m[row.exit], row.stop)
         /\ row.outcome = "LOSS"
      \/ /\ hits # {} /\ row.exit = Min(hits) /\ ~Stops(row.kind, m[row.exit], row.stop)
         /\ row.outcome = "WIN"
  BY DEF Decided, hits
<1>10. row.outcome = "LOSS" => row.exit \in ends
  BY <1>3, <1>4, <1>8, <1>9
<1>11. CASE ends = {}
  <2>1. is.pnl = 0 /\ is.reason = "DATA_UNAVAILABLE"
    <3>1. {"target", "exit", "exitPrice", "reason", "pnl", "outcome"} \subseteq DOMAIN row
      BY DEF Decided
    <3>2. is = NeverExited(row)
      BY <1>6, <1>11
    <3>. QED BY <3>1, <3>2 DEF NeverExited
  <2>2. is.pnl \in Int
    BY <2>1
  <2>3. row.outcome # "LOSS"
    BY <1>10, <1>11
  <2>. QED BY <1>5, <2>1, <2>2, <2>3
<1>12. CASE ends # {} /\ first >= due
  <2>1. m[first].c \in Int
    BY <1>3, <1>7, <1>12 DEF Traded, Prices
  <2>2. is.pnl \in Int /\ is.reason = "TIME_BASED_EXIT" /\ is.exit = first
    BY <1>6, <1>12, <2>1, ExitedRow
  <2>3. row.outcome = "LOSS" => row.exit >= due
    <3>1. first \in Nat
      BY <1>1, <1>3, <1>7, <1>12
    <3>. QED BY <1>2, <1>7, <1>10, <1>12, <3>1
  <2>. QED BY <1>5, <1>12, <2>2, <2>3 DEF due
<1>13. CASE ends # {} /\ ~(first >= due)
  <2>1. first \in DOMAIN m /\ first \in Nat /\ first > row.entry
    BY <1>1, <1>3, <1>7, <1>13
  <2>2. Stops(row.kind, m[first], row.stop) /\ first < due
    BY <1>2, <1>3, <1>7, <1>13, <2>1
  <2>3. first \in hits
    BY <1>4, <2>1, <2>2
  <2>4. row.stop \in Int
    BY DEF Decided
  <2>. DEFINE risk == StopDistance(row.kind, row.price, row.stop)
              pnl == Pnl(row.kind, row.price, row.stop, row.size)
  <2>5. /\ is.pnl = pnl /\ pnl \in Int /\ is.reason = "PROTECTIVE_SL" /\ is.exit = first
        /\ is.outcome = ResultOf(pnl)
    BY <1>6, <1>13, <2>4, ExitedRow
  <2>6. \/ row.outcome = "LOSS" /\ row.exit = first
        \/ row.outcome = "WIN" /\ row.exit < first
    <3>1. row.exit <= first
      BY <1>8, <1>9, <2>3
    <3>2. CASE row.outcome = "LOSS"
      <4>1. first <= row.exit
        BY <1>7, <1>10, <1>13, <3>2
      <4>. QED BY <1>2, <2>1, <3>1, <3>2, <4>1
    <3>3. CASE row.outcome # "LOSS"
      <4>1. row.outcome = "WIN" /\ row.exit # first
        BY <1>9, <2>2, <2>3, <3>3
      <4>. QED BY <1>2, <2>1, <3>1, <4>1
    <3>. QED BY <3>2, <3>3
  <2>7. ASSUME FixedRisk % risk = 0 PROVE is.outcome = "LOSS" /\ is.pnl = -FixedRisk
    <3>1. risk \in Int /\ risk > 0 /\ row.size = FixedRisk \div risk
      BY DEF Decided
    <3>2. FixedRisk \in Nat /\ FixedRisk > 0
      BY ReportAssumption DEF ReportAssumption
    <3>3. risk * row.size = FixedRisk /\ row.size \in Int
      BY <2>7, <3>1, <3>2, WholeSize
    <3>4. pnl = (-risk) * row.size
      <4>1. row.kind \in {"HIGH", "LOW"} /\ row.price \in Int /\ row.stop \in Int
        BY DEF Decided, Kinds
      <4>. QED BY <4>1 DEF Pnl, StopDistance
    <3>. HIDE DEF risk, pnl
    <3>5. pnl = -FixedRisk
      BY <3>1, <3>3, <3>4
    <3>6. ResultOf(pnl) = "LOSS"
      BY <3>2, <3>5 DEF ResultOf
    <3>. QED BY <2>5, <3>5, <3>6
  <2>. HIDE DEF risk, pnl
  <2>8. is.pnl \in Int
    BY <2>5
  <2>9. is.reason = "PROTECTIVE_SL" /\ row.entry < is.exit /\ is.exit < due
    BY <1>2, <2>1, <2>2, <2>5
  <2>10. \/ row.outcome = "LOSS" /\ row.exit = is.exit
         \/ row.outcome = "WIN" /\ row.exit < is.exit
    BY <2>5, <2>6
  <2>. QED BY <1>5, <2>7, <2>8, <2>9, <2>10 DEF due, risk
<1>. QED BY <1>11, <1>12, <1>13

-----------------------------------------------------------------------------
(* The reports that can be stored. *)

Told(rows, n, m) ==
  /\ Booked(rows, n)
  /\ \A i \in 1 .. n : Decided(rows[i], m)
  /\ \A i, j \in 1 .. n : i < j => rows[i].entry <= rows[j].entry

(* What a run of a file with a request stores. *)
ToldFor(f, request) ==
  IF request.model = "TIME"
  THEN WithTimeExit(Reports[f][request], Loaded[f], request.minutes)
  ELSE Reports[f][request]

(* The report of a file and a request consists of such rows.               *)
LEMMA ReportTold ==
  ASSUME NEW f \in Simulable, NEW request \in Allowed
  PROVE  \E n, last :
           /\ Traded(Loaded[f], last)
           /\ Reports[f][request] = Account(Reports[f][request].rows)
           /\ Told(Reports[f][request].rows, n, Loaded[f])
<1>1. PICK m : m = Loaded[f]
  OBVIOUS
<1>2. PICK last : Traded(m, last)
  BY <1>1, FileTraded
<1>3. PICK v : v = View(FunnelOf(request), m)
  OBVIOUS
<1>4. PICK rows : rows = RowsOf(v, request.profile, CombinedTrades(v))
  OBVIOUS
<1>5. PICK report : report = Reports[f][request]
  OBVIOUS
<1>6. report = Account(rows)
  BY <1>1, <1>3, <1>4, <1>5 DEF Reports, ReportFor, ReportOf, TradeRows
<1>7. report.rows = rows
  BY <1>6 DEF Account
<1>8. PICK n : n = Cardinality(CombinedTrades(v))
  OBVIOUS
<1>9. Told(rows, n, m)
  <2>1. CombinedTrades(v) \in SUBSET CombinedTrades(v)
    OBVIOUS
  <2>. QED BY <1>2, <1>3, <1>4, <1>8, <2>1, RowsDecided DEF Told
<1>. QED BY <1>1, <1>2, <1>5, <1>6, <1>7, <1>9

(* The account over such rows adds up.                                     *)
LEMMA AccountAdds ==
  ASSUME NEW rows, NEW n, NEW m, NEW last, Traded(m, last), Told(rows, n, m)
  PROVE  LET report == Account(rows)
             curve  == EquityCurve(rows)
         IN  /\ report.performance.final = curve[Len(curve)]
             /\ \A i \in DOMAIN rows :
                  report.balances[i] = StartingBalance + SumOver(rows, ClosedUpTo(rows, i))
             /\ report.drawdown
                  = Max(UNION {{curve[i] - curve[j] : i \in 1 .. j} : j \in DOMAIN curve})
<1>1. /\ Booked(rows, n) /\ n \in Nat /\ DOMAIN rows = 1 .. n
      /\ \A i \in 1 .. n : Decided(rows[i], m)
  BY DEF Told, Booked
<1>2. ASSUME NEW i \in 1 .. n
      PROVE  /\ rows[i].outcome \in {"WIN", "LOSS", "OPEN_OR_UNRESOLVED"}
             /\ rows[i].entry \in Int
  <2>1. rows[i].outcome \in {"WIN", "LOSS", "OPEN_OR_UNRESOLVED"} /\ rows[i].entry \in DOMAIN m
    BY <1>1 DEF Decided
  <2>. QED BY <2>1 DEF Traded
<1>3. Net(rows, {"WIN", "LOSS"}) = Net(rows, {"WIN", "LOSS", "BREAKEVEN"})
  <2>1. Earned(rows, {"WIN", "LOSS"}) = Earned(rows, {"WIN", "LOSS", "BREAKEVEN"})
    BY <1>1, <1>2 DEF Earned
  <2>. QED BY <2>1 DEF Net
<1>4. Account(rows).performance.final = StartingBalance + Net(rows, {"WIN", "LOSS", "BREAKEVEN"})
  BY <1>3 DEF Account, PerformanceSummary, Summary
<1>5. Account(rows).balances = Balances(rows) /\ Account(rows).drawdown = MaxDrawdown(rows)
  BY DEF Account
<1>6. ASSUME NEW i \in DOMAIN rows
      PROVE  Account(rows).balances[i] = StartingBalance + SumOver(rows, ClosedUpTo(rows, i))
  <2>1. \A j \in 1 .. n : rows[j].entry \in Int
    BY <1>2
  <2>2. \A j, k \in 1 .. n : j < k => rows[j].entry <= rows[k].entry
    BY DEF Told
  <2>. QED BY <1>1, <1>5, <2>1, <2>2, BalancesUpTo
<1>7. PICK curve : curve = EquityCurve(rows)
  OBVIOUS
<1>8. MaxDrawdown(rows)
        = Max(UNION {{curve[i] - curve[j] : i \in 1 .. j} : j \in DOMAIN curve})
  BY <1>1, <1>2, <1>7, DrawdownIsDeepest
<1>9. curve[Len(curve)] = StartingBalance + Net(rows, {"WIN", "LOSS", "BREAKEVEN"})
  BY <1>1, <1>7, CurveEnds
<1>. QED BY <1>4, <1>5, <1>6, <1>7, <1>8, <1>9

(* _apply_time_based_exit closes row by row.                               *)
LEMMA TimedRows ==
  ASSUME NEW rows, NEW n, NEW m, NEW last, Traded(m, last), Told(rows, n, m),
         NEW minutes \in Nat, NEW report, report.rows = rows,
         {"rows", "performance"} \subseteq DOMAIN report
  PROVE  LET timed == WithTimeExit(report, m, minutes)
         IN  /\ timed.rows = [i \in 1 .. n |-> TimeExit(rows[i], m, minutes)]
             /\ Booked(timed.rows, n)
<1>1. PICK is : is = [i \in 1 .. n |-> TimeExit(rows[i], m, minutes)]
  OBVIOUS
<1>2. n \in Nat /\ DOMAIN rows = 1 .. n /\ \A i \in 1 .. n : Decided(rows[i], m)
  BY DEF Told, Booked
<1>3. ASSUME NEW i \in 1 .. n PROVE is[i].pnl \in Int
  <2>1. PICK row : row = rows[i]
    OBVIOUS
  <2>2. Decided(row, m)
    BY <1>2, <2>1
  <2>3. TimeExit(row, m, minutes).pnl \in Int
    BY <2>2, TimedRow
  <2>. QED BY <1>1, <2>1, <2>3
<1>4. Booked(is, n)
  BY <1>1, <1>2, <1>3 DEF Booked
<1>5. PICK timed : timed = WithTimeExit(report, m, minutes)
  OBVIOUS
<1>6. timed = [report EXCEPT !.rows = is, !.performance = TimeExitPerformance(is)]
  BY <1>1, <1>2, <1>5 DEF WithTimeExit
<1>7. timed.rows = is /\ timed.performance = TimeExitPerformance(is)
  BY <1>6
<1>. QED BY <1>1, <1>4, <1>5, <1>7

LEMMA WholeMinutes ==
  ASSUME NEW request \in Allowed
  PROVE  request.minutes \in Nat
<1>1. request.minutes \in ExitMinutes \union {0}
  BY DEF Allowed, Requests
<1>2. \A x \in ExitMinutes : x \in Nat
  <2>1. ExitMinutes \subseteq 1 .. 120
    BY BacktestsAssumption DEF BacktestsAssumption
  <2>2. \A x \in 1 .. 120 : x \in Nat
    OBVIOUS
  <2>. QED BY <2>1, <2>2
<1>. QED BY <1>1, <1>2

Adds(report, model) ==
  LET rows  == report.rows
      curve == EquityCurve(rows)
  IN  /\ report.performance.final = curve[Len(curve)]
      /\ model # "TIME" =>
           /\ \A i \in DOMAIN rows :
                report.balances[i] = StartingBalance + SumOver(rows, ClosedUpTo(rows, i))
           /\ report.drawdown
                = Max(UNION {{curve[i] - curve[j] : i \in 1 .. j} : j \in DOMAIN curve})

(* So what a run stores adds up, closed by time or not.                    *)
LEMMA ReportAddsUp ==
  ASSUME NEW f \in Simulable, NEW request \in Allowed
  PROVE  Adds(ToldFor(f, request), request.model)
<1>1. PICK plain : plain = Reports[f][request]
  OBVIOUS
<1>2. PICK m : m = Loaded[f]
  OBVIOUS
<1>3. PICK rows : rows = plain.rows
  OBVIOUS
<1>4. PICK n, last : Traded(m, last) /\ plain = Account(rows) /\ Told(rows, n, m)
  BY <1>1, <1>2, <1>3, ReportTold
<1>5. CASE request.model # "TIME"
  <2>1. ToldFor(f, request) = Account(rows)
    BY <1>1, <1>4, <1>5 DEF ToldFor
  <2>2. PICK report : report = Account(rows)
    OBVIOUS
  <2>3. report.rows = rows
    BY <2>2 DEF Account
  <2>4. PICK curve : curve = EquityCurve(rows)
    OBVIOUS
  <2>5. /\ report.performance.final = curve[Len(curve)]
        /\ \A i \in DOMAIN rows :
             report.balances[i] = StartingBalance + SumOver(rows, ClosedUpTo(rows, i))
        /\ report.drawdown
             = Max(UNION {{curve[i] - curve[j] : i \in 1 .. j} : j \in DOMAIN curve})
    BY <1>4, <2>2, <2>4, AccountAdds
  <2>6. Adds(report, request.model)
    BY <2>3, <2>4, <2>5 DEF Adds
  <2>. QED BY <2>1, <2>2, <2>6
<1>6. CASE request.model = "TIME"
  <2>1. PICK minutes \in Nat : minutes = request.minutes
    BY WholeMinutes
  <2>2. PICK timed : timed = WithTimeExit(plain, m, minutes)
    OBVIOUS
  <2>3. ToldFor(f, request) = timed
    BY <1>1, <1>2, <1>6, <2>2, <2>1 DEF ToldFor
  <2>4. {"rows", "performance"} \subseteq DOMAIN plain
    BY <1>4 DEF Account
  <2>5. PICK curve : curve = EquityCurve(timed.rows)
    OBVIOUS
  <2>6. timed.performance.final = curve[Len(curve)]
    <3>1. plain.rows = rows /\ Traded(m, last) /\ Told(rows, n, m)
      BY <1>3, <1>4
    <3>2. Booked(timed.rows, n)
      BY <2>2, <2>4, <3>1, TimedRows
    <3>3. timed.performance = TimeExitPerformance(timed.rows)
      BY <2>2, <2>4 DEF WithTimeExit
    <3>4. timed.performance.final
            = StartingBalance + Net(timed.rows, {"WIN", "LOSS", "BREAKEVEN"})
      BY <3>3 DEF TimeExitPerformance, Summary
    <3>. QED BY <2>5, <3>2, <3>4, CurveEnds
  <2>. QED BY <1>6, <2>3, <2>5, <2>6 DEF Adds
<1>. QED BY <1>5, <1>6

(* How a time based exit stands to the row of the run it was laid over.    *)
Agreeing(was, is, minutes) ==
  LET due == was.entry + minutes
  IN  CASE is.reason = "PROTECTIVE_SL" ->
             /\ was.entry < is.exit /\ is.exit < due
             /\ is.outcome = "LOSS" /\ is.pnl = -FixedRisk
             /\ \/ was.outcome = "LOSS" /\ was.exit = is.exit
                \/ was.outcome = "WIN" /\ was.exit < is.exit
        [] is.reason = "TIME_BASED_EXIT" ->
             /\ is.exit >= due
             /\ was.outcome = "LOSS" => was.exit >= due
        [] is.reason = "DATA_UNAVAILABLE" -> was.outcome # "LOSS"

(* And its time based exits agree with the rows they were laid over.       *)
LEMMA TimeExitTells ==
  ASSUME NEW f \in Simulable, NEW request \in Allowed, request.model = "TIME"
  PROVE  LET was == Reports[f][request].rows
             is  == ToldFor(f, request).rows
         IN  Len(is) = Len(was) /\ \A i \in DOMAIN is : Agreeing(was[i], is[i], request.minutes)
<1>1. PICK plain : plain = Reports[f][request]
  OBVIOUS
<1>2. PICK m : m = Loaded[f]
  OBVIOUS
<1>3. PICK rows : rows = plain.rows
  OBVIOUS
<1>4. PICK n, last : Traded(m, last) /\ plain = Account(rows) /\ Told(rows, n, m)
  BY <1>1, <1>2, <1>3, ReportTold
<1>5. request.minutes \in Nat
  BY WholeMinutes
<1>6. {"rows", "performance"} \subseteq DOMAIN plain
  BY <1>4 DEF Account
<1>7. PICK is : is = ToldFor(f, request).rows
  OBVIOUS
<1>8. is = [i \in 1 .. n |-> TimeExit(rows[i], m, request.minutes)]
  <2>1. ToldFor(f, request) = WithTimeExit(plain, m, request.minutes)
    BY <1>1, <1>2 DEF ToldFor
  <2>. QED BY <1>3, <1>4, <1>5, <1>6, <1>7, <2>1, TimedRows
<1>9. /\ n \in Nat /\ DOMAIN rows = 1 .. n /\ Len(rows) = n
      /\ \A i \in 1 .. n : Decided(rows[i], m)
  BY <1>4 DEF Told, Booked
<1>10. Len(is) = n /\ DOMAIN is = 1 .. n
  BY <1>8, <1>9
<1>11. ASSUME NEW i \in 1 .. n PROVE Agreeing(rows[i], is[i], request.minutes)
  <2>1. PICK row : row = rows[i]
    OBVIOUS
  <2>2. PICK it : it = is[i]
    OBVIOUS
  <2>3. Decided(row, m) /\ it = TimeExit(row, m, request.minutes)
    BY <1>8, <1>9, <2>1, <2>2
  <2>4. FixedRisk % StopDistance(row.kind, row.price, row.stop) = 0
    <3>1. row \in Range(Reports[f][request].rows)
      BY <1>1, <1>3, <1>9, <2>1 DEF Range
    <3>. QED BY <3>1, ExactSizes
  <2>5. LET due == row.entry + request.minutes
        IN  \/ it.reason = "DATA_UNAVAILABLE" /\ row.outcome # "LOSS"
            \/ /\ it.reason = "TIME_BASED_EXIT" /\ it.exit >= due
               /\ row.outcome = "LOSS" => row.exit >= due
            \/ /\ it.reason = "PROTECTIVE_SL" /\ row.entry < it.exit /\ it.exit < due
               /\ it.outcome = "LOSS" /\ it.pnl = -FixedRisk
               /\ \/ row.outcome = "LOSS" /\ row.exit = it.exit
                  \/ row.outcome = "WIN" /\ row.exit < it.exit
    BY <1>4, <1>5, <2>3, <2>4, TimedRow
  <2>6. Agreeing(row, it, request.minutes)
    BY <2>5 DEF Agreeing
  <2>. QED BY <2>1, <2>2, <2>6
<1>. QED BY <1>1, <1>3, <1>7, <1>9, <1>10, <1>11

-----------------------------------------------------------------------------
(* What the stored runs hold. *)

(* A thread that has simulated, and a stored run, has the report of the    *)
(* file it read and of its request, closed by time when it should be.      *)
Carries(t, r) ==
  t.step \in ReadSteps =>
    /\ t.read \in Simulable
    /\ r = [report |-> IF t.step = "SIMULATED" THEN Reports[t.read][t.request]
                       ELSE ToldFor(t.read, t.request),
            plain |-> Reports[t.read][t.request]]

ResultInv ==
  /\ \A w \in Workers : Carries(task[w], result[w])
  /\ \A n \in DOMAIN runs :
       /\ runs[n].read \in Simulable
       /\ runs[n].result = [report |-> ToldFor(runs[n].read, runs[n].request),
                            plain |-> Reports[runs[n].read][runs[n].request]]

(* A step that moves one thread to where it holds no report.               *)
LEMMA OthersCarry ==
  ASSUME ResultInv, ThreadType, NEW w \in Workers, runs' = runs,
         NEW t, task' = [task EXCEPT ![w] = t], result' = result,
         t.step \notin ReadSteps
  PROVE  ResultInv'
<1>1. ASSUME NEW u \in Workers PROVE Carries(task'[u], result'[u])
  <2>1. task'[u] = IF u = w THEN t ELSE task[u]
    BY DEF ThreadType
  <2>2. Carries(task[u], result[u])
    BY DEF ResultInv
  <2>3. CASE u = w
    BY <2>1, <2>3 DEF Carries
  <2>4. CASE u # w
    BY <2>1, <2>2, <2>4
  <2>. QED BY <2>3, <2>4
<1>. QED BY <1>1 DEF ResultInv

(* Every step keeps the reports with their files and requests.             *)
LEMMA NextResultInv ==
  ASSUME ResultInv, Inv, [Next]_vars
  PROVE  ResultInv'
<1>1. /\ ThreadType /\ TaskId /\ TaskKept /\ TaskRequest /\ TaskRead /\ StoreInv
  BY DEF Inv, TypeOK, TaskInv
<1>2. ASSUME NEW w \in Workers, NEW p \in Pages, NEW f \in Files,
             NEW name \in Names, NEW typed \in Typed, ChooseFile(w, p, f, name, typed)
      PROVE ResultInv'
  BY <1>1, <1>2, OthersCarry DEF ChooseFile, Upload, Idle, ReadSteps
<1>3. ASSUME NEW w \in Workers, NEW p \in Pages, NEW request \in Requests, ClickRun(w, p, request)
      PROVE ResultInv'
  BY <1>1, <1>3, OthersCarry DEF ClickRun, Run, Idle, ReadSteps
<1>4. ASSUME NEW w \in Workers, RefuseUpload(w) PROVE ResultInv'
  BY <1>1, <1>4, OthersCarry DEF RefuseUpload, Done, Idle, ReadSteps
<1>5. ASSUME NEW w \in Workers, NumberUpload(w) PROVE ResultInv'
  <2>. DEFINE t == [task[w] EXCEPT !.step = "NUMBERED",
                                   !.id = <<Cardinality(DOMAIN uploads) + 1, task[w].file>>]
  <2>1. task' = [task EXCEPT ![w] = t] /\ runs' = runs /\ result' = result
    BY <1>1, <1>5 DEF NumberUpload, ThreadType
  <2>2. t.step = "NUMBERED"
    BY <1>1 DEF ThreadType, TaskType
  <2>. HIDE DEF t
  <2>. QED BY <1>1, <2>1, <2>2, OthersCarry DEF ReadSteps
<1>6. ASSUME NEW w \in Workers, DescribeUpload(w) PROVE ResultInv'
  <2>. DEFINE t == [task[w] EXCEPT !.step = "DESCRIBED"]
  <2>1. task' = [task EXCEPT ![w] = t] /\ runs' = runs /\ result' = result
    BY <1>1, <1>6 DEF DescribeUpload, Goto, ThreadType
  <2>2. t.step = "DESCRIBED"
    BY <1>1 DEF ThreadType, TaskType
  <2>. HIDE DEF t
  <2>. QED BY <1>1, <2>1, <2>2, OthersCarry DEF ReadSteps
<1>7. ASSUME NEW w \in Workers, KeepContent(w) PROVE ResultInv'
  <2>. DEFINE t == [task[w] EXCEPT !.step = "KEPT"]
  <2>1. task' = [task EXCEPT ![w] = t] /\ runs' = runs /\ result' = result
    BY <1>1, <1>7 DEF KeepContent, Goto, ThreadType
  <2>2. t.step = "KEPT"
    BY <1>1 DEF ThreadType, TaskType
  <2>. HIDE DEF t
  <2>. QED BY <1>1, <2>1, <2>2, OthersCarry DEF ReadSteps
<1>8. ASSUME NEW w \in Workers, RefuseRun(w) PROVE ResultInv'
  BY <1>1, <1>8, OthersCarry DEF RefuseRun, Done, Idle, ReadSteps
<1>9. ASSUME NEW w \in Workers, FailRun(w) PROVE ResultInv'
  BY <1>1, <1>9, OthersCarry DEF FailRun, Done, Idle, ReadSteps
<1>10. ASSUME NEW w \in Workers, SimulateUpload(w) PROVE ResultInv'
  <2>1. PICK f, request : f = contents[task[w].id] /\ request = task[w].request
    OBVIOUS
  <2>2. f \in Simulable /\ runs' = runs
    BY <1>10, <2>1 DEF SimulateUpload
  <2>3. PICK t : t = task'[w]
    OBVIOUS
  <2>4. /\ t.step = IF request.model = "TIME" THEN "SIMULATED" ELSE "CLOSED"
        /\ t.read = f /\ t.request = request
    BY <1>1, <1>10, <2>1, <2>3 DEF SimulateUpload, ThreadType, TaskType
  <2>5. PICK r : r = result'[w]
    OBVIOUS
  <2>6. r = AsRun(Reports[f][request])
    BY <1>1, <1>10, <2>1, <2>5 DEF SimulateUpload, ThreadType
  <2>7. Carries(t, r)
    BY <2>2, <2>4, <2>6 DEF Carries, AsRun, ToldFor
  <2>8. ASSUME NEW u \in Workers, u # w PROVE task'[u] = task[u] /\ result'[u] = result[u]
    BY <1>1, <1>10, <2>8 DEF SimulateUpload, ThreadType
  <2>. QED BY <2>2, <2>3, <2>5, <2>7, <2>8 DEF ResultInv
<1>11. ASSUME NEW w \in Workers, CloseByTime(w) PROVE ResultInv'
  <2>1. PICK f, request : f = task[w].read /\ request = task[w].request
    OBVIOUS
  <2>2. /\ At(w, "SIMULATED") /\ runs' = runs /\ request.model = "TIME"
        /\ contents[task[w].id] = f
    <3>1. At(w, "SIMULATED") /\ runs' = runs
      BY <1>11 DEF CloseByTime
    <3>2. task[w].id \in DOMAIN contents /\ task[w].id[2] = task[w].file
      BY <1>1, <3>1 DEF TaskKept, TaskId, At
    <3>3. task[w].read = task[w].file /\ request.model = "TIME"
      BY <1>1, <2>1, <3>1 DEF TaskRead, TaskRequest, ReadSteps, At
    <3>. QED BY <1>1, <2>1, <3>1, <3>2, <3>3 DEF StoreInv
  <2>3. /\ f \in Simulable
        /\ result[w] = [report |-> Reports[f][request], plain |-> Reports[f][request]]
    BY <2>1, <2>2 DEF ResultInv, Carries, At, ReadSteps
  <2>4. PICK t : t = task'[w]
    OBVIOUS
  <2>5. t.step = "CLOSED" /\ t.read = f /\ t.request = request
    BY <1>1, <1>11, <2>1, <2>4 DEF CloseByTime, ThreadType, TaskType
  <2>6. PICK r : r = result'[w]
    OBVIOUS
  <2>7. r = [report |-> WithTimeExit(Reports[f][request], Loaded[f], request.minutes),
             plain |-> Reports[f][request]]
    BY <1>1, <1>11, <2>1, <2>2, <2>3, <2>6 DEF CloseByTime, ThreadType
  <2>8. Carries(t, r)
    BY <2>2, <2>3, <2>5, <2>7 DEF Carries, ToldFor
  <2>9. ASSUME NEW u \in Workers, u # w PROVE task'[u] = task[u] /\ result'[u] = result[u]
    BY <1>1, <1>11, <2>9 DEF CloseByTime, ThreadType
  <2>. QED BY <2>2, <2>4, <2>6, <2>8, <2>9 DEF ResultInv
<1>12. ASSUME NEW w \in Workers, NumberRun(w) PROVE ResultInv'
  <2>1. runs' = runs /\ result' = result /\ At(w, "CLOSED")
    BY <1>12 DEF NumberRun
  <2>2. PICK t : t = task'[w]
    OBVIOUS
  <2>3. t.step = "TITLED" /\ t.read = task[w].read /\ t.request = task[w].request
    BY <1>1, <1>12, <2>2 DEF NumberRun, ThreadType, TaskType
  <2>4. Carries(task[w], result[w])
    BY DEF ResultInv
  <2>5. Carries(t, result[w])
    BY <2>1, <2>3, <2>4 DEF Carries, At, ReadSteps
  <2>6. ASSUME NEW u \in Workers, u # w PROVE task'[u] = task[u]
    BY <1>1, <1>12, <2>6 DEF NumberRun, ThreadType
  <2>. QED BY <2>1, <2>2, <2>5, <2>6 DEF ResultInv
<1>13. ASSUME NEW w \in Workers, StoreRun(w) PROVE ResultInv'
  <2>1. /\ task[w].read \in Simulable
        /\ result[w] = [report |-> ToldFor(task[w].read, task[w].request),
                        plain |-> Reports[task[w].read][task[w].request]]
    BY <1>13 DEF StoreRun, ResultInv, Carries, At, ReadSteps
  <2>2. PICK run : run = AsStored(w)
    OBVIOUS
  <2>3. run.read = task[w].read /\ run.request = task[w].request /\ run.result = result[w]
    BY <2>2 DEF AsStored
  <2>4. /\ DOMAIN runs' = {task[w].number} \union DOMAIN runs
        /\ \A n \in DOMAIN runs' : runs'[n] = IF n = task[w].number THEN run ELSE runs[n]
    BY <1>13, <2>2 DEF StoreRun, Put
  <2>5. ASSUME NEW n \in DOMAIN runs'
        PROVE  /\ runs'[n].read \in Simulable
               /\ runs'[n].result = [report |-> ToldFor(runs'[n].read, runs'[n].request),
                                     plain |-> Reports[runs'[n].read][runs'[n].request]]
    BY <2>1, <2>3, <2>4 DEF ResultInv
  <2>6. ASSUME NEW u \in Workers PROVE Carries(task'[u], result'[u])
    <3>1. CASE u = w
      <4>1. task'[u].step = "IDLE"
        BY <1>1, <1>13, <3>1 DEF StoreRun, Done, Idle, ThreadType
      <4>. QED BY <4>1 DEF Carries, ReadSteps
    <3>2. CASE u # w
      <4>1. task'[u] = task[u] /\ result'[u] = result[u]
        BY <1>1, <1>13, <3>2 DEF StoreRun, Done, ThreadType
      <4>. QED BY <4>1 DEF ResultInv
    <3>. QED BY <3>1, <3>2
  <2>. QED BY <2>5, <2>6 DEF ResultInv
<1>14. ASSUME NEW p \in Pages, GiveUpUpload(p) PROVE ResultInv'
  BY <1>14 DEF GiveUpUpload, ResultInv
<1>15. ASSUME Restart PROVE ResultInv'
  <2>1. DOMAIN runs' = {}
    BY <1>15 DEF Restart
  <2>2. \A w \in Workers : task'[w].step = "IDLE"
    BY <1>15 DEF Restart, Idle
  <2>. QED BY <2>1, <2>2 DEF ResultInv, Carries, ReadSteps
<1>16. ASSUME UNCHANGED vars PROVE ResultInv'
  BY <1>16 DEF vars, ResultInv
<1>17. ASSUME NEW w \in Workers, AnswerUpload(w) PROVE ResultInv'
  BY <1>1, <1>17, OthersCarry DEF AnswerUpload, Done, Idle, ReadSteps
<1> QED
  BY <1>2, <1>3, <1>4, <1>5, <1>6, <1>7, <1>8, <1>9,
     <1>10, <1>11, <1>12, <1>13, <1>14, <1>15, <1>16, <1>17 DEF Next, Step

LEMMA ResultInvariance == Spec => []ResultInv
<1>1. Init => ResultInv
  BY DEF Init, Idle, ResultInv, Carries, ReadSteps
<1>2. ResultInv /\ Inv /\ [Next]_vars => ResultInv'
  BY NextResultInv
<1>. QED BY <1>1, <1>2, Invariance, PTL DEF Spec

(* What a stored run holds. *)
LEMMA StoredRun ==
  ASSUME Inv, ResultInv, NEW n \in DOMAIN runs
  PROVE  \E f \in Simulable, request \in Allowed :
           /\ runs[n].read = f /\ runs[n].request = request
           /\ runs[n].result.report = ToldFor(f, request)
           /\ runs[n].result.plain = Reports[f][request]
<1>1. PICK f, request : f = runs[n].read /\ request = runs[n].request
  OBVIOUS
<1>2. PICK held : held = runs[n].result
  OBVIOUS
<1>3. f \in Simulable /\ held = [report |-> ToldFor(f, request), plain |-> Reports[f][request]]
  BY <1>1, <1>2 DEF ResultInv
<1>4. held.report = ToldFor(f, request) /\ held.plain = Reports[f][request]
  BY <1>3
<1>5. request \in Allowed
  BY <1>1 DEF Inv, TypeOK, RunType
<1>. QED BY <1>1, <1>2, <1>3, <1>4, <1>5

-----------------------------------------------------------------------------
(* Some of the rows of a report. *)

Rising(places) == {pair \in places \X places : pair[1] < pair[2]}

LEMMA PlacesOrdered ==
  ASSUME NEW n \in Nat, NEW places \in SUBSET (1 .. n)
  PROVE  IsFiniteSet(places) /\ Orders(Rising(places), places)
<1>1. IsFiniteSet(places)
  <2>1. IsFiniteSet(1 .. n)
    BY FS_Interval
  <2>. QED BY <2>1, FS_Subset
<1>2. \A i, j \in places : <<i, j>> \in Rising(places) <=> i < j
  BY DEF Rising
<1>3. \A i \in places : i \in Int
  OBVIOUS
<1>. HIDE DEF Rising
<1>4. ASSUME NEW i \in places, NEW j \in places, NEW k \in places
      PROVE  /\ <<i, i>> \notin Rising(places)
             /\ i # j => (<<i, j>> \in Rising(places) \/ <<j, i>> \in Rising(places))
             /\ (<<i, j>> \in Rising(places) /\ <<j, k>> \in Rising(places))
                   => <<i, k>> \in Rising(places)
  <2>1. i \in Int /\ j \in Int /\ k \in Int
    BY <1>3
  <2>2. /\ ~(i < i) /\ (i # j => i < j \/ j < i) /\ (i < j /\ j < k => i < k)
    BY <2>1
  <2>. QED BY <1>2, <2>2
<1>5. Orders(Rising(places), places)
  BY <1>4 DEF Orders
<1>. QED BY <1>1, <1>5

(* k elements of a sequence, at the places that are chosen. *)
TakenFrom(sequence, chosen, k) == [j \in 1 .. k |-> sequence[chosen[j]]]

(* Selected takes the rows at the places, in their order.                  *)
LEMMA SelectedRows ==
  ASSUME NEW n \in Nat, NEW rows, NEW places \in SUBSET (1 .. n),
         NEW k, k = Cardinality(places), NEW chosen, chosen = InOrder(places, Rising(places))
  PROVE  /\ k \in Nat /\ Selected(rows, places) = TakenFrom(rows, chosen, k)
         /\ \A j \in 1 .. k : chosen[j] \in places
<1>1. IsFiniteSet(places) /\ Orders(Rising(places), places)
  BY PlacesOrdered
<1>2. k \in Nat /\ DOMAIN chosen = 1 .. k /\ \A j \in 1 .. k : chosen[j] \in places
  BY <1>1, Listed
<1>3. Selected(rows, places) = [j \in DOMAIN chosen |-> rows[chosen[j]]]
  BY DEF Selected, Rising
<1>. QED BY <1>2, <1>3 DEF TakenFrom

(* A part of a set is listed as it is in the list of the whole set.        *)
LEMMA PartListed ==
  ASSUME NEW S, IsFiniteSet(S), NEW R, Orders(R, S), NEW P \in SUBSET S,
         NEW Q, \A x, y \in P : <<x, y>> \in Q <=> <<x, y>> \in R,
         NEW n, n = Cardinality(S), NEW list, list = InOrder(S, R),
         NEW places, \A i : i \in places <=> i \in 1 .. n /\ list[i] \in P,
         NEW chosen, chosen = InOrder(places, Rising(places))
  PROVE  InOrder(P, Q) = TakenFrom(list, chosen, Cardinality(places))
<1>1. /\ n \in Nat /\ \A i \in 1 .. n : list[i] \in S
      /\ \A x \in S : \E i \in 1 .. n : list[i] = x
      /\ \A i, j \in 1 .. n : <<list[i], list[j]>> \in R <=> i < j
  BY Listed
<1>2. IsFiniteSet(P) /\ Orders(Q, P)
  <2>1. \A x, y, z \in P :
          /\ x \in S /\ y \in S /\ z \in S
          /\ <<x, y>> \in Q <=> <<x, y>> \in R
          /\ <<y, x>> \in Q <=> <<y, x>> \in R
          /\ <<y, z>> \in Q <=> <<y, z>> \in R
          /\ <<x, z>> \in Q <=> <<x, z>> \in R
          /\ <<x, x>> \in Q <=> <<x, x>> \in R
    OBVIOUS
  <2>2. Orders(Q, P)
    BY <2>1 DEF Orders
  <2>. QED BY <2>2, FS_Subset
<1>3. places \in SUBSET (1 .. n)
  OBVIOUS
<1>4. IsFiniteSet(places) /\ Orders(Rising(places), places)
  BY <1>1, <1>3, PlacesOrdered
<1>5. PICK k : k = Cardinality(places)
  OBVIOUS
<1>6. /\ k \in Nat
      /\ \A j \in 1 .. k : /\ chosen[j] \in places
                           /\ Cardinality(Earlier(places, Rising(places), chosen[j])) = j - 1
  <2>1. PICK up : up = Rising(places)
    OBVIOUS
  <2>2. PICK part : part = places
    OBVIOUS
  <2>3. IsFiniteSet(part) /\ Orders(up, part) /\ chosen = InOrder(part, up) /\ k = Cardinality(part)
    BY <1>4, <1>5, <2>1, <2>2
  <2>4. /\ k \in Nat
        /\ \A j \in 1 .. k : chosen[j] \in part /\ Cardinality(Earlier(part, up, chosen[j])) = j - 1
    BY ONLY <2>3, Listed
  <2>. QED BY <2>1, <2>2, <2>4
<1>7. \A i, j \in 1 .. n : list[i] = list[j] => i = j
  <2>. SUFFICES ASSUME NEW i \in 1 .. n, NEW j \in 1 .. n, list[i] = list[j] PROVE i = j
    OBVIOUS
  <2>1. <<list[i], list[i]>> \notin R
    BY <1>1 DEF Orders
  <2>2. ~(i < j) /\ ~(j < i)
    BY <1>1, <2>1
  <2>. QED BY <1>1, <2>2
<1>8. ASSUME NEW T \in SUBSET places
      PROVE  Cardinality({list[i] : i \in T}) = Cardinality(T)
  <2>1. PICK f : f = [i \in T |-> list[i]]
    OBVIOUS
  <2>2. IsFiniteSet(T) /\ DOMAIN f = T
    BY <1>4, <2>1, FS_Subset
  <2>3. \A i, j \in T : f[i] = f[j] => i = j
    BY <1>3, <1>7, <2>1
  <2>. DEFINE values == {f[i] : i \in T}
  <2>4. values = {list[i] : i \in T}
    BY <2>1
  <2>5. Cardinality(values) = Cardinality(T)
    BY ONLY <2>2, <2>3, ValuesFinite
  <2>. QED BY <2>4, <2>5
<1>9. {list[i] : i \in places} = P
  <2>1. \A x \in P : \E i \in places : list[i] = x
    BY <1>1
  <2>2. \A i \in places : list[i] \in P
    OBVIOUS
  <2>. QED BY <2>1, <2>2
<1>10. Cardinality(P) = k
  <2>1. places \in SUBSET places
    OBVIOUS
  <2>. QED BY <1>5, <1>8, <1>9, <2>1
<1>11. ASSUME NEW i \in places
       PROVE  Cardinality(Earlier(P, Q, list[i]))
                = Cardinality(Earlier(places, Rising(places), i))
  <2>1. PICK T : T = Earlier(places, Rising(places), i)
    OBVIOUS
  <2>2. \A j : j \in T <=> j \in places /\ j < i
    BY <2>1 DEF Earlier, Rising
  <2>3. Earlier(P, Q, list[i]) = {list[j] : j \in T}
    <3>1. ASSUME NEW j \in places PROVE <<list[j], list[i]>> \in Q <=> j < i
      <4>1. list[i] \in P /\ list[j] \in P /\ i \in 1 .. n /\ j \in 1 .. n
        OBVIOUS
      <4>. QED BY <1>1, <4>1
    <3>2. \A x : x \in Earlier(P, Q, list[i]) <=> \E j \in places : x = list[j] /\ j < i
      BY <1>9, <3>1 DEF Earlier
    <3>. QED BY <2>2, <3>2
  <2>4. T \in SUBSET places
    BY <2>2
  <2>. QED BY <1>8, <2>1, <2>3, <2>4
<1>12. PICK listed : listed = InOrder(P, Q)
  OBVIOUS
<1>13. /\ DOMAIN listed = 1 .. k
       /\ \A j \in 1 .. k : listed[j] \in P /\ Cardinality(Earlier(P, Q, listed[j])) = j - 1
  BY <1>2, <1>10, <1>12, Listed
<1>14. ASSUME NEW j \in 1 .. k PROVE listed[j] = list[chosen[j]]
  <2>1. PICK i \in places : i = chosen[j]
    BY <1>6
  <2>2. list[i] \in P /\ Cardinality(Earlier(P, Q, list[i])) = j - 1
    BY <1>6, <1>9, <1>11, <2>1
  <2>3. listed[j] \in P /\ Cardinality(Earlier(P, Q, listed[j])) = j - 1
    BY <1>13
  <2>. QED BY <1>2, <2>1, <2>2, <2>3, RanksRise
<1>15. listed = [j \in 1 .. k |-> listed[j]]
  <2>. DEFINE Ranked(j) == CHOOSE x \in P : Cardinality({y \in P : <<y, x>> \in Q}) = j - 1
  <2>1. listed = [j \in 1 .. k |-> Ranked(j)]
    BY <1>10, <1>12 DEF InOrder
  <2>. HIDE DEF Ranked
  <2>. QED BY <2>1
<1>. QED BY <1>5, <1>12, <1>14, <1>15 DEF TakenFrom

-----------------------------------------------------------------------------
(* The older simulator on a row it can express.                            *)

Policy == "CONSERVATIVE_STOP_FIRST"

(* A row the older simulator can express: the bearish trade of a multiple  *)
(* of the risk, entered at the open of the next candle.                    *)
Shared(row, m) ==
  /\ Decided(row, m) /\ row.kind = "HIGH"
  /\ row.target = row.price - FixedReward(row.stop - row.price)
  /\ m[row.entry].l > row.target
  /\ row.entry + 1 \in DOMAIN m /\ m[row.entry + 1].o = row.price

(* simulate_trade makes the same trade of it.                              *)
LEMMA SimulatedSame ==
  ASSUME NEW m, NEW n, Traded(m, n), NEW row, Shared(row, m)
  PROVE  LET trade == SimulateSignal([at |-> row.entry, stop |-> row.stop], m, Policy)
         IN  /\ SameTrade(row, trade) /\ trade.entry # NoMinute /\ trade.exit # NoMinute
             /\ trade.net = row.pnl - Fees(row.price, row.exitPrice, row.size)
             /\ trade.reason = "TAKE_PROFIT" <=> row.outcome = "WIN"
             /\ trade.reason = "STOP_LOSS" <=> row.outcome = "LOSS"
<1>. DEFINE signal == [at |-> row.entry, stop |-> row.stop]
            later  == {t \in DOMAIN m : t > signal.at}
            first  == Min(later)
            entry  == m[first].o
            target == entry - FixedReward(signal.stop - entry)
            size   == FixedRisk \div (signal.stop - entry)
            early  == {t \in DOMAIN m : signal.at <= t /\ t < first /\ m[t].l <= target}
            hits   == {t \in later : m[t].h >= signal.stop \/ m[t].l <= target}
            at     == IF hits = {} THEN Latest(m) ELSE Min(hits)
            out    == IF hits = {}
                      THEN [price |-> m[at].c, reason |-> "END_OF_DATA", status |-> "OPEN"]
                      ELSE ExitIn(Policy, m[at], signal.stop, target)
            gross  == Pnl("HIGH", entry, out.price, size)
            skip   == Policy = "SKIP_TRADE" /\ hits # {} /\ m[at].h >= signal.stop /\ m[at].l <= target
            told   == [entry |-> first, price |-> entry, exit |-> at + 1, exitPrice |-> out.price,
                       reason |-> out.reason, status |-> out.status, gross |-> gross,
                       net |-> gross - Fees(entry, out.price, size)]
<1>1. SimulateSignal(signal, m, Policy)
        = IF later = {} THEN Skipped("NO_ENTRY_CANDLE", "SKIPPED_NO_ENTRY_CANDLE")
          ELSE IF early # {}
               THEN Skipped("TARGET_ALREADY_REACHED", "SKIPPED_TARGET_ALREADY_REACHED")
          ELSE IF skip THEN Skipped("AMBIGUOUS", "AMBIGUOUS") ELSE told
  BY DEF SimulateSignal
<1>2. signal.at = row.entry /\ signal.stop = row.stop
  OBVIOUS
<1>3. /\ \A t \in DOMAIN m : t \in Nat /\ m[t].o \in Int /\ m[t].h \in Int /\ m[t].l \in Int
      /\ row.entry \in DOMAIN m /\ row.exit \in DOMAIN m /\ row.price \in Int /\ row.stop \in Int
      /\ row.target \in Int /\ row.exitPrice \in Int /\ row.size \in Int
  BY DEF Traded, Prices, Shared, Decided
<1>. HIDE DEF signal, skip
<1>4. row.entry + 1 \in later /\ first = row.entry + 1
  <2>1. row.entry + 1 \in later
    BY <1>2, <1>3 DEF Shared
  <2>2. \A t \in later : t \in Nat /\ t > row.entry
    BY <1>2, <1>3
  <2>. HIDE DEF later
  <2>3. later \in SUBSET Nat /\ later # {}
    BY <2>1, <2>2
  <2>4. first \in later /\ first <= row.entry + 1
    BY <2>1, <2>3, MinOfNaturals
  <2>5. first \in Nat /\ first > row.entry /\ row.entry \in Nat
    BY <1>3, <2>2, <2>4
  <2>. HIDE DEF first
  <2>. QED BY <2>1, <2>4, <2>5
<1>. HIDE DEF first
<1>5. entry = row.price
  BY <1>4 DEF Shared
<1>. HIDE DEF entry
<1>6. target = row.target
  BY <1>2, <1>5 DEF Shared
<1>7. size = row.size
  BY <1>2, <1>5 DEF Shared, Decided, StopDistance
<1>. HIDE DEF target, size
<1>8. early = {}
  <2>. SUFFICES ASSUME NEW t \in early PROVE FALSE
    OBVIOUS
  <2>1. t \in DOMAIN m /\ row.entry <= t /\ t < row.entry + 1 /\ m[t].l <= row.target
    BY <1>2, <1>4, <1>6
  <2>2. t = row.entry
    BY <1>3, <2>1
  <2>3. m[row.entry].l > row.target /\ m[row.entry].l \in Int
    BY <1>3 DEF Shared
  <2>. QED BY <1>3, <2>1, <2>2, <2>3
<1>. HIDE DEF early
<1>9. hits = Hits(m, row.kind, row.entry, row.stop, row.target)
  <2>1. row.kind = "HIGH"
    BY DEF Shared
  <2>2. \A t : t \in hits
           <=> t \in DOMAIN m /\ t > row.entry /\ (m[t].h >= row.stop \/ m[t].l <= row.target)
    BY <1>2, <1>6
  <2>3. \A t : t \in Hits(m, row.kind, row.entry, row.stop, row.target)
           <=> t \in DOMAIN m /\ t > row.entry /\ (m[t].h >= row.stop \/ m[t].l <= row.target)
    BY <2>1 DEF Hits, Stops, Reaches
  <2>. HIDE DEF hits
  <2>. QED BY <2>2, <2>3
<1>. HIDE DEF later
<1>10. later # {}
  BY <1>4
<1>11. ~skip
  BY DEF skip, Policy
<1>12. \/ /\ hits = {} /\ row.outcome = "OPEN_OR_UNRESOLVED"
          /\ row.exit = Latest(m) /\ row.exitPrice = m[Latest(m)].c
       \/ /\ hits # {} /\ row.exit = Min(hits) /\ m[Min(hits)].h >= row.stop
          /\ row.outcome = "LOSS" /\ row.exitPrice = row.stop
       \/ /\ hits # {} /\ row.exit = Min(hits) /\ ~(m[Min(hits)].h >= row.stop)
          /\ row.outcome = "WIN" /\ row.exitPrice = row.target
  BY <1>9 DEF Shared, Decided, Stops
<1>. HIDE DEF hits
<1>13. at = row.exit
  BY <1>12
<1>14. /\ out.price = row.exitPrice
       /\ out.reason = CASE row.outcome = "LOSS" -> "STOP_LOSS"
                         [] row.outcome = "WIN" -> "TAKE_PROFIT"
                         [] OTHER -> "END_OF_DATA"
  <2>1. CASE hits = {}
    BY <1>12, <2>1
  <2>2. CASE hits # {} /\ row.outcome = "LOSS"
    <3>1. out = ExitIn(Policy, m[row.exit], row.stop, row.target) /\ m[row.exit].h >= row.stop
      BY <1>2, <1>6, <1>12, <1>13, <2>2
    <3>2. ExitIn(Policy, m[row.exit], row.stop, row.target)
            = [price |-> row.stop, reason |-> "STOP_LOSS", status |-> "CLOSED"]
      BY <3>1 DEF ExitIn, AmbiguousExit, Policy
    <3>. QED BY <1>12, <2>2, <3>1, <3>2
  <2>3. CASE hits # {} /\ row.outcome = "WIN"
    <3>1. /\ out = ExitIn(Policy, m[row.exit], row.stop, row.target)
          /\ ~(m[row.exit].h >= row.stop)
      BY <1>2, <1>6, <1>12, <1>13, <2>3
    <3>2. ExitIn(Policy, m[row.exit], row.stop, row.target)
            = [price |-> row.target, reason |-> "TAKE_PROFIT", status |-> "CLOSED"]
      BY <3>1 DEF ExitIn
    <3>. QED BY <1>12, <2>3, <3>1, <3>2
  <2>. QED BY <1>12, <2>1, <2>2, <2>3
<1>. HIDE DEF out, at
<1>15. gross = row.pnl
  BY <1>5, <1>7, <1>14 DEF Shared, Decided
<1>. HIDE DEF gross
<1>16. PICK trade : trade = SimulateSignal(signal, m, Policy)
  OBVIOUS
<1>17. trade = told
  BY <1>1, <1>8, <1>10, <1>11, <1>16
<1>18. /\ trade.entry = row.entry + 1 /\ trade.price = row.price /\ trade.exit = row.exit + 1
       /\ trade.exitPrice = row.exitPrice /\ trade.reason = out.reason /\ trade.gross = row.pnl
       /\ trade.net = row.pnl - Fees(row.price, row.exitPrice, row.size)
  BY <1>4, <1>5, <1>7, <1>13, <1>14, <1>15, <1>17
<1>19. SameTrade(row, trade)
  BY <1>14, <1>18 DEF SameTrade
<1>20. trade.entry # NoMinute /\ trade.exit # NoMinute
  BY <1>3, <1>18 DEF NoMinute
<1>21. /\ trade.reason = "TAKE_PROFIT" <=> row.outcome = "WIN"
       /\ trade.reason = "STOP_LOSS" <=> row.outcome = "LOSS"
  BY <1>12, <1>14, <1>18
<1>. QED BY <1>16, <1>18, <1>19, <1>20, <1>21 DEF signal

LEMMA WholeFees ==
  ASSUME NEW a \in Int, NEW b \in Int, NEW size \in Int
  PROVE  Fees(a, b, size) \in Int
<1>1. FeeBps \in Int
  BY ReportAssumption DEF ReportAssumption
<1>2. (a + b) * size \in Int
  OBVIOUS
<1>3. PICK x \in Int : x = (a + b) * size
  BY <1>2
<1>4. x * FeeBps \in Int
  BY <1>1
<1>5. (x * FeeBps) \div 10000 \in Int
  BY <1>4
<1>. QED BY <1>3, <1>5 DEF Fees

(* The older simulator has the same trades, wins, losses and account, but  *)
(* for its fees.                                                           *)
LEMMA OlderAgrees ==
  ASSUME NEW m, NEW last, Traded(m, last), NEW k \in Nat, NEW rows,
         rows = [i \in 1 .. k |-> rows[i]], \A i \in 1 .. k : Shared(rows[i], m)
  PROVE  AgreesWithOlder(rows, m)
<1>. DEFINE Signal(i) == [at |-> rows[i].entry, stop |-> rows[i].stop]
<1>1. DOMAIN rows = 1 .. k /\ Len(rows) = k
  OBVIOUS
<1>2. PICK trades : trades = EngineTrades(Signals(rows), m, Policy)
  OBVIOUS
<1>3. trades = [i \in 1 .. k |-> SimulateSignal(Signal(i), m, Policy)]
  BY <1>1, <1>2 DEF EngineTrades, Signals
<1>4. DOMAIN trades = 1 .. k /\ Len(trades) = k
  BY <1>3
<1>5. ASSUME NEW i \in 1 .. k
      PROVE  /\ SameTrade(rows[i], trades[i])
             /\ trades[i].entry # NoMinute /\ trades[i].exit # NoMinute
             /\ trades[i].net = rows[i].pnl - Fees(rows[i].price, rows[i].exitPrice, rows[i].size)
             /\ trades[i].reason = "TAKE_PROFIT" <=> rows[i].outcome = "WIN"
             /\ trades[i].reason = "STOP_LOSS" <=> rows[i].outcome = "LOSS"
  <2>1. PICK row : row = rows[i]
    OBVIOUS
  <2>2. Shared(row, m)
    BY <2>1
  <2>3. PICK trade : trade = SimulateSignal([at |-> row.entry, stop |-> row.stop], m, Policy)
    OBVIOUS
  <2>4. trades[i] = trade
    BY <1>3, <2>1, <2>3
  <2>5. /\ SameTrade(row, trade) /\ trade.entry # NoMinute /\ trade.exit # NoMinute
        /\ trade.net = row.pnl - Fees(row.price, row.exitPrice, row.size)
        /\ trade.reason = "TAKE_PROFIT" <=> row.outcome = "WIN"
        /\ trade.reason = "STOP_LOSS" <=> row.outcome = "LOSS"
    BY <2>2, <2>3, SimulatedSame
  <2>. QED BY <2>1, <2>4, <2>5
<1>6. ASSUME NEW i \in 1 .. k
      PROVE  /\ rows[i].outcome \in {"WIN", "LOSS", "OPEN_OR_UNRESOLVED"} /\ rows[i].pnl \in Int
             /\ Fees(rows[i].price, rows[i].exitPrice, rows[i].size) \in Int
  <2>1. PICK row : row = rows[i]
    OBVIOUS
  <2>2. Decided(row, m)
    BY <2>1 DEF Shared
  <2>3. /\ row.outcome \in {"WIN", "LOSS", "OPEN_OR_UNRESOLVED"} /\ row.pnl \in Int
        /\ row.price \in Int /\ row.exitPrice \in Int /\ row.size \in Int
    BY <2>2 DEF Decided
  <2>. QED BY <2>1, <2>3, WholeFees
<1>7. PICK account : account = EngineMetrics(trades)
  OBVIOUS
<1>8. account.wins = CountOf(rows, {"WIN"})
  <2>1. {i \in DOMAIN trades : trades[i].entry # NoMinute /\ trades[i].reason = "TAKE_PROFIT"}
          = {i \in DOMAIN rows : rows[i].outcome \in {"WIN"}}
    BY <1>1, <1>4, <1>5
  <2>. QED BY <1>7, <2>1 DEF EngineMetrics, CountOf
<1>9. account.losses = CountOf(rows, {"LOSS"})
  <2>1. {i \in DOMAIN trades : trades[i].entry # NoMinute /\ trades[i].reason = "STOP_LOSS"}
          = {i \in DOMAIN rows : rows[i].outcome \in {"LOSS"}}
    BY <1>1, <1>4, <1>5
  <2>. QED BY <1>7, <2>1 DEF EngineMetrics, CountOf
<1>. DEFINE exits  == [i \in DOMAIN trades |->
                         IF trades[i].exit # NoMinute THEN trades[i].net ELSE 0]
            earned == Earned(rows, {"WIN", "LOSS", "OPEN_OR_UNRESOLVED"})
            fees   == [i \in DOMAIN rows |->
                         Fees(rows[i].price, rows[i].exitPrice, rows[i].size)]
<1>10. account.ending = StartingBalance + Totals(exits)[k]
  BY <1>4, <1>7 DEF EngineMetrics
<1>11. Net(rows, {"WIN", "LOSS", "OPEN_OR_UNRESOLVED"}) = Totals(earned)[k]
  BY <1>1 DEF Net
<1>12. /\ earned \in [1 .. k -> Int] /\ \A i \in 1 .. k : earned[i] = rows[i].pnl
  BY <1>1, <1>6 DEF Earned
<1>13. /\ fees \in [1 .. k -> Int]
       /\ \A i \in 1 .. k : fees[i] = Fees(rows[i].price, rows[i].exitPrice, rows[i].size)
  BY <1>1, <1>6
<1>14. /\ exits \in [1 .. k -> Int] /\ \A i \in 1 .. k : exits[i] = earned[i] - fees[i]
  <2>1. \A i \in 1 .. k : exits[i] = trades[i].net
    BY <1>4, <1>5
  <2>2. \A i \in 1 .. k : exits[i] = earned[i] - fees[i]
    BY <1>5, <1>12, <1>13, <2>1
  <2>3. \A i \in 1 .. k : earned[i] - fees[i] \in Int
    BY <1>12, <1>13
  <2>. HIDE DEF earned, fees
  <2>. QED BY <1>4, <2>2, <2>3
<1>15. fees = [i \in DOMAIN rows |-> Fees(rows[i].price, rows[i].exitPrice, rows[i].size)]
  OBVIOUS
<1>. HIDE DEF exits, earned, fees
<1>16. Totals(exits)[k] = Totals(earned)[k] - Totals(fees)[k]
  BY <1>12, <1>13, <1>14, TotalsApart
<1>17. Totals(earned)[k] \in Int /\ Totals(fees)[k] \in Int /\ StartingBalance \in Int
  <2>1. Totals(earned) \in [0 .. k -> Int]
    BY <1>12, RunningTotals
  <2>2. Totals(fees) \in [0 .. k -> Int]
    BY <1>13, RunningTotals
  <2>3. StartingBalance \in Int
    BY ReportAssumption DEF ReportAssumption
  <2>. QED BY <2>1, <2>2, <2>3
<1>18. account.ending = StartingBalance + Totals(earned)[k] - Totals(fees)[k]
  BY <1>10, <1>16, <1>17
<1>19. \A i \in DOMAIN rows : SameTrade(rows[i], trades[i])
  BY <1>1, <1>5
<1>20. SameTrades(rows, trades)
  BY <1>1, <1>7, <1>8, <1>9, <1>11, <1>15, <1>18, <1>19 DEF SameTrades
<1>. QED BY <1>2, <1>20 DEF AgreesWithOlder, Policy

-----------------------------------------------------------------------------
(* A report against both. *)

(* A model the profile has not is simulated with its own. *)
LEMMA FunnelUsed ==
  ASSUME NEW request \in Allowed
  PROVE  LET strategy == Strategies[request.profile]
         IN  /\ request.profile \in DOMAIN Strategies
             /\ request.model = "RR" => ~FunnelOf(request).legTarget
             /\ request.model = strategy.model =>
                  request.model # "TIME" /\ FunnelOf(request) = strategy.funnel
<1>1. request.profile \in DOMAIN Strategies
  BY DEF Allowed, Requests
<1>2. PICK strategy : strategy = Strategies[request.profile]
  OBVIOUS
<1>3. PICK funnel : funnel = strategy.funnel
  OBVIOUS
<1>4. /\ strategy.model \in {"RR", "LEG"} /\ funnel.legTarget = (strategy.model = "LEG")
      /\ funnel \in [linked : BOOLEAN, legacy : BOOLEAN, matchWindow : Nat, ratioMin : Nat,
                     ratioMax : Nat, direct : BOOLEAN, legTarget : BOOLEAN, uncapped : BOOLEAN]
  BY <1>1, <1>2, <1>3, StrategiesAssumption DEF StrategiesAssumption
<1>5. PICK model : model = IF request.model = "TIME" THEN strategy.model ELSE request.model
  OBVIOUS
<1>6. FunnelOf(request) = [funnel EXCEPT !.legTarget = (model = "LEG")]
  BY <1>2, <1>3, <1>5 DEF FunnelOf
<1>7. request.model = "RR" => ~FunnelOf(request).legTarget
  BY <1>4, <1>5, <1>6
<1>8. ASSUME request.model = strategy.model
      PROVE  request.model # "TIME" /\ FunnelOf(request) = funnel
  <2>1. request.model # "TIME" /\ (model = "LEG") = funnel.legTarget
    BY <1>4, <1>5, <1>8
  <2>2. FunnelOf(request) = [funnel EXCEPT !.legTarget = funnel.legTarget]
    BY <1>6, <2>1
  <2>. QED BY <1>4, <2>1, <2>2
<1>. QED BY <1>1, <1>2, <1>3, <1>7, <1>8

(* The bearish rows with a fixed reward, against simulate_trade.           *)
LEMMA ReportAgreesWithOlder ==
  ASSUME NEW f \in Simulable, NEW request \in Allowed, request.model = "RR",
         NEW rows, rows = Reports[f][request].rows
  PROVE  AgreesWithOlder(Selected(rows, Expressible(rows, Loaded[f])), Loaded[f])
<1>1. PICK m : m = Loaded[f]
  OBVIOUS
<1>2. PICK last : Traded(m, last)
  BY <1>1, FileTraded
<1>3. PICK p : p = FunnelOf(request)
  OBVIOUS
<1>4. PICK v : v = View(p, m)
  OBVIOUS
<1>5. PICK trades : trades = CombinedTrades(v)
  OBVIOUS
<1>6. PICK list : list = InOrder(trades, ByEntry(trades))
  OBVIOUS
<1>7. PICK n : n = Cardinality(trades)
  OBVIOUS
<1>8. rows = RowsOf(v, request.profile, trades)
  BY <1>1, <1>3, <1>4, <1>5 DEF Reports, ReportFor, ReportOf, TradeRows, Account
<1>9. /\ Booked(rows, n)
      /\ \A i \in 1 .. n :
           /\ Decided(rows[i], m)
           /\ list[i] \in TradeList(v, rows[i].kind) /\ rows[i].entry = list[i].entry
           /\ rows[i].stop = list[i].stop /\ rows[i].target = list[i].target
  <2>1. trades \in SUBSET CombinedTrades(v)
    BY <1>5
  <2>. QED BY <1>2, <1>4, <1>6, <1>7, <1>8, <2>1, RowsDecided
<1>10. n \in Nat /\ DOMAIN rows = 1 .. n
  BY <1>9 DEF Booked
<1>11. ~p.legTarget
  BY <1>3, FunnelUsed
<1>12. PICK places : places = Expressible(rows, m)
  OBVIOUS
<1>13. ASSUME NEW i \in places PROVE i \in 1 .. n /\ Shared(rows[i], m)
  <2>1. PICK row : row = rows[i]
    OBVIOUS
  <2>2. /\ i \in 1 .. n /\ row.kind = "HIGH" /\ m[row.entry].l > row.target
        /\ row.entry + 1 \in DOMAIN m /\ m[row.entry + 1].o = row.price
    BY <1>10, <1>12, <2>1 DEF Expressible
  <2>3. PICK trade : trade = list[i]
    OBVIOUS
  <2>4. /\ Decided(row, m) /\ trade \in TradeList(v, "HIGH") /\ row.entry = trade.entry
        /\ row.stop = trade.stop /\ row.target = trade.target
    BY <1>9, <2>1, <2>2, <2>3
  <2>5. trade.target = m[trade.entry].c - FixedReward(trade.stop - m[trade.entry].c)
    <3>1. "HIGH" \in Kinds
      BY DEF Kinds
    <3>. QED BY <1>2, <1>4, <1>11, <2>4, <3>1, ListedTrade
  <2>6. row.target = row.price - FixedReward(row.stop - row.price)
    BY <2>4, <2>5 DEF Decided
  <2>7. Shared(row, m)
    BY <2>2, <2>4, <2>6 DEF Shared
  <2>. QED BY <2>1, <2>2, <2>7
<1>14. places \in SUBSET (1 .. n)
  BY <1>13
<1>15. PICK chosen : chosen = InOrder(places, Rising(places))
  OBVIOUS
<1>16. PICK k : k = Cardinality(places)
  OBVIOUS
<1>17. PICK part : part = Selected(rows, places)
  OBVIOUS
<1>18. /\ k \in Nat /\ part = TakenFrom(rows, chosen, k)
       /\ \A j \in 1 .. k : chosen[j] \in places
  BY ONLY <1>10, <1>14, <1>15, <1>16, <1>17, SelectedRows
<1>19. part = [j \in 1 .. k |-> part[j]] /\ \A j \in 1 .. k : Shared(part[j], m)
  BY <1>13, <1>18 DEF TakenFrom
<1>20. AgreesWithOlder(part, m)
  BY <1>2, <1>18, <1>19, OlderAgrees
<1>. QED BY <1>1, <1>12, <1>17, <1>20

(* The bearish rows of a profile's own model, against                      *)
(* run_research_comparison.                                                *)
LEMMA ReportHasComparison ==
  ASSUME NEW f \in Simulable, NEW request \in Allowed,
         NEW rows, rows = Reports[f][request].rows,
         NEW strategy, strategy = Strategies[request.profile],
         request.model = strategy.model, ~strategy.funnel.linked
  PROVE  Comparisons[f][request.profile]
           = Account(Selected(rows, {i \in DOMAIN rows : rows[i].kind = "HIGH"}))
<1>1. PICK m : m = Loaded[f]
  OBVIOUS
<1>2. PICK last : Traded(m, last)
  BY <1>1, FileTraded
<1>3. PICK p : p = FunnelOf(request)
  OBVIOUS
<1>4. p = strategy.funnel /\ request.profile \in DOMAIN Strategies
  BY <1>3, FunnelUsed
<1>5. PICK v : v = View(p, m)
  OBVIOUS
<1>6. v = ViewWith(p, m, {})
  BY <1>4, <1>5 DEF View, ViewWith
<1>7. PICK trades : trades = CombinedTrades(v)
  OBVIOUS
<1>8. PICK highs : highs = TradeList(v, "HIGH")
  OBVIOUS
<1>9. PICK profile : profile = request.profile
  OBVIOUS
<1>10. Comparisons[f][profile] = Account(RowsOf(v, profile, highs))
  <2>1. Comparisons[f][profile] = ComparisonRow(Strategies[profile].funnel, profile, Loaded[f]).account
    BY <1>4, <1>9 DEF Comparisons
  <2>2. ComparisonRow(p, profile, m) = BearishRow(v, profile)
    BY <1>6 DEF ComparisonRow
  <2>3. BearishRow(v, profile).account = Account(RowsOf(v, profile, highs))
    BY <1>8 DEF BearishRow
  <2>. QED BY <1>1, <1>4, <1>9, <2>1, <2>2, <2>3
<1>11. PICK list : list = InOrder(trades, ByEntry(trades))
  OBVIOUS
<1>12. PICK n : n = Cardinality(trades)
  OBVIOUS
<1>13. rows = RowsOf(v, profile, trades)
  BY <1>1, <1>3, <1>5, <1>7, <1>9 DEF Reports, ReportFor, ReportOf, TradeRows, Account
<1>14. /\ Booked(rows, n)
       /\ \A i \in 1 .. n : /\ Decided(rows[i], m) /\ rows[i] = Row(v, profile, list[i])
                            /\ list[i] \in TradeList(v, rows[i].kind)
  <2>1. trades \in SUBSET CombinedTrades(v)
    BY <1>7
  <2>. QED BY <1>2, <1>5, <1>11, <1>12, <1>13, <2>1, RowsDecided
<1>15. n \in Nat /\ DOMAIN rows = 1 .. n
  BY <1>14 DEF Booked
<1>16. IsFiniteSet(trades) /\ Orders(ByEntry(trades), trades)
  <2>1. trades \in SUBSET CombinedTrades(v)
    BY <1>7
  <2>. QED BY <1>2, <1>5, <2>1, TradesOrdered
<1>17. highs \in SUBSET trades
  BY <1>7, <1>8 DEF CombinedTrades
<1>18. \A a, b \in highs : <<a, b>> \in ByEntry(highs) <=> <<a, b>> \in ByEntry(trades)
  BY <1>17 DEF ByEntry
<1>19. PICK places : places = {i \in DOMAIN rows : rows[i].kind = "HIGH"}
  OBVIOUS
<1>20. places = {i \in 1 .. n : list[i] \in highs}
  <2>1. ASSUME NEW i \in 1 .. n PROVE rows[i].kind = "HIGH" <=> list[i] \in highs
    <3>1. PICK kind \in Kinds : kind = rows[i].kind /\ list[i] \in TradeList(v, kind)
      BY <1>14 DEF Decided
    <3>2. list[i].swing.kind = kind
      BY <1>2, <1>5, <3>1, ListedTrade DEF Sound
    <3>3. ASSUME list[i] \in highs PROVE list[i].swing.kind = "HIGH"
      <4>1. "HIGH" \in Kinds
        BY DEF Kinds
      <4>. QED BY <1>2, <1>5, <1>8, <3>3, <4>1, ListedTrade DEF Sound
    <3>. QED BY <1>8, <3>1, <3>2, <3>3
  <2>. QED BY <1>15, <1>19, <2>1
<1>21. PICK chosen : chosen = InOrder(places, Rising(places))
  OBVIOUS
<1>22. PICK k : k = Cardinality(places)
  OBVIOUS
<1>23. PICK listed : listed = InOrder(highs, ByEntry(highs))
  OBVIOUS
<1>24. listed = TakenFrom(list, chosen, k)
  <2>1. PICK whole : whole = ByEntry(trades)
    OBVIOUS
  <2>2. PICK part : part = ByEntry(highs)
    OBVIOUS
  <2>3. /\ IsFiniteSet(trades) /\ Orders(whole, trades) /\ highs \in SUBSET trades
        /\ \A a, b \in highs : <<a, b>> \in part <=> <<a, b>> \in whole
        /\ n = Cardinality(trades) /\ list = InOrder(trades, whole)
    BY <1>11, <1>12, <1>16, <1>17, <1>18, <2>1, <2>2
  <2>4. \A i : i \in places <=> i \in 1 .. n /\ list[i] \in highs
    BY <1>20
  <2>5. InOrder(highs, part) = TakenFrom(list, chosen, Cardinality(places))
    BY ONLY <1>21, <2>3, <2>4, PartListed
  <2>. QED BY <1>22, <1>23, <2>2, <2>5
<1>25. /\ k \in Nat /\ Selected(rows, places) = TakenFrom(rows, chosen, k)
       /\ \A j \in 1 .. k : chosen[j] \in places
  <2>1. places \in SUBSET (1 .. n)
    BY <1>20
  <2>. QED BY ONLY <1>15, <1>21, <1>22, <2>1, SelectedRows
<1>26. RowsOf(v, profile, highs) = [j \in 1 .. k |-> Row(v, profile, list[chosen[j]])]
  BY <1>23, <1>24 DEF RowsOf, TakenFrom
<1>27. RowsOf(v, profile, highs) = Selected(rows, places)
  <2>1. \A j \in 1 .. k : rows[chosen[j]] = Row(v, profile, list[chosen[j]])
    BY <1>14, <1>20, <1>25
  <2>. QED BY <1>25, <1>26, <2>1 DEF TakenFrom
<1>. QED BY <1>9, <1>10, <1>19, <1>27

-----------------------------------------------------------------------------

(* However the requests of several pages are interleaved, every report     *)
(* that the server has stored adds up: _performance_summary ends where     *)
(* _equity_curve_from_trades does, and, unless a time based exit has been  *)
(* laid over it, _apply_balances gives each trade of the two directions    *)
(* the balance after those entered up to it, and _max_drawdown is the      *)
(* deepest fall of that curve.                                             *)
THEOREM ReportsAddUp == Spec => []ReportAdds
<1>1. ASSUME Inv, ResultInv PROVE ReportAdds
  <2>. SUFFICES ASSUME NEW n \in DOMAIN runs
                PROVE  Adds(runs[n].result.report, runs[n].request.model)
    BY DEF ReportAdds, Adds
  <2>1. PICK f \in Simulable, request \in Allowed :
          runs[n].request = request /\ runs[n].result.report = ToldFor(f, request)
    BY <1>1, StoredRun
  <2>. QED BY <2>1, ReportAddsUp
<1>2. Inv /\ ResultInv => ReportAdds
  BY <1>1
<1>. QED BY <1>2, Invariance, ResultInvariance, PTL

(* Every row of a stored run that _time_exit_trade has closed agrees with  *)
(* the row that _simulate_bearish_trade or its mirror made of the same     *)
(* trade: one stopped before it was due was stopped in that minute there,  *)
(* unless it had won first, and no loss from before it was due goes        *)
(* unseen.                                                                 *)
THEOREM TimeExitsAgree == Spec => []TimeExitAgrees
<1>1. ASSUME Inv, ResultInv PROVE TimeExitAgrees
  <2>. SUFFICES ASSUME NEW n \in DOMAIN runs, runs[n].request.model = "TIME"
                PROVE  LET was == runs[n].result.plain.rows
                           is  == runs[n].result.report.rows
                       IN  /\ Len(is) = Len(was)
                           /\ \A i \in DOMAIN is :
                                Agreeing(was[i], is[i], runs[n].request.minutes)
    BY DEF TimeExitAgrees, Agreeing
  <2>1. PICK f \in Simulable, request \in Allowed :
          /\ runs[n].request = request
          /\ runs[n].result.report = ToldFor(f, request)
          /\ runs[n].result.plain = Reports[f][request]
    BY <1>1, StoredRun
  <2>. QED BY <2>1, TimeExitTells
<1>2. Inv /\ ResultInv => TimeExitAgrees
  BY <1>1
<1>. QED BY <1>2, Invariance, ResultInvariance, PTL

(* What a stored run and the older simulator both say of a trade agrees:   *)
(* simulate_trade and calculate_metrics make of the bearish trades they    *)
(* can express the same rows and account, but for the fees; and            *)
(* run_research_comparison has for the profile the account of the run's    *)
(* own bearish rows.                                                       *)
THEOREM SimulatorsAgreeAlways == Spec => []SimulatorsAgree
<1>1. ASSUME Inv, ResultInv PROVE SimulatorsAgree
  <2>. SUFFICES ASSUME NEW n \in DOMAIN runs, NEW rows, rows = runs[n].result.report.rows,
                       NEW request, request = runs[n].request,
                       NEW f, f = runs[n].read,
                       NEW strategy, strategy = Strategies[request.profile]
                PROVE  /\ request.model = "RR" =>
                            AgreesWithOlder(Selected(rows, Expressible(rows, Loaded[f])), Loaded[f])
                       /\ request.model = strategy.model /\ ~strategy.funnel.linked =>
                            Comparisons[f][request.profile]
                              = Account(Selected(rows, {i \in DOMAIN rows : rows[i].kind = "HIGH"}))
    BY DEF SimulatorsAgree
  <2>1. f \in Simulable /\ request \in Allowed /\ runs[n].result.report = ToldFor(f, request)
    BY <1>1, StoredRun
  <2>2. request.model # "TIME" => rows = Reports[f][request].rows
    BY <2>1 DEF ToldFor
  <2>3. request.model = strategy.model => request.model # "TIME"
    BY <2>1, FunnelUsed
  <2>4. request.model = "RR" =>
          AgreesWithOlder(Selected(rows, Expressible(rows, Loaded[f])), Loaded[f])
    BY <2>1, <2>2, ReportAgreesWithOlder
  <2>5. ASSUME request.model = strategy.model, ~strategy.funnel.linked
        PROVE  Comparisons[f][request.profile]
                 = Account(Selected(rows, {i \in DOMAIN rows : rows[i].kind = "HIGH"}))
    <3>1. rows = Reports[f][request].rows /\ strategy = Strategies[request.profile]
      BY <2>2, <2>3, <2>5
    <3>. QED BY ONLY <2>1, <2>5, <3>1, ReportHasComparison
  <2>. QED BY <2>4, <2>5
<1>2. Inv /\ ResultInv => SimulatorsAgree
  BY <1>1
<1>. QED BY <1>2, Invariance, ResultInvariance, PTL
=============================================================================
