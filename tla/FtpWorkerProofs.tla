--------------------------- MODULE FtpWorkerProofs ---------------------------
(***************************************************************************)
(* Proofs about the two threads of the client, for all sets of             *)
(* directories and names.                                                  *)
(***************************************************************************)
EXTENDS FtpWorker, TLAPS

Signals == {"toMain", "toLogin", "refresh", "update", "error", "info"}
ParamNames == {"netname", "localname", "offset", "tranfermode"}

\* What a handler may ask to change.
ChangesOK(c) ==
  /\ DOMAIN c \subseteq ParamNames
  /\ "netname" \in DOMAIN c => c["netname"] \in Netnames
  /\ "localname" \in DOMAIN c => c["localname"] \in Localnames
  /\ "offset" \in DOMAIN c => c["offset"] \in {0, 1}
  /\ "tranfermode" \in DOMAIN c => c["tranfermode"] \in {MODE_PASV, MODE_PORT}

\* A request holds the parameters that its task uses.
RequestOK(q) ==
  /\ q.task \in Tasks \cup {"changeMode", "none"}
  /\ ChangesOK(q.changes)
  /\ Uses(q.task) \subseteq DOMAIN q.changes

\* The parameters are those of the request.
Agrees(q) == \A x \in DOMAIN q.changes : params[x] = q.changes[x]

InTask == w \in {"working", "parsing"}

\* Who holds the mutex.
LockOwned ==
  /\ w # "dead" => (lock = "worker" <=> InTask)
  /\ lock = "gui" <=> g = "unlock"

\* The handler under way.
HandlerInv ==
  /\ RequestOK(req)
  /\ g \in {"unlock", "task", "start"} => Agrees(req)
  /\ g \in {"task", "start"} => req.task # "changeMode"
  /\ g = "start" /\ req.task # "none" => task = req.task

\* The request that the run was started for.
RunInv ==
  /\ RequestOK(due)
  /\ due.task # "none" =>
       /\ due.task \in Tasks
       /\ w \in {"started", "chosen", "working", "parsing", "dead"}
       /\ Agrees(due)
       /\ w = "started" => task = due.task
       /\ w \in {"chosen", "working", "parsing"} => fn = due.task

\* The listing that was got last is shown, or will be.
Announced ==
  \/ table = fileList \/ w = "dead"
  \/ w = "unlocked" /\ res /\ fn = "getList"
  \/ \E i \in 1 .. Len(queue) : queue[i] = "refresh"
ListInv ==
  /\ w = "parsing" => fn = "getList" /\ fileList.dir = cwd
  /\ ~owed /\ ~slip /\ cwd # "none" => fileList.dir = cwd /\ fileList.whole /\ Announced

WInv == TypeOK /\ LockOwned /\ HandlerInv /\ RunInv

-----------------------------------------------------------------------------
(* Lemmas about requests *)

LEMMA NoRequestOK ==
  /\ RequestOK(NoRequest) /\ NoRequest.task = "none"
  /\ DOMAIN NoRequest.changes = {}
BY DEF NoRequest, NoChange, Request, RequestOK, ChangesOK, Uses

\* The requests of the handlers.
LEMMA RequestsOK ==
  /\ \A t \in {"login", "logout", "getList"} : RequestOK(Request(t, NoChange))
  /\ \A row \in Netnames : \A t \in {"changeDir", "deleteNode", "removeDir", "none"} :
       RequestOK(Request(t, [netname |-> row]))
  /\ \A row \in Netnames : \A local \in Localnames : \A t \in {"rename", "uploadFile"} :
       RequestOK(Request(t, [netname |-> row, localname |-> local]))
  /\ \A local \in Localnames : RequestOK(Request("makeDir", [localname |-> local]))
  /\ \A row \in Netnames : \A local \in Localnames : \A offset \in {0, 1} :
       RequestOK(Request("downloadFile",
                         [netname |-> row, localname |-> local, offset |-> offset]))
  /\ \A mode \in {MODE_PASV, MODE_PORT} :
       RequestOK(Request("changeMode", [tranfermode |-> mode]))
BY DEF NoChange, Request, RequestOK, ChangesOK, Uses, Tasks, ParamNames

\* dict.update() keeps the types, and the new values are there after it.
LEMMA UpdatedOK ==
  ASSUME params \in Params, NEW q, RequestOK(q), params' = Updated(q.changes)
  PROVE  /\ params' \in Params
         /\ \A x \in DOMAIN q.changes : params'[x] = q.changes[x]
<1>1. DOMAIN params = ParamNames
  BY DEF Params, ParamNames
<1>2. ChangesOK(q.changes)
  BY DEF RequestOK
<1>3. \A x \in DOMAIN q.changes : params'[x] = q.changes[x]
  BY <1>1, <1>2 DEF Updated, ChangesOK
<1>4. params' \in Params
  BY <1>1, <1>2 DEF Updated, ChangesOK, Params, ParamNames
<1>5. QED
  BY <1>3, <1>4

-----------------------------------------------------------------------------
(* Initial states and steps *)

LEMMA InitOK == Init => WInv /\ ListInv
<1>1. ASSUME Init PROVE TypeOK
  <2>1. params \in Params
    BY <1>1 DEF Init, Params, Netnames, Localnames, MODE_PASV, MODE_PORT
  <2>2. queue \in Seq(Signals)
    BY <1>1 DEF Init
  <2>3. req.task = "none"
    BY <1>1, NoRequestOK DEF Init
  <2>4. QED
    BY <1>1, <2>1, <2>2, <2>3 DEF Init, TypeOK, Signals
<1>2. ASSUME Init PROVE LockOwned
  BY <1>2 DEF Init, LockOwned, InTask
<1>3. ASSUME Init PROVE HandlerInv /\ RunInv
  BY <1>3, NoRequestOK DEF Init, HandlerInv, RunInv
<1>4. ASSUME Init PROVE ListInv
  BY <1>4 DEF Init, ListInv
<1>5. QED
  BY <1>1, <1>2, <1>3, <1>4 DEF WInv

\* A click, or a signal handled: nothing of the worker changes, but that an
\* exception may end the program.
Quietly ==
  /\ w # "dead" /\ g = "idle"
  /\ w' \in {w, "dead"} /\ fn' = fn /\ res' = res
  /\ lock' = lock /\ params' = params /\ task' = task /\ due' = due
  /\ fileList' = fileList /\ cwd' = cwd /\ owed' = owed /\ slip' = slip

LEMMA AskQuietly ==
  ASSUME NEW t, NEW c, Awake, Ask(t, c)
  PROVE  /\ Quietly /\ g' = "params" /\ req' = Request(t, c)
         /\ dialog' = FALSE /\ alert' = alert /\ page' = page
         /\ table' = table /\ queue' = queue
BY DEF Ask, Awake, Quietly, run, engine

LEMMA ClickQuietly ==
  ASSUME WInv, Click
  PROVE  /\ Quietly /\ table' = table /\ queue' = queue
         /\ g' \in {"idle", "params", "task"}
         /\ RequestOK(req')
         /\ g' = "task" => req'.task # "changeMode" /\ DOMAIN req'.changes = {}
         /\ dialog' \in BOOLEAN /\ alert' \in BOOLEAN /\ clicks' \in Nat
         /\ page' \in {"login", "main"}
<1> DEFINE Goal ==
       /\ Quietly /\ table' = table /\ queue' = queue
       /\ g' \in {"idle", "params", "task"}
       /\ RequestOK(req')
       /\ g' = "task" => req'.task # "changeMode" /\ DOMAIN req'.changes = {}
       /\ dialog' \in BOOLEAN /\ alert' \in BOOLEAN
       /\ page' \in {"login", "main"}
<1>1. Awake /\ clicks' \in Nat
  <2>1. ASSUME NEW shown, Clicked(shown) PROVE Awake /\ clicks' \in Nat
    BY <2>1 DEF Clicked, WInv, TypeOK
  <2>2. CASE FileChosen \/ DismissAlert
    BY <2>2 DEF FileChosen, DismissAlert, WInv, TypeOK
  <2>3. QED
    BY <2>1, <2>2
       DEF Click, LoginClicked, LogoutClicked, UpdateClicked, DeleteClicked,
           RenameClicked, MakeDirClicked, RowDoubleClicked, ModeClicked, FileClicked
<1>2. ASSUME NEW t, NEW c, Ask(t, c), RequestOK(Request(t, c)) PROVE Goal
  BY <1>1, <1>2, AskQuietly DEF WInv, TypeOK
<1>3. ASSUME NEW t \in {"logout", "getList"}, AskTask(t), UNCHANGED <<page, queue>>
      PROVE  Goal
  <2>1. RequestOK(Request(t, NoChange))
    BY RequestsOK
  <2>2. DOMAIN NoChange = {} /\ Request(t, NoChange).task = t
        /\ Request(t, NoChange).changes = NoChange
    BY DEF NoChange, Request
  <2>3. QED
    BY <1>1, <1>3, <2>1, <2>2
       DEF AskTask, Awake, Quietly, run, engine, WInv, TypeOK
<1>4. CASE Complain
  BY <1>1, <1>4 DEF Complain, Awake, Quietly, run, engine, WInv, TypeOK, HandlerInv
<1>5. ASSUME NEW open \in BOOLEAN, Dialog(open) PROVE Goal
  BY <1>1, <1>5 DEF Dialog, Awake, Quietly, run, engine, WInv, TypeOK, HandlerInv
<1>6. CASE Ends
  BY <1>1, <1>6 DEF Ends, Awake, Quietly, gui, engine, WInv, TypeOK, HandlerInv
<1>7. Listed \subseteq Netnames /\ Files \subseteq Netnames
      /\ "typed" \in Netnames /\ {"typed", "path"} \subseteq Localnames
  BY DEF Listed, Rows, Netnames, Localnames
<1>8. Goal
  <2>1. CASE LoginClicked
    BY <2>1, <1>2, <1>4, RequestsOK DEF LoginClicked
  <2>2. CASE LogoutClicked \/ UpdateClicked
    BY <2>2, <1>3 DEF LogoutClicked, UpdateClicked
  <2>3. CASE DeleteClicked
    BY <2>3, <1>2, <1>4, <1>7, RequestsOK DEF DeleteClicked
  <2>4. CASE RenameClicked
    BY <2>4, <1>2, <1>4, <1>7, RequestsOK DEF RenameClicked
  <2>5. CASE MakeDirClicked
    BY <2>5, <1>2, <1>4, <1>7, RequestsOK DEF MakeDirClicked
  <2>6. CASE RowDoubleClicked
    BY <2>6, <1>2, <1>7, RequestsOK DEF RowDoubleClicked
  <2>7. CASE ModeClicked
    BY <2>7, <1>2, RequestsOK DEF ModeClicked
  <2>8. CASE FileClicked
    BY <2>8, <1>5 DEF FileClicked
  <2>9. CASE FileChosen
    <3>1. CASE Upload
      BY <3>1, <1>2, <1>7, RequestsOK DEF Upload
    <3>2. CASE Patch
      BY <3>2, <1>2, <1>7, RequestsOK DEF Patch
    <3>3. CASE Download
      BY <3>3, <1>2, <1>7, RequestsOK DEF Download
    <3>4. QED
      BY <2>9, <3>1, <3>2, <3>3, <1>4, <1>5, <1>6 DEF FileChosen
  <2>10. CASE DismissAlert
    BY <1>1, <2>10 DEF DismissAlert, Awake, Quietly, run, engine, WInv, TypeOK, HandlerInv
  <2>11. QED
    BY <2>1, <2>2, <2>3, <2>4, <2>5, <2>6, <2>7, <2>8, <2>9, <2>10 DEF Click
<1>9. QED
  BY <1>1, <1>8

LEMMA HandleQuietly ==
  ASSUME WInv, Handle
  PROVE  /\ Quietly /\ w' = w /\ g' \in {"idle", "task"}
         /\ RequestOK(req')
         /\ g' = "task" => req'.task # "changeMode" /\ DOMAIN req'.changes = {}
         /\ dialog' \in BOOLEAN /\ alert' \in BOOLEAN /\ clicks' \in Nat
         /\ page' \in {"login", "main"}
         /\ queue # <<>> /\ queue' = Tail(queue) /\ table' \in {table, fileList}
         /\ Head(queue) = "refresh" => table' = fileList
<1>1. RequestOK(Request("getList", NoChange)) /\ DOMAIN NoChange = {}
      /\ Request("getList", NoChange).task = "getList"
      /\ Request("getList", NoChange).changes = NoChange
  BY RequestsOK DEF NoChange, Request
<1>2. CASE Head(queue) \in {"toMain", "update"} /\ AskTask("getList")
  BY <1>1, <1>2 DEF Handle, AskTask, Awake, Quietly, run, engine, WInv, TypeOK, Refresh
<1>3. CASE Head(queue) \notin {"toMain", "update"}
  BY <1>3 DEF Handle, Awake, Quietly, run, engine, WInv, TypeOK, HandlerInv, Refresh
<1>4. QED
  BY <1>2, <1>3 DEF Handle

\* What Quietly means for the invariant.
LEMMA QuietlyKeeps ==
  ASSUME WInv, Quietly, g' \in {"idle", "params", "task"}, RequestOK(req'),
         g' = "task" => req'.task # "changeMode" /\ DOMAIN req'.changes = {},
         dialog' \in BOOLEAN, alert' \in BOOLEAN, clicks' \in Nat,
         page' \in {"login", "main"}, queue' \in Seq(Signals),
         table' \in {table, fileList}
  PROVE  WInv'
<1>1. TypeOK'
  BY DEF WInv, TypeOK, Quietly, RequestOK, Signals
<1>2. LockOwned'
  BY DEF WInv, LockOwned, Quietly, InTask
<1>3. HandlerInv'
  BY DEF WInv, HandlerInv, Quietly, Agrees
<1>4. RunInv'
  BY DEF WInv, RunInv, Quietly, Agrees
<1>5. QED
  BY <1>1, <1>2, <1>3, <1>4 DEF WInv

LEMMA TailSeq ==
  ASSUME NEW S, NEW s \in Seq(S), s # <<>>
  PROVE  /\ Tail(s) \in Seq(S) /\ Head(s) \in S
         /\ \A i \in 1 .. Len(s) : i = 1 \/ Tail(s)[i - 1] = s[i]
         /\ Len(Tail(s)) = Len(s) - 1 /\ Head(s) = s[1] /\ Len(s) \in Nat
OBVIOUS

LEMMA HandlerStepKeeps ==
  ASSUME WInv, HandlerStep
  PROVE  WInv'
<1>1. CASE SetParams
  <2>1. CASE lock = "free" /\ params' = Updated(req.changes) /\ lock' = "gui"
             /\ g' = "unlock" /\ due' = (IF w \in {"started", "chosen"} THEN NoRequest ELSE due)
             /\ UNCHANGED <<queue, table, req>>
    <3>1. /\ w # "dead" /\ g = "params" /\ w' = w /\ fn' = fn /\ res' = res
          /\ task' = task /\ fileList' = fileList /\ cwd' = cwd /\ owed' = owed /\ slip' = slip
          /\ dialog' = dialog /\ alert' = alert /\ page' = page /\ clicks' = clicks
      BY <1>1 DEF SetParams, run, engine
    <3>2. params' \in Params /\ \A x \in DOMAIN req.changes : params'[x] = req.changes[x]
      BY <2>1, UpdatedOK DEF WInv, TypeOK, HandlerInv
    <3>3. TypeOK'
      BY <2>1, <3>1, <3>2 DEF WInv, TypeOK
    <3>4. LockOwned'
      BY <2>1, <3>1 DEF WInv, LockOwned, InTask
    <3>5. HandlerInv'
      BY <2>1, <3>1, <3>2 DEF WInv, HandlerInv, Agrees
    <3>6. due'.task = "none" /\ RequestOK(due')
      BY <2>1, <3>1, NoRequestOK DEF WInv, RunInv, LockOwned, InTask
    <3>7. QED
      BY <3>3, <3>4, <3>5, <3>6 DEF WInv, RunInv
  <2>2. CASE lock # "free" /\ queue' = Append(queue, "error") /\ g' = "idle"
             /\ req' = NoRequest /\ UNCHANGED <<lock, params, due>>
             /\ table' \in {table, fileList}
    <3>1. /\ w # "dead" /\ g = "params" /\ w' = w /\ fn' = fn /\ res' = res
          /\ task' = task /\ fileList' = fileList /\ cwd' = cwd /\ owed' = owed /\ slip' = slip
          /\ dialog' = dialog /\ alert' = alert /\ page' = page /\ clicks' = clicks
      BY <1>1 DEF SetParams, run, engine
    <3>2. TypeOK'
      BY <2>2, <3>1, NoRequestOK DEF WInv, TypeOK
    <3>3. LockOwned'
      BY <2>2, <3>1 DEF WInv, LockOwned, InTask
    <3>4. HandlerInv'
      BY <2>2, <3>1, NoRequestOK DEF WInv, HandlerInv, Agrees
    <3>5. RunInv'
      BY <2>2, <3>1 DEF WInv, RunInv, Agrees
    <3>6. QED
      BY <3>2, <3>3, <3>4, <3>5 DEF WInv
  <2>3. QED
    BY <1>1, <2>1, <2>2 DEF SetParams, Crosses, Refresh
<1>2. CASE UnlockParams
  <2>1. /\ w # "dead" /\ g = "unlock" /\ w' = w /\ fn' = fn /\ res' = res
        /\ task' = task /\ fileList' = fileList /\ cwd' = cwd /\ owed' = owed /\ slip' = slip
        /\ dialog' = dialog /\ alert' = alert /\ page' = page /\ clicks' = clicks
        /\ lock' = "free" /\ params' = params /\ queue' = queue /\ due' = due
        /\ table' \in {table, fileList}
        /\ \/ g' = "idle" /\ req' = NoRequest
           \/ g' = "task" /\ req' = req /\ req.task # "changeMode"
    BY <1>2 DEF UnlockParams, Refresh, run, engine
  <2>2. TypeOK'
    BY <2>1, NoRequestOK DEF WInv, TypeOK
  <2>3. LockOwned'
    BY <2>1 DEF WInv, LockOwned, InTask
  <2>4. HandlerInv'
    BY <2>1, NoRequestOK DEF WInv, HandlerInv, Agrees
  <2>5. RunInv'
    BY <2>1 DEF WInv, RunInv, Agrees
  <2>6. QED
    BY <2>2, <2>3, <2>4, <2>5 DEF WInv
<1>3. CASE SetTask
  <2>1. /\ w # "dead" /\ g = "task" /\ w' = w /\ fn' = fn /\ res' = res
        /\ fileList' = fileList /\ cwd' = cwd /\ owed' = owed /\ slip' = slip
        /\ dialog' = dialog /\ alert' = alert /\ page' = page /\ clicks' = clicks
        /\ lock' = lock /\ params' = params /\ queue' = queue /\ table' = table
        /\ g' = "start" /\ req' = req
        /\ task' = (IF req.task = "none" THEN task ELSE req.task)
        /\ due' = (IF w = "started" THEN NoRequest ELSE due)
    BY <1>3 DEF SetTask, Crosses, run, engine
  <2>2. TypeOK'
    BY <2>1 DEF WInv, TypeOK, HandlerInv
  <2>3. LockOwned'
    BY <2>1 DEF WInv, LockOwned, InTask
  <2>4. HandlerInv'
    BY <2>1 DEF WInv, HandlerInv, Agrees
  <2>5. RunInv'
    BY <2>1, NoRequestOK DEF WInv, RunInv, Agrees
  <2>6. QED
    BY <2>2, <2>3, <2>4, <2>5 DEF WInv
<1>4. CASE Start
  <2>1. /\ w # "dead" /\ g = "start" /\ fn' = fn /\ res' = res /\ task' = task
        /\ fileList' = fileList /\ cwd' = cwd /\ owed' = owed /\ slip' = slip
        /\ dialog' = dialog /\ alert' = alert /\ page' = page /\ clicks' = clicks
        /\ lock' = lock /\ params' = params /\ queue' = queue /\ table' = table
        /\ g' = "idle" /\ req' = NoRequest
        /\ \/ w = "off" /\ w' = "started" /\ due' = req
           \/ w # "off" /\ w' = w /\ due' = due
    BY <1>4 DEF Start, engine
  <2>2. TypeOK'
    BY <2>1, NoRequestOK DEF WInv, TypeOK
  <2>3. LockOwned'
    BY <2>1 DEF WInv, LockOwned, InTask
  <2>4. HandlerInv'
    BY <2>1, NoRequestOK DEF WInv, HandlerInv, Agrees
  <2>5. RunInv'
    BY <2>1 DEF WInv, RunInv, HandlerInv, RequestOK, Agrees
  <2>6. QED
    BY <2>2, <2>3, <2>4, <2>5 DEF WInv
<1>5. QED
  BY <1>1, <1>2, <1>3, <1>4 DEF HandlerStep

\* What a step of the worker leaves alone.
WorkerLeaves ==
  /\ g' = g /\ req' = req /\ dialog' = dialog /\ alert' = alert /\ page' = page
  /\ table' = table /\ clicks' = clicks /\ params' = params /\ task' = task

LEMMA WorkerStepKeeps ==
  ASSUME WInv, WorkerStep
  PROVE  WInv' /\ WorkerLeaves
<1>1. WorkerLeaves
  BY DEF WorkerStep, ReadTask, TakeLock, WorkFails, WorkRaises, Ends, WorkSucceeds,
         ListBegins, ListEnds, Emit, Report, Returns, workerSame, gui, WorkerLeaves
<1>2. w # "dead"
  BY DEF WorkerStep, ReadTask, TakeLock, WorkFails, WorkRaises, WorkSucceeds,
         ListBegins, ListEnds, Emit, Report, Returns
<1>3. TypeOK'
  <2> DEFINE Rest ==
        /\ lock' \in {"free", "gui", "worker"}
        /\ fn' \in Tasks \cup {"nothing"}
        /\ w' \in {"off", "started", "chosen", "working", "parsing", "unlocked",
                   "emitted", "returning", "dead"}
        /\ res' \in BOOLEAN
        /\ queue' \in Seq(Signals)
        /\ fileList' \in [dir : Dirs \cup {"none"}, whole : BOOLEAN]
        /\ cwd' \in Dirs \cup {"none"} /\ owed' \in BOOLEAN /\ slip' \in BOOLEAN
  <2>1. Rest
    <3> USE DEF WInv, TypeOK, engine, Signals
    <3>1. CASE ReadTask
      BY <3>1 DEF ReadTask
    <3>2. CASE TakeLock
      BY <3>2 DEF TakeLock
    <3>3. CASE WorkFails
      BY <3>3 DEF WorkFails, Done
    <3>4. CASE WorkRaises
      BY <3>4 DEF WorkRaises, Ends
    <3>5. CASE WorkSucceeds
      BY <3>5, HomeAssumption DEF WorkSucceeds, Done
    <3>6. CASE ListBegins
      BY <3>6 DEF ListBegins
    <3>7. CASE ListEnds
      BY <3>7 DEF ListEnds, Done
    <3>8. CASE Emit \/ Report
      BY <3>8 DEF Emit, Report, Signal
    <3>9. CASE Returns
      BY <3>9 DEF Returns
    <3>10. QED
      BY <3>1, <3>2, <3>3, <3>4, <3>5, <3>6, <3>7, <3>8, <3>9 DEF WorkerStep
  <2>2. QED
    BY <1>1, <2>1 DEF WorkerLeaves, WInv, TypeOK, Signals
<1>4. LockOwned'
  BY <1>1, <1>2
     DEF WInv, LockOwned, InTask, WorkerLeaves, WorkerStep, ReadTask, TakeLock,
         WorkFails, WorkRaises, Ends, WorkSucceeds, ListBegins, ListEnds, Emit,
         Report, Returns, Done
<1>5. HandlerInv'
  BY <1>1 DEF WInv, HandlerInv, WorkerLeaves, Agrees
<1>6. RunInv'
  BY <1>1, <1>2, NoRequestOK
     DEF WInv, RunInv, WorkerLeaves, Agrees, WorkerStep, ReadTask, TakeLock,
         WorkFails, WorkRaises, Ends, WorkSucceeds, ListBegins, ListEnds, Emit,
         Report, Returns, Done
<1>7. QED
  BY <1>1, <1>3, <1>4, <1>5, <1>6 DEF WInv

LEMMA StutterKeeps ==
  ASSUME WInv, UNCHANGED vars
  PROVE  WInv'
BY DEF WInv, TypeOK, LockOwned, InTask, HandlerInv, RunInv, Agrees, vars, gui, engine, run

LEMMA NextKeeps ==
  ASSUME WInv, [Next]_vars
  PROVE  WInv'
<1>1. CASE Click
  <2>1. queue' \in Seq(Signals)
    BY <1>1, ClickQuietly DEF WInv, TypeOK, Signals
  <2>2. QED
    BY <1>1, <2>1, ClickQuietly, QuietlyKeeps
<1>2. CASE Handle
  <2>1. queue \in Seq(Signals)
    BY DEF WInv, TypeOK, Signals
  <2>2. queue # <<>> /\ queue' = Tail(queue)
    BY <1>2, HandleQuietly
  <2>3. queue' \in Seq(Signals)
    BY <2>1, <2>2, TailSeq
  <2>4. QED
    BY <1>2, <2>3, HandleQuietly, QuietlyKeeps
<1>3. QED
  BY <1>1, <1>2, HandlerStepKeeps, WorkerStepKeeps, StutterKeeps DEF Next

-----------------------------------------------------------------------------
(* The table *)

LEMMA AppendKeepsSignals ==
  ASSUME queue \in Seq(Signals), NEW s \in Signals, queue' = Append(queue, s),
         \E i \in 1 .. Len(queue) : queue[i] = "refresh"
  PROVE  \E i \in 1 .. Len(queue') : queue'[i] = "refresh"
<1>1. PICK i \in 1 .. Len(queue) : queue[i] = "refresh"
  OBVIOUS
<1>2. i \in 1 .. Len(queue') /\ queue'[i] = queue[i]
  BY <1>1
<1>3. QED
  BY <1>1, <1>2

LEMMA LastIsThere ==
  ASSUME queue \in Seq(Signals), queue' = Append(queue, "refresh")
  PROVE  \E i \in 1 .. Len(queue') : queue'[i] = "refresh"
<1>1. Len(queue) + 1 \in 1 .. Len(queue') /\ queue'[Len(queue) + 1] = "refresh"
  OBVIOUS
<1>2. QED
  BY <1>1

\* A step that changes neither what is listed nor where the session is.
LEMMA SameListing ==
  ASSUME ListInv, fileList' = fileList, cwd' = cwd, owed' = owed, slip' = slip,
         w' = "parsing" => w = "parsing" /\ fn' = fn,
         Announced => Announced'
  PROVE  ListInv'
BY DEF ListInv

LEMMA ListKeeps ==
  ASSUME WInv, ListInv, [Next]_vars
  PROVE  ListInv'
<1>0. queue \in Seq(Signals)
  BY DEF WInv, TypeOK, Signals
<1>1. CASE Click
  <2>1. Announced => Announced'
    BY <1>1, ClickQuietly DEF Announced, Quietly
  <2>2. QED
    BY <1>1, <2>1, ClickQuietly, SameListing DEF Quietly
<1>2. CASE Handle
  <2>1. /\ queue # <<>> /\ queue' = Tail(queue) /\ table' \in {table, fileList}
        /\ Head(queue) = "refresh" => table' = fileList
        /\ w' = w /\ fn' = fn /\ res' = res
        /\ fileList' = fileList /\ cwd' = cwd /\ owed' = owed /\ slip' = slip
    BY <1>2, HandleQuietly DEF Quietly
  <2>2. ASSUME NEW i \in 1 .. Len(queue), queue[i] = "refresh", Head(queue) # "refresh"
        PROVE  \E j \in 1 .. Len(queue') : queue'[j] = "refresh"
    <3>1. i # 1
      BY <1>0, <2>1, <2>2, TailSeq
    <3>2. i - 1 \in 1 .. Len(queue') /\ queue'[i - 1] = "refresh"
      BY <1>0, <2>1, <2>2, <3>1, TailSeq
    <3>3. QED
      BY <3>2
  <2>3. Announced => Announced'
    BY <2>1, <2>2 DEF Announced
  <2>4. QED
    BY <2>1, <2>3, SameListing
<1>3. CASE HandlerStep
  <2>1. /\ fn' = fn /\ res' = res /\ fileList' = fileList /\ cwd' = cwd /\ owed' = owed /\ slip' = slip
        /\ w' = w \/ (w = "off" /\ w' = "started")
        /\ table' \in {table, fileList}
        /\ queue' = queue \/ queue' = Append(queue, "error")
    BY <1>3 DEF HandlerStep, SetParams, UnlockParams, SetTask, Start, Refresh, run, engine
  <2>2. Announced => Announced'
    BY <1>0, <2>1, AppendKeepsSignals DEF Announced, Signals
  <2>3. QED
    BY <2>1, <2>2, SameListing
<1>4. CASE WorkerStep
  <2>1. table' = table
    BY <1>4, WorkerStepKeeps DEF WorkerLeaves
  <2>2. CASE ReadTask \/ TakeLock \/ WorkRaises \/ Returns
    <3>1. Announced => Announced'
      BY <2>1, <2>2
         DEF Announced, ReadTask, TakeLock, WorkRaises, Ends, Returns, engine
    <3>2. QED
      BY <2>2, <3>1, SameListing DEF ReadTask, TakeLock, WorkRaises, Ends, Returns, engine
  <2>3. CASE WorkFails
    <3>1. /\ w = "working" /\ w' = "unlocked" /\ queue' = queue
          /\ fileList' = fileList /\ owed' = owed
          /\ cwd' \in {cwd, "none"} \/ slip'
          /\ slip => slip' \/ cwd' = "none"
      BY <2>3 DEF WorkFails, Done
    <3>2. Announced => Announced'
      BY <2>1, <3>1 DEF Announced
    <3>3. QED
      BY <3>1, <3>2 DEF ListInv
  <2>4. CASE WorkSucceeds
    <3>1. /\ w' = "unlocked"
          /\ owed' \/ cwd' = "none"
      BY <2>4 DEF WorkSucceeds, Done, WInv, TypeOK
    <3>2. QED
      BY <3>1 DEF ListInv
  <2>5. CASE ListBegins
    BY <2>5 DEF ListBegins, ListInv
  <2>6. CASE ListEnds
    <3>1. /\ w = "parsing" /\ w' = "unlocked" /\ fn' = fn /\ queue' = queue
          /\ cwd' \in {cwd, "none"} /\ slip' = slip
          /\ \/ /\ fileList' = [fileList EXCEPT !.whole = TRUE] /\ res'
             \/ /\ fileList' \in {fileList, [fileList EXCEPT !.whole = TRUE]}
                /\ owed' = owed
      BY <2>6 DEF ListEnds, Done
    <3>2. fn = "getList" /\ fileList.dir = cwd
      BY <3>1 DEF ListInv
    <3>3. fileList'.dir = cwd
      BY <3>1, <3>2 DEF WInv, TypeOK
    <3>4. CASE fileList' = [fileList EXCEPT !.whole = TRUE] /\ res'
      <4>1. fileList'.whole
        BY <3>4 DEF WInv, TypeOK
      <4>2. QED
        BY <3>1, <3>2, <3>3, <3>4, <4>1 DEF ListInv, Announced
    <3>5. CASE fileList' \in {fileList, [fileList EXCEPT !.whole = TRUE]} /\ owed' = owed
      <4>1. fileList' = fileList \/ ~fileList.whole
        BY <3>5 DEF WInv, TypeOK
      <4>2. Announced /\ fileList' = fileList => Announced'
        BY <2>1, <3>1 DEF Announced
      <4>3. QED
        BY <3>1, <3>3, <3>5, <4>1, <4>2 DEF ListInv
    <3>6. QED
      BY <3>1, <3>4, <3>5
  <2>7. CASE Emit
    <3>1. /\ w = "unlocked" /\ w' = "emitted" /\ fn' = fn /\ res' = res
          /\ fileList' = fileList /\ cwd' = cwd /\ owed' = owed /\ slip' = slip
          /\ queue' = (IF res THEN Append(queue, Signal(fn)) ELSE queue)
      BY <2>7 DEF Emit, engine
    <3>2. Signal(fn) \in Signals /\ (fn = "getList" => Signal(fn) = "refresh")
      BY DEF Signal, Signals
    <3>3. Announced => Announced'
      BY <1>0, <2>1, <3>1, <3>2, AppendKeepsSignals, LastIsThere DEF Announced
    <3>4. QED
      BY <3>1, <3>3, SameListing
  <2>8. CASE Report
    <3>1. /\ w = "emitted" /\ w' = "returning" /\ fn' = fn /\ res' = res
          /\ fileList' = fileList /\ cwd' = cwd /\ owed' = owed /\ slip' = slip
          /\ \E s \in Signals : queue' \in {queue, Append(queue, s)}
      BY <2>8 DEF Report, engine, Signals
    <3>2. Announced => Announced'
      BY <1>0, <2>1, <3>1, AppendKeepsSignals DEF Announced
    <3>3. QED
      BY <3>1, <3>2, SameListing
  <2>9. QED
    BY <1>4, <2>2, <2>3, <2>4, <2>5, <2>6, <2>7, <2>8 DEF WorkerStep
<1>5. CASE UNCHANGED vars
  BY <1>5 DEF ListInv, Announced, vars, engine, run, gui
<1>6. QED
  BY <1>1, <1>2, <1>3, <1>4, <1>5 DEF Next

-----------------------------------------------------------------------------
(* Theorems *)

\* The inductive invariant of the two threads.
THEOREM ThreadsInvariance == Spec => []WInv
<1>1. Init => WInv
  BY InitOK
<1>2. WInv /\ [Next]_vars => WInv'
  BY NextKeeps
<1>3. QED
  BY <1>1, <1>2, PTL DEF Spec

\* The type of the variables.
THEOREM WorkerTypeCorrect == Spec => []TypeOK
<1>1. WInv => TypeOK
  BY DEF WInv
<1>2. QED
  BY <1>1, ThreadsInvariance, PTL

\* A task works on what was asked for.
THEOREM TasksRunAsAsked == Spec => []RunsAsAsked
<1>1. WInv => RunsAsAsked
  BY DEF WInv, RunInv, RequestOK, Agrees, RunsAsAsked
<1>2. QED
  BY <1>1, ThreadsInvariance, PTL

\* At rest, the table is that of the session's directory, unless a listing was
\* lost or a transfer given up.
THEOREM TableShowsHere == Spec => []TableIsHere
<1>1. Init => ListInv
  BY InitOK
<1>2. WInv /\ ListInv /\ [Next]_vars => ListInv'
  BY ListKeeps
<1>3. ListInv => TableIsHere
  BY DEF ListInv, Announced, TableIsHere
<1>4. QED
  BY <1>1, <1>2, <1>3, ThreadsInvariance, PTL DEF Spec

\* Parameters do not change under a task.
THEOREM ParamsAreStable == Spec => ParamsStable
<1>1. ASSUME WInv, [Next]_vars, InTask
      PROVE  params' = params
  <2>1. CASE Click \/ Handle
    BY <1>1, <2>1, ClickQuietly, HandleQuietly DEF Quietly
  <2>2. CASE HandlerStep
    BY <1>1, <2>2
       DEF HandlerStep, SetParams, UnlockParams, SetTask, Start, WInv, LockOwned, InTask
  <2>3. CASE WorkerStep
    BY <1>1, <2>3, WorkerStepKeeps DEF WorkerLeaves
  <2>4. CASE UNCHANGED vars
    BY <2>4 DEF vars
  <2>5. QED
    BY <1>1, <2>1, <2>2, <2>3, <2>4 DEF Next
<1>2. WInv /\ [Next]_vars => [(w \in {"working", "parsing"}) => params' = params]_vars
  BY <1>1 DEF InTask
<1>3. QED
  BY <1>2, ThreadsInvariance, PTL DEF Spec, ParamsStable

\* Parameters are refused only while the engine works: the mutex is never taken
\* without a task.
THEOREM RefusalsAreTrue == Spec => RefusedOnlyWhileWorking
<1>1. ASSUME WInv, [Next]_vars, g = "params", g' = "idle"
      PROVE  InTask
  <2>1. CASE HandlerStep
    <3>1. lock # "free" /\ w # "dead"
      BY <1>1, <2>1 DEF HandlerStep, SetParams, UnlockParams, SetTask, Start
    <3>2. lock = "worker"
      BY <1>1, <3>1 DEF WInv, TypeOK, LockOwned
    <3>3. QED
      BY <1>1, <3>1, <3>2 DEF WInv, LockOwned
  <2>2. CASE Click \/ Handle
    BY <1>1, <2>2, ClickQuietly, HandleQuietly DEF Quietly
  <2>3. CASE WorkerStep
    BY <1>1, <2>3, WorkerStepKeeps DEF WorkerLeaves
  <2>4. CASE UNCHANGED vars
    BY <1>1, <2>4 DEF vars, gui
  <2>5. QED
    BY <1>1, <2>1, <2>2, <2>3, <2>4 DEF Next
<1>2. WInv /\ [Next]_vars =>
        [g = "params" /\ g' = "idle" => w \in {"working", "parsing"}]_vars
  BY <1>1 DEF InTask
<1>3. QED
  BY <1>2, ThreadsInvariance, PTL DEF Spec, RefusedOnlyWhileWorking
=============================================================================
