----------------------------- MODULE FtpWorker ------------------------------
(***************************************************************************)
(* The client's two threads (ui.py).  The interface runs handlers: of the  *)
(* user's clicks, and of the signals that the worker queues.  A handler    *)
(* passes the parameters of a task to the worker under the mutex, then the *)
(* task without it, then calls start(), which does nothing while run() has *)
(* not returned.  The worker's run() reads the task, takes the mutex, has  *)
(* MyTFP do the task (one step here, two for a listing; FtpClient is its   *)
(* inside), lets the mutex go and queues signals.                          *)
(*                                                                         *)
(* Left out: what login() passes, the bytes counted for the progress bar,  *)
(* the path and the mode shown with the table, which widgets a page hides, *)
(* and the task 'nothing', which never runs.                               *)
(***************************************************************************)
EXTENDS Naturals, Sequences

CONSTANTS
  Dirs,        \* directories of the server
  Files,       \* names of files in a listing
  Folders,     \* names of directories in a listing
  Home,        \* the directory after a login
  MaxSignals,  \* bound: signals queued before the next click
  MaxClicks    \* bound: clicks
ASSUME HomeAssumption == Home \in Dirs

VARIABLES
  lock,        \* the mutex: "free", "gui" or "worker"
  params,      \* what the task is to work on
  task,        \* self.task
  w,           \* where the worker's run() is; "off": it has returned;
               \* "dead": the program has ended
  fn,          \* the task that run() has read
  res,         \* what the task returned
  queue,       \* signals not yet handled
  g,           \* where a handler is: "idle", "params", "unlock", "task", "start"
  req,         \* what the handler asks for
  dialog,      \* a file dialog is open
  alert,       \* a message box is open
  page, table, \* what is shown
  clicks,      \* made by the user
  fileList,    \* of the engine
  cwd,         \* of the session; "none" without one
  due,         \* history: the request that started the run, until its task is
               \* done, or parameters or task are set again before they are read
  owed,        \* history: a task has succeeded, or a listing has begun, and
               \* no listing has succeeded since
  slip         \* history: a transfer or a listing may have been given up in
               \* this session and have left a reply to be read

gui == <<g, req, dialog, alert, page, table>>
engine == <<fileList, cwd, owed, slip>>
run == <<w, fn, res>>
vars == <<clicks, lock, params, task, queue, due, gui, engine, run>>

-----------------------------------------------------------------------------
(* Data *)

MODE_PASV == 1
MODE_PORT == 2
Up == ".."
Rows == Files \cup Folders \cup {Up}
Netnames == Rows \cup {"typed", "unset"}
Localnames == {"typed", "path", "unset"}

Tasks == {"login", "logout", "getList", "changeDir", "makeDir", "deleteNode",
          "removeDir", "rename", "uploadFile", "downloadFile"}

Params == [netname : Netnames, localname : Localnames, offset : {0, 1},
           tranfermode : {MODE_PASV, MODE_PORT}]

\* The parameters that the engine is called with.
Uses(t) ==
  CASE t \in {"changeDir", "deleteNode", "removeDir"} -> {"netname"}
    [] t = "makeDir"                        -> {"localname"}
    [] t \in {"rename", "uploadFile"}       -> {"netname", "localname"}
    [] t = "downloadFile"                   -> {"netname", "localname", "offset"}
    [] OTHER                                -> {}

\* The signal of a task that has succeeded.
Signal(t) ==
  CASE t = "login"   -> "toMain"
    [] t = "logout"  -> "toLogin"
    [] t = "getList" -> "refresh"
    [] OTHER         -> "update"

Request(t, changes) == [task |-> t, changes |-> changes]
NoChange == [x \in {} |-> 0]
NoRequest == Request("none", NoChange)

\* dict.update
Updated(changes) ==
  [x \in DOMAIN params |-> IF x \in DOMAIN changes THEN changes[x] ELSE params[x]]

-----------------------------------------------------------------------------
(* The handlers of the interface *)

Awake == w # "dead" /\ g = "idle"

\* A message box or a file dialog takes the clicks, and not the signals.
Clicked(shown) ==
  /\ Awake /\ page = shown /\ ~dialog /\ ~alert
  /\ Len(queue) < MaxSignals
  /\ clicks < MaxClicks /\ clicks' = clicks + 1

\* A handler that calls setParams first, one that calls setTask first, and one
\* that opens a file dialog.
Ask(t, changes) ==
  /\ g' = "params" /\ req' = Request(t, changes) /\ dialog' = FALSE
  /\ UNCHANGED <<alert, page, table, queue, run, lock, params, task, due, engine>>
AskTask(t) ==
  /\ g' = "task" /\ req' = Request(t, NoChange)
  /\ UNCHANGED <<dialog, alert, table, run, lock, params, task, due, engine>>
Dialog(open) ==
  /\ dialog' = open
  /\ UNCHANGED <<g, req, alert, page, table, queue, run, lock, params, task,
                 due, engine>>

\* Something is missing: errorAlert() and return.
Complain ==
  /\ alert' = TRUE /\ dialog' = FALSE
  /\ UNCHANGED <<g, req, page, table, run, lock, params, task, queue, due, engine>>

\* An exception that leaves a slot or run() ends the program.
Ends ==
  /\ w' = "dead"
  /\ UNCHANGED <<fn, res, gui, lock, params, task, queue, due, engine>>

\* Rows that can be selected; the first listing brings "..".
Listed == IF table.dir = "none" THEN {} ELSE Rows

LoginClicked  == Clicked("login") /\ (Complain \/ Ask("login", NoChange))
LogoutClicked == Clicked("main") /\ AskTask("logout") /\ UNCHANGED <<page, queue>>
UpdateClicked == Clicked("main") /\ AskTask("getList") /\ UNCHANGED <<page, queue>>

\* ".." is neither FILE nor DIR: the task is left as it was.
DeleteClicked ==
  /\ Clicked("main")
  /\ \/ Complain
     \/ \E row \in Listed :
          Ask(IF row \in Files THEN "deleteNode"
              ELSE IF row \in Folders THEN "removeDir" ELSE "none",
              [netname |-> row])

RenameClicked ==
  /\ Clicked("main")
  /\ \/ Complain
     \/ \E row \in Listed : Ask("rename", [netname |-> row, localname |-> "typed"])

MakeDirClicked ==
  /\ Clicked("main")
  /\ Complain \/ Ask("makeDir", [localname |-> "typed"])

RowDoubleClicked ==
  /\ Clicked("main")
  /\ \E row \in Listed \ Files : Ask("changeDir", [netname |-> row])

ModeClicked ==
  /\ Clicked("main")
  /\ Ask("changeMode",
         [tranfermode |-> IF params.tranfermode = MODE_PASV THEN MODE_PORT ELSE MODE_PASV])

FileClicked == Clicked("main") /\ Dialog(TRUE)

Upload ==
  \E name \in Files \cup {"typed"} :
    Ask("uploadFile", [netname |-> name, localname |-> "path"])
Patch ==
  \E row \in Listed \ {Up}, offset \in {0, 1} :
    Ask("downloadFile", [netname |-> row, localname |-> "path", offset |-> offset])

\* Mutant: the offset of the patch before it is kept.
Download_KeepsOffset ==
  \E row \in Listed \ {Up} :
    Ask("downloadFile", [netname |-> row, localname |-> "path"])

Download ==
  \E row \in Listed \ {Up} :
    Ask("downloadFile", [netname |-> row, localname |-> "path", offset |-> 0])

\* The handler goes on after its dialog, with the row that is selected by then.
\* ".." has no size to turn into a number.
FileChosen ==
  /\ Awake /\ dialog /\ ~alert
  /\ UNCHANGED clicks
  /\ \/ Dialog(FALSE)
     \/ Complain
     \/ Up \in Listed /\ Ends
     \/ Upload \/ Patch \/ Download

-----------------------------------------------------------------------------
(* The rest of a handler *)

\* refresh() reads the engine's state without the mutex.
Refresh == table' = fileList

\* Set again between start() and the reading.
Crosses(read) == due' = IF w \in read THEN NoRequest ELSE due

\* Mutant: the parameters are set although the mutex is taken.
SetParams_AnyLock ==
  /\ w # "dead" /\ g = "params"
  /\ lock' = "gui" /\ params' = Updated(req.changes) /\ g' = "unlock"
  /\ Crosses({"started", "chosen"})
  /\ UNCHANGED <<clicks, queue, table, req, dialog, alert, page, task, run, engine>>

\* tryLock() of setParams; changeMode() refreshes in any case.
SetParams ==
  /\ w # "dead" /\ g = "params"
  /\ \/ /\ lock = "free"
        /\ lock' = "gui" /\ params' = Updated(req.changes) /\ g' = "unlock"
        /\ Crosses({"started", "chosen"})
        /\ UNCHANGED <<queue, table, req>>
     \/ /\ lock # "free"
        /\ queue' = Append(queue, "error") /\ g' = "idle" /\ req' = NoRequest
        /\ IF req.task = "changeMode" THEN Refresh ELSE UNCHANGED table
        /\ UNCHANGED <<lock, params, due>>
  /\ UNCHANGED <<clicks, dialog, alert, page, task, run, engine>>

\* Mutant: changeMode() goes on as the handlers of a task do.
UnlockParams_GoesOn ==
  /\ w # "dead" /\ g = "unlock"
  /\ lock' = "free" /\ g' = "task"
  /\ UNCHANGED <<req, table, clicks, params, queue, dialog, alert, page, task, due, run, engine>>

\* unlock() of setParams
UnlockParams ==
  /\ w # "dead" /\ g = "unlock"
  /\ lock' = "free"
  /\ IF req.task = "changeMode" THEN g' = "idle" /\ req' = NoRequest /\ Refresh
     ELSE g' = "task" /\ UNCHANGED <<req, table>>
  /\ UNCHANGED <<clicks, params, queue, dialog, alert, page, task, due, run, engine>>

SetTask ==
  /\ w # "dead" /\ g = "task"
  /\ g' = "start"
  /\ task' = IF req.task = "none" THEN task ELSE req.task
  /\ Crosses({"started"})
  /\ UNCHANGED <<clicks, lock, params, queue, req, dialog, alert, page, table, run, engine>>

\* QThread::start()
Start ==
  /\ w # "dead" /\ g = "start"
  /\ g' = "idle" /\ req' = NoRequest
  /\ IF w = "off" THEN w' = "started" /\ due' = req
     ELSE UNCHANGED <<w, due>>
  /\ UNCHANGED <<clicks, lock, params, task, fn, res, queue, dialog, alert, page,
                 table, engine>>

\* Slots of the worker's signals.  An alert may open over another.
Handle ==
  /\ Awake /\ queue # <<>>
  /\ queue' = Tail(queue) /\ UNCHANGED clicks
  /\ \/ /\ Head(queue) \in {"toMain", "update"}
        /\ page' = IF Head(queue) = "toMain" THEN "main" ELSE page
        /\ AskTask("getList")
     \/ /\ Head(queue) \notin {"toMain", "update"}
        /\ page' = IF Head(queue) = "toLogin" THEN "login" ELSE page
        /\ alert' = (alert \/ Head(queue) \in {"error", "info"})
        /\ IF Head(queue) = "refresh" THEN Refresh ELSE UNCHANGED table
        /\ UNCHANGED <<g, req, dialog, run, lock, params, task, due, engine>>

DismissAlert ==
  /\ Awake /\ alert
  /\ alert' = FALSE
  /\ UNCHANGED <<clicks, g, req, dialog, page, table, queue, run, lock, params, task,
                 due, engine>>

-----------------------------------------------------------------------------
(* The worker *)

workerSame == <<clicks, gui, params, task>>

\* The mutex is let go, and with it what the task was asked for.
Done(result) ==
  w' = "unlocked" /\ lock' = "free" /\ res' = result /\ due' = NoRequest

ReadTask ==
  /\ w = "started"
  /\ w' = "chosen" /\ fn' = task
  /\ UNCHANGED <<workerSame, res, lock, queue, due, engine>>

\* tryLock() of the task
TakeLock ==
  /\ w = "chosen"
  /\ IF lock = "free" THEN lock' = "worker" /\ w' = "working" /\ UNCHANGED res
     ELSE w' = "emitted" /\ res' = FALSE /\ UNCHANGED lock
  /\ due' = IF lock = "free" THEN due ELSE NoRequest
  /\ UNCHANGED <<workerSame, fn, queue, engine>>

\* Mutant: an exception leaves the mutex taken.
WorkFails_KeepsLock ==
  /\ w = "working"
  /\ w' = "unlocked" /\ res' = FALSE /\ due' = NoRequest
  /\ UNCHANGED lock
  /\ cwd' = IF fn = "login" THEN "none" ELSE cwd
  /\ UNCHANGED <<workerSame, fn, queue, fileList, owed, slip>>

\* The task returns False, or its exception is caught.  The session may be over.
\* A transfer or a listing may have been given up; a changeDir after that reads
\* a reply of it and returns False, whatever the server does.
WorkFails ==
  /\ w = "working"
  /\ Done(FALSE)
  /\ \/ fn = "login" /\ cwd' = "none" /\ slip' = FALSE
     \/ /\ fn # "login"
        /\ \/ cwd' \in {cwd, "none"}
           \/ slip /\ fn = "changeDir" /\ cwd # "none" /\ cwd' \in Dirs
        /\ IF fn \in {"getList", "uploadFile", "downloadFile"}
           THEN slip' \in {slip, TRUE} ELSE slip' = slip
  /\ UNCHANGED <<workerSame, fn, queue, fileList, owed>>

\* The exceptions of a transfer are not caught.
WorkRaises ==
  /\ w = "working" /\ fn \in {"uploadFile", "downloadFile"}
  /\ Ends /\ UNCHANGED clicks

\* With a reply left to be read a task may succeed after the session is over.
WorkSucceeds ==
  /\ w = "working" /\ fn # "getList"
  /\ fn # "login" => cwd # "none" \/ slip
  /\ Done(TRUE)
  /\ CASE fn = "login"                        -> cwd' = Home
       [] fn = "logout"                       -> cwd' = "none"
       [] fn = "changeDir" /\ cwd # "none"    -> cwd' \in Dirs
       [] OTHER                               -> cwd' = cwd
  /\ slip' = (slip /\ fn # "login")
  /\ owed' = (owed \/ fn # "logout")
  /\ UNCHANGED <<workerSame, fn, queue, fileList>>

\* downloadList() has the list and fills fileList, without a mutex that
\* refresh() would take.
ListBegins ==
  /\ w = "working" /\ fn = "getList" /\ cwd # "none"
  /\ w' = "parsing"
  /\ fileList' = [dir |-> cwd, whole |-> FALSE] /\ owed' = TRUE
  /\ UNCHANGED <<workerSame, fn, res, lock, queue, due, cwd, slip>>

\* All lines are read, then sendPWD() succeeds or not; or a line raises.
ListEnds ==
  /\ w = "parsing"
  /\ \/ /\ fileList' = [fileList EXCEPT !.whole = TRUE]
        /\ Done(TRUE) /\ owed' = FALSE /\ UNCHANGED cwd
     \/ /\ fileList' \in {fileList, [fileList EXCEPT !.whole = TRUE]}
        /\ Done(FALSE) /\ cwd' \in {cwd, "none"} /\ UNCHANGED owed
  /\ UNCHANGED <<workerSame, fn, queue, slip>>

\* Mutant: a listing that has come is not announced.
Emit_NoRefresh ==
  /\ w = "unlocked"
  /\ w' = "emitted"
  /\ queue' = IF res /\ fn # "getList" THEN Append(queue, Signal(fn)) ELSE queue
  /\ UNCHANGED <<workerSame, fn, res, lock, due, engine>>

\* The signal of the task, after its unlock()
Emit ==
  /\ w = "unlocked"
  /\ w' = "emitted"
  /\ queue' = IF res THEN Append(queue, Signal(fn)) ELSE queue
  /\ UNCHANGED <<workerSame, fn, res, lock, due, engine>>

\* run() goes on: an alert for a failure and for the end of a transfer
Report ==
  /\ w = "emitted"
  /\ w' = "returning"
  /\ queue' = IF ~res THEN Append(queue, "error")
              ELSE IF fn \in {"uploadFile", "downloadFile"} THEN Append(queue, "info")
              ELSE queue
  /\ UNCHANGED <<workerSame, fn, res, lock, due, engine>>

Returns ==
  /\ w = "returning"
  /\ w' = "off" /\ fn' = "nothing" /\ res' = FALSE
  /\ UNCHANGED <<workerSame, lock, queue, due, engine>>

-----------------------------------------------------------------------------
Init ==
  /\ lock = "free"
  /\ params = [netname |-> "unset", localname |-> "unset", offset |-> 0, tranfermode |-> MODE_PASV]
  /\ task = "nothing"
  /\ w = "off" /\ fn = "nothing" /\ res = FALSE
  /\ queue = <<>> /\ clicks = 0
  /\ g = "idle" /\ req = NoRequest /\ dialog = FALSE /\ alert = FALSE
  /\ page = "login"
  /\ table = [dir |-> "none", whole |-> FALSE]
  /\ fileList = [dir |-> "none", whole |-> FALSE]
  /\ cwd = "none"
  /\ due = NoRequest /\ owed = FALSE /\ slip = FALSE

Click ==
  \/ LoginClicked \/ LogoutClicked \/ UpdateClicked \/ DeleteClicked
  \/ RenameClicked \/ MakeDirClicked \/ RowDoubleClicked \/ ModeClicked
  \/ FileClicked \/ FileChosen \/ DismissAlert
HandlerStep == SetParams \/ UnlockParams \/ SetTask \/ Start
WorkerStep ==
  \/ ReadTask \/ TakeLock \/ WorkFails \/ WorkRaises \/ WorkSucceeds
  \/ ListBegins \/ ListEnds \/ Emit \/ Report \/ Returns

Next == Click \/ Handle \/ HandlerStep \/ WorkerStep

Spec == Init /\ [][Next]_vars

\* The threads run and the event loop takes signals.  That a call of the engine
\* returns is no property of the code, whose recv has no timeout: it is assumed
\* so that a listing is not missed for want of an answer of the server.
FairSpec ==
  /\ Spec
  /\ WF_vars(Handle) /\ WF_vars(HandlerStep) /\ WF_vars(WorkerStep)

-----------------------------------------------------------------------------
(* Properties *)

TypeOK ==
  /\ lock \in {"free", "gui", "worker"}
  /\ params \in Params
  /\ task \in Tasks \cup {"nothing"} /\ fn \in Tasks \cup {"nothing"}
  /\ w \in {"off", "started", "chosen", "working", "parsing", "unlocked",
            "emitted", "returning", "dead"}
  /\ res \in BOOLEAN
  /\ queue \in Seq({"toMain", "toLogin", "refresh", "update", "error", "info"})
  /\ g \in {"idle", "params", "unlock", "task", "start"}
  /\ req.task \in Tasks \cup {"changeMode", "none"}
  /\ dialog \in BOOLEAN /\ alert \in BOOLEAN /\ clicks \in Nat
  /\ page \in {"login", "main"}
  /\ fileList \in [dir : Dirs \cup {"none"}, whole : BOOLEAN]
  /\ table \in [dir : Dirs \cup {"none"}, whole : BOOLEAN]
  /\ cwd \in Dirs \cup {"none"} /\ owed \in BOOLEAN /\ slip \in BOOLEAN

\* While a task is under way its parameters do not change: the interface may
\* not set those of the next one.
ParamsStable ==
  [][(w \in {"working", "parsing"}) => params' = params]_vars

\* A task works on what the click that started it asked for: its own
\* parameters, all of them, and none of an earlier click; unless the user was
\* quicker than the thread, or asked to delete "..".
RunsAsAsked ==
  w = "working" /\ due.task # "none" =>
    /\ fn = due.task
    /\ \A x \in Uses(fn) : x \in DOMAIN due.changes /\ params[x] = due.changes[x]

\* Once the worker rests and its signals are handled, the table shows the
\* whole of the directory that the session is in, unless the listing after a
\* task has been lost or has failed, or a transfer or a listing was given up in
\* this session: a changeDir may then say False of a CWD that has been done.
TableIsHere ==
  w = "off" /\ queue = <<>> /\ ~owed /\ ~slip /\ cwd # "none" =>
    table.dir = cwd /\ table.whole

\* "Waring: working" is true: parameters are refused only while the engine works
\* on a task, whatever that task and those before it came to.
RefusedOnlyWhileWorking ==
  [][g = "params" /\ g' = "idle" => w \in {"working", "parsing"}]_vars

-----------------------------------------------------------------------------
(* A statement of the repository that the threads do not keep *)

\* report.md: after an operation the client sends LIST and PWD and updates
\* what it shows.
RefreshFollows ==
  (w = "unlocked" /\ res /\ Signal(fn) = "update")
    ~> ((w = "working" /\ fn = "getList") \/ w = "dead" \/ cwd = "none")
=============================================================================
