----------------------------- MODULE FtpClient ------------------------------
(***************************************************************************)
(* The client's protocol engine: class MyTFP of myftp.py, with what its    *)
(* caller in ui.py makes of an exception.  It is called by one thread at a *)
(* time and blocks in a socket call at a time.                             *)
(*                                                                         *)
(* An operation is a sequence of steps.  A step says a command, or         *)
(* nothing, and waits for one reply, which is one recv(): whatever has     *)
(* arrived is taken, and only how it starts is looked at.  Guards that     *)
(* speak of the server belong to FtpSystem.                                *)
(***************************************************************************)
EXTENDS Integers, Sequences

CONSTANTS
  AcceptTries,   \* turns of the accept loop in port mode
  MaxLate        \* bound: tasks begun after an operation was given up
ASSUME AcceptTriesAssumption == AcceptTries \in Nat \ {0}
ASSUME MaxLateAssumption == MaxLate \in Nat

VARIABLES
  job,           \* the operation under way, or "none"
  pos,           \* its step
  wait,          \* where it is blocked: "recv" (reply), "connect", "accept",
                 \* "data" (transfer); "user" (no operation), "gone" (ended)
  transferMode,
  tries,         \* turns of the accept loop taken
  page,          \* the page of the interface that is shown
  toServer,      \* <<title, argument>> sent and not yet read by the server
  toClient,      \* reply codes sent and not yet read by the client
  dlink,         \* the data connection: "none", "transit" (made, not yet in
                 \* the other's accept queue), "queued", "open", and "closed"
                 \* once the client has closed its end
  merged,        \* history: one recv() has taken two replies
  slip           \* history: -1, or tasks begun since an operation was given
                 \* up with a reply to come

clientVars == <<job, pos, wait, transferMode, tries, page,
                toServer, toClient, dlink, merged, slip>>

-----------------------------------------------------------------------------
(* The operations, as the steps that they take *)

MODE_PASV == 1
MODE_PORT == 2
DataTitles == {"RETR", "STOR", "LIST"}

\* Steps that say nothing: the greeting, and the end of a transfer.
Silent == {"greeting", "complete"}

Select(mode) == IF mode = MODE_PASV THEN "PASV" ELSE "PORT"

login              == <<"greeting", "USER", "PASS">>
downloadFile(mode) == <<"REST", Select(mode), "RETR", "complete">>
uploadFile(mode)   == <<Select(mode), "STOR", "complete">>
sendMKD  == <<"MKD">>
sendCWD  == <<"CWD">>
sendRMD  == <<"RMD">>
sendDELE == <<"DELE">>
rename   == <<"RNFR", "RNTO">>
quit     == <<"QUIT">>

\* The task of the interface that lists: downloadList(), then sendPWD().
getList(mode) == <<Select(mode), "LIST", "complete", "PWD">>

Tasks == {"getList", "changeDir", "makeDir", "deleteNode", "removeDir",
          "rename", "uploadFile", "downloadFile", "logout"}
TransferTasks == {"getList", "uploadFile", "downloadFile"}

Steps(task, mode) ==
  CASE task = "login"        -> login
    [] task = "logout"       -> quit
    [] task = "getList"      -> getList(mode)
    [] task = "changeDir"    -> sendCWD
    [] task = "makeDir"      -> sendMKD
    [] task = "deleteNode"   -> sendDELE
    [] task = "removeDir"    -> sendRMD
    [] task = "rename"       -> rename
    [] task = "uploadFile"   -> uploadFile(mode)
    [] task = "downloadFile" -> downloadFile(mode)

\* The code that the reply to a step must start with.
Expect(step) ==
  CASE step = "greeting"          -> 220
    [] step = "USER"              -> 331
    [] step = "PASS"              -> 230
    [] step \in {"REST", "RNFR"}  -> 350
    [] step = "PASV"              -> 227
    [] step = "PORT"              -> 200
    [] step \in DataTitles        -> 150
    [] step = "complete"          -> 226
    [] step = "QUIT"              -> 221
    [] OTHER                      -> 250

\* The step that the operation under way waits in.
Awaited == Steps(job, transferMode)[pos]

-----------------------------------------------------------------------------
(* Pieces of the actions *)

\* What can be in a line: names that the user types may hold "../" or be too
\* long for a handler, or for a line.
Typed == {"USER", "PASS", "MKD", "STOR", "RNTO"}
ArgsSaid(title) ==
  {"name"}
    \cup (IF title = "USER" THEN {"anonymous"} ELSE {})
    \cup (IF title = "STOR" THEN {"dotdot"} ELSE {})
    \cup (IF title \in {"STOR", "RNTO"} THEN {"long"} ELSE {})
Lines(title) ==
  {<<title, arg>> : arg \in ArgsSaid(title)}
    \cup (IF title \in Typed THEN {<<"OVERLONG", "name">>} ELSE {})

\* The sockets of an operation are closed when it ends, however it does.
CloseData == dlink' = IF dlink = "none" THEN "none" ELSE "closed"

\* Mutant: a failed login is taken for a login.
Return_AnyLogin(task, ok) ==
  /\ wait' = "user" /\ job' = "none" /\ pos' = 0 /\ tries' = 0
  /\ page' = IF task = "login" THEN "main"
             ELSE IF task = "logout" /\ ok THEN "login" ELSE page
  /\ CloseData
  /\ UNCHANGED toServer

Return(task, ok) ==
  /\ wait' = "user" /\ job' = "none" /\ pos' = 0 /\ tries' = 0
  /\ page' = IF task = "login" /\ ok THEN "main"
             ELSE IF task = "logout" /\ ok THEN "login" ELSE page
  /\ CloseData
  /\ UNCHANGED toServer

\* The program ends, and the kernel closes its sockets.
Vanish ==
  /\ wait' = "gone" /\ job' = "none" /\ pos' = 0 /\ tries' = 0
  /\ CloseData
  /\ UNCHANGED <<page, toServer>>

\* What has been sent to a client that ends is lost.
Left == toClient' = IF wait' = "gone" THEN <<>> ELSE toClient

\* An operation is given up while the server has a reply to send.
GivenUp == IF slip < 0 THEN 0 ELSE slip

\* An exception.  The tries around uploadFile and downloadFile are commented
\* out: PyQt ends the program when one leaves a thread's run().
Raise(task) ==
  IF task \in {"uploadFile", "downloadFile"} THEN Vanish
  ELSE Return(task, FALSE)

\* Mutant: in passive mode the 150 is waited for before the connection is made.
Enter_ReplyFirst(task, mode, k) ==
  LET step == Steps(task, mode)[k] IN
  \/ /\ job' = task /\ pos' = k /\ tries' = 0
     /\ IF step \in Silent THEN UNCHANGED toServer
        ELSE \E said \in Lines(step) : toServer' = Append(toServer, said)
     /\ wait' = "recv"
     /\ UNCHANGED <<page, dlink>>
  \/ step = "PORT" /\ Raise(task)

\* The operation goes on to step k.  In port mode the listening socket is
\* bound to a fixed port before PORT is said, and that may fail.
Enter(task, mode, k) ==
  LET step == Steps(task, mode)[k] IN
  \/ /\ job' = task /\ pos' = k /\ tries' = 0
     /\ IF step \in Silent THEN UNCHANGED toServer
        ELSE \E said \in Lines(step) : toServer' = Append(toServer, said)
     /\ wait' = IF step \in DataTitles /\ mode = MODE_PASV THEN "connect"
                ELSE "recv"
     /\ UNCHANGED <<page, dlink>>
  \/ step = "PORT" /\ Raise(task)

-----------------------------------------------------------------------------
(* Actions *)

\* The user asks for a task; the mode is passed on with the transfers.
Begin(task) ==
  /\ wait = "user" /\ page = "main"
  /\ slip < MaxLate
  /\ slip' = IF slip < 0 THEN slip ELSE slip + 1
  /\ \E mode \in {MODE_PASV, MODE_PORT} :
       /\ task \notin TransferTasks => mode = transferMode
       /\ transferMode' = mode
       /\ Enter(task, mode, 1)
  /\ Left /\ UNCHANGED merged

\* Mutant: what the reply says is not looked at.
Receive_AnyReply ==
  /\ wait = "recv" /\ toClient # <<>>
  /\ toClient' = <<>>
  /\ merged' = (merged \/ Len(toClient) > 1)
  /\ IF pos < Len(Steps(job, transferMode))
     THEN Enter(job, transferMode, pos + 1)
     ELSE Return(job, TRUE)
  /\ UNCHANGED <<transferMode, slip>>

\* recv() takes all there is, the reply of the step and what follows it.
Receive ==
  /\ wait = "recv" /\ toClient # <<>>
  /\ toClient' = <<>>
  /\ merged' = (merged \/ Len(toClient) > 1)
  /\ \/ /\ toClient[1] # Expect(Awaited)
        /\ Return(job, FALSE)
     \/ /\ toClient[1] = Expect(Awaited) /\ Awaited \in DataTitles
        /\ wait' = IF transferMode = MODE_PASV THEN "data" ELSE "accept"
        /\ UNCHANGED <<job, pos, tries, page, toServer, dlink>>
     \/ /\ toClient[1] = Expect(Awaited) /\ Awaited \notin DataTitles
        /\ IF pos < Len(Steps(job, transferMode))
           THEN Enter(job, transferMode, pos + 1)
           ELSE Return(job, TRUE)
     \* A line of the listing that cannot be parsed, after the 226.
     \/ /\ toClient[1] = 226 /\ Awaited = "complete" /\ job = "getList"
        /\ Return(job, FALSE)
  /\ UNCHANGED <<transferMode, slip>>

\* The server has closed the connection: recv() returns nothing, or raises.
HangUp ==
  /\ wait = "recv" /\ toClient = <<>>
  /\ Return(job, FALSE) \/ Raise(job)
  /\ UNCHANGED <<transferMode, toClient, merged, slip>>

\* Mutant: the 150 is not read before the data.
ConnectData_NoReply ==
  /\ wait = "connect"
  /\ wait' = "data" /\ dlink' = "queued"
  /\ UNCHANGED <<job, pos, transferMode, tries, page, toServer, toClient, merged, slip>>

\* Passive mode, after the data command has been sent.
ConnectData ==
  /\ wait = "connect"
  /\ wait' = "recv" /\ dlink' = "queued"
  /\ UNCHANGED <<job, pos, transferMode, tries, page, toServer, toClient, merged, slip>>

\* The address of the 227 cannot be reached.
ConnectRefused ==
  /\ wait = "connect"
  /\ slip' = GivenUp
  /\ Raise(job)
  /\ Left /\ UNCHANGED <<transferMode, merged>>

\* Port mode, after the 150: a turn of the loop around the accept.
AcceptData ==
  /\ wait = "accept" /\ dlink = "queued"
  /\ wait' = "data" /\ dlink' = "open"
  /\ UNCHANGED <<job, pos, transferMode, tries, page, toServer, toClient, merged, slip>>

\* Mutant: one turn too many.
AcceptAgain_OneMore ==
  /\ wait = "accept" /\ dlink # "queued"
  /\ IF tries < AcceptTries
     THEN /\ tries' = tries + 1
          /\ UNCHANGED <<job, pos, wait, page, toServer, dlink, slip>>
     ELSE /\ slip' = GivenUp
          /\ Return(job, FALSE)
  /\ UNCHANGED <<transferMode, toClient, merged>>

AcceptAgain ==
  /\ wait = "accept" /\ dlink # "queued"
  /\ IF tries + 1 < AcceptTries
     THEN /\ tries' = tries + 1
          /\ UNCHANGED <<job, pos, wait, page, toServer, dlink, slip>>
     ELSE /\ slip' = GivenUp
          /\ Return(job, FALSE)
  /\ UNCHANGED <<transferMode, toClient, merged>>

\* Mutant: the final reply is not read.
DataDone_NoReply ==
  /\ wait = "data"
  /\ Return(job, TRUE)
  /\ UNCHANGED <<transferMode, toClient, merged, slip>>

\* The data has been read to its end, or sent; then the 226 is waited for.
DataDone ==
  /\ wait = "data"
  /\ dlink' = "closed" /\ wait' = "recv" /\ pos' = pos + 1
  /\ UNCHANGED <<job, transferMode, tries, page, toServer, toClient, merged, slip>>

\* open() of the local file, the data connection or the decoding of the list
\* raises: the final reply is left unread.
DataFails ==
  /\ wait = "data"
  /\ slip' = GivenUp
  /\ Raise(job)
  /\ Left /\ UNCHANGED <<transferMode, merged>>

\* The window is closed, or login() is called again: it replaces connfd.
Leave ==
  /\ wait # "gone"
  /\ Vanish
  /\ Left /\ UNCHANGED <<transferMode, merged, slip>>

\* connect() of login() has succeeded; the mode is that of __init__.
ClientInit ==
  /\ job = "login" /\ pos = 1 /\ wait = "recv"
  /\ transferMode = MODE_PASV
  /\ tries = 0
  /\ page = "login"
  /\ toServer = <<>> /\ toClient = <<>>
  /\ dlink = "none"
  /\ merged = FALSE /\ slip = -1
=============================================================================
