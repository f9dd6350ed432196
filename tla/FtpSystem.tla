----------------------------- MODULE FtpSystem ------------------------------
(***************************************************************************)
(* One client and the process that serves it: FtpClient and FtpSession     *)
(* joined by the two directions of the control connection and by the data  *)
(* connection.  A step of one is a step of its module, with what it reads  *)
(* from and writes to the streams; read() of the server takes whatever has *)
(* been sent for one command.                                              *)
(***************************************************************************)
EXTENDS FtpSession, FtpClient

sysVars == <<vars, clientVars>>

-----------------------------------------------------------------------------
(* The server's side *)

\* A step of the process writes at most one reply, the last of out.
Writes ==
  toClient' = IF peer = "up" /\ out' # <<>> /\ (at = "read" \/ out' # out)
              THEN Append(toClient, out'[Len(out')]) ELSE toClient

ClientSame == UNCHANGED <<job, pos, wait, transferMode, tries, page, merged, slip>>

ServeGreeting ==
  /\ Welcome
  /\ Writes /\ ClientSame /\ UNCHANGED <<toServer, dlink>>

\* sscanf looks at the first title and argument of what was read, and the
\* rest is wiped.  A new listening socket has an empty queue.
ServeCommand ==
  /\ toServer # <<>>
  /\ ReadLine(toServer[1][1], toServer[1][2])
  /\ toServer' = <<>>
  /\ dlink' = IF out' = <<227>> THEN "none" ELSE dlink
  /\ Writes /\ ClientSame

ServeEnd ==
  /\ EndOfFile
  /\ Writes /\ ClientSame /\ UNCHANGED <<toServer, dlink>>

\* accept() has a connection to return, whose client may have closed it.
ServeAccept ==
  /\ dlink \in {"queued", "closed"}
  /\ Accept
  /\ dlink' = IF at' # "xfer" THEN "none"
              ELSE IF dlink = "queued" THEN "open" ELSE dlink
  /\ Writes /\ ClientSame /\ UNCHANGED toServer

ServeAcceptRefused ==
  /\ AcceptRefused
  /\ Writes /\ ClientSame /\ UNCHANGED <<toServer, dlink>>

\* The client listens while it waits for the answer to the data command.
ClientListens ==
  /\ wait = "recv" /\ transferMode = MODE_PORT
  /\ Awaited \in DataTitles

ServeConnect ==
  /\ Connect
  /\ at' = "xfer" => ClientListens
  /\ dlink' = IF at' = "xfer" THEN "transit" ELSE dlink
  /\ Writes /\ ClientSame /\ UNCHANGED toServer

\* The end of a transfer closes the server's end.  A STOR is complete when
\* the client has closed its own.
ServeEndTransfer ==
  /\ \/ EndTransfer
     \/ EndList
  /\ line = "STOR" /\ out' # out /\ out'[Len(out')] = 226 => dlink = "closed"
  /\ dlink' = IF dlink = "closed" THEN "none" ELSE dlink
  /\ Writes /\ ClientSame /\ UNCHANGED toServer

ServeSigPipe ==
  /\ dlink = "closed"
  /\ DataSigPipe
  /\ dlink' = "none"
  /\ Writes /\ ClientSame /\ UNCHANGED toServer

ServerStep ==
  \/ ServeGreeting \/ ServeCommand \/ ServeEnd
  \/ ServeAccept \/ ServeAcceptRefused \/ ServeConnect
  \/ ServeEndTransfer \/ ServeSigPipe

-----------------------------------------------------------------------------
(* The client's side *)

\* When the client ends, so does its end of the control connection.
ServerSees ==
  IF wait' = "gone" /\ at # "exit"
  THEN PeerCloses /\ unread' = (toServer # <<>>)
  ELSE UNCHANGED vars

ClientBegins == \E task \in Tasks : Begin(task) /\ ServerSees

\* What the client goes on to do by itself.
ClientStep ==
  /\ \/ Receive
     \/ at = "exit" /\ HangUp
     \/ ssn.pasvfd # NoFd /\ at # "exit" /\ ConnectData
     \/ ConnectRefused
     \/ AcceptData
     \/ AcceptAgain
     \/ job = "uploadFile" /\ DataDone
     \/ dlink = "open" /\ at # "xfer" /\ DataDone
     \/ DataFails
  /\ ServerSees

ClientLeaves == Leave /\ ServerSees

\* The connection made in port mode reaches the client's accept queue.
Arrive ==
  /\ dlink = "transit"
  /\ dlink' = "queued"
  /\ UNCHANGED <<vars, job, pos, wait, transferMode, tries, page,
                 toServer, toClient, merged, slip>>

-----------------------------------------------------------------------------
SysInit == Init /\ ClientInit
SysNext == ServerStep \/ ClientBegins \/ ClientStep \/ ClientLeaves \/ Arrive
SysSpec == SysInit /\ [][SysNext]_sysVars

\* Neither program stops in the middle, and connections arrive.  Nothing is
\* assumed of the user.
SysFairSpec ==
  /\ SysSpec
  /\ WF_sysVars(ServerStep)
  /\ WF_sysVars(ClientStep)
  /\ WF_sysVars(Arrive)

-----------------------------------------------------------------------------
(* Properties *)

Busy == wait \notin {"user", "gone"}

\* The type of the client's variables.
ClientTypeOK ==
  /\ job \in Tasks \cup {"login", "none"}
  /\ wait \in {"user", "recv", "connect", "accept", "data", "gone"}
  /\ transferMode \in {MODE_PASV, MODE_PORT}
  /\ pos \in 0 .. 4
  /\ Busy => pos \in 1 .. Len(Steps(job, transferMode))
  /\ tries \in 0 .. AcceptTries - 1
  /\ page \in {"login", "main"}
  /\ \A i \in 1 .. Len(toServer) : toServer[i][1] \in Titles
  /\ toClient \in Seq(Nat)
  /\ dlink \in {"none", "transit", "queued", "open", "closed"}
  /\ merged \in BOOLEAN /\ slip \in -1 .. MaxLate

\* Between two operations nothing is under way: no reply is left to be taken
\* for the answer to a later command, no command waits, and the server, if it
\* runs, is ready for the next.  Only an operation given up leaves more.
IdleInSync ==
  wait = "user" /\ slip < 0 =>
    /\ toClient = <<>>
    /\ \/ at = "exit"
       \/ at = "read" /\ toServer = <<>>

\* The command that the client waits for an answer to.
Asked ==
  IF Awaited # "complete" THEN Awaited
  ELSE Steps(job, transferMode)[pos - 1]

\* A reply that the client finds answers the command it has last sent, and is
\* not one left over from a command before it.
AnswersOwn ==
  Busy /\ slip < 0 /\ toClient # <<>> =>
    \/ Awaited = "greeting" /\ line = "none"
    \/ line \in {Asked, "OVERLONG"}

\* Both wait for the other: the client for a reply, with nothing under way in
\* either direction, and the server for a command or for a data connection.
Starved ==
  /\ wait = "recv" /\ toClient = <<>> /\ toServer = <<>>
  /\ \/ at = "read"
     \/ at = "dial" /\ ssn.rcvMode = "PASSIVE" /\ dlink = "none"

\* The two programs never wait for each other, unless the client has taken
\* the 226 together with the 150 or has given an operation up.
StarvedOnlyIfMerged == Starved => merged \/ slip >= 0

\* Between operations the session is ready for any command, or the answer to
\* the last one tells why it is not: a data connection or a listening socket
\* that failed leaves the mode selected, a new name that is too long leaves
\* the old one pending, and from then on every task but logout is refused.
WedgedOnlyByFailure ==
  wait = "user" /\ page = "main" /\ slip < 0 /\ at = "read" =>
    /\ ssn.rcvMode # "NOMODE" => out[Len(out)] \in {426, 452, 500, 503}
    /\ ssn.rnfrName # NULL => out[Len(out)] \in {550, 500, 503}

\* The main page is shown only to a user that the server has let in.
MainPageIsLoggedIn == page = "main" => ssn.authStage = PASSWORD_OK

\* An operation ends, unless replies were merged or one was given up.
OperationsEnd == Busy ~> (~Busy \/ merged \/ slip >= 0)

-----------------------------------------------------------------------------
(* Statements of the repository that the two programs do not keep *)

\* ui.py asks a user who is early to wait ("working, please wait"): what the
\* client does comes to an end, so the two never wait for each other.
NeverStarved == Starved => slip >= 0

\* report.md: there is no automatic resuming.  uploadFile() sends the local
\* file from its first byte, and it goes to the start of the new file.
UploadsFromStart == at = "xfer" /\ line = "STOR" => ssn.currentPos = 0
=============================================================================
