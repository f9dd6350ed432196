-------------------------- MODULE FtpSystemProofs ---------------------------
(***************************************************************************)
(* Proofs about FtpSystem, for every descriptor table, set of offsets and  *)
(* number of turns: inside the system the server process is a session of   *)
(* FtpSession, and the client and the server stay in step.                 *)
(***************************************************************************)
EXTENDS FtpSystem, FtpSessionProofs

-----------------------------------------------------------------------------
(* The inductive invariant *)

Commands ==
  {c \in Titles \X {"name", "anonymous", "I", "dotdot", "long"} : c[2] \in ArgsOf(c[1])}

Operations == Tasks \cup {"login"}
Modes == {MODE_PASV, MODE_PORT}

\* ClientTypeOK, and what ties the place where the client is blocked to the
\* step that it is in.
ClientTyped ==
  /\ ClientTypeOK
  /\ toServer \in Seq(Commands)
  /\ Busy => job \in Operations
  /\ wait \in {"connect", "accept", "data"} => Awaited \in DataTitles
  /\ wait # "gone" => peer = "up"

\* The greeting is on its way.
Greeted ==
  /\ toServer = <<>> /\ line = "none"
  /\ \/ at = "start" /\ toClient = <<>>
     \/ at = "read" /\ Len(toClient) = 1

\* A command is on its way, or it is served, or its reply is on the way.
Commanded ==
  \/ /\ at = "read" /\ toClient = <<>>
     /\ \E said \in Lines(Awaited) : toServer = <<said>>
  \/ /\ toServer = <<>> /\ line \in {Awaited, "OVERLONG"}
     /\ \/ at = "dial" /\ toClient = <<>>
        \/ at \in {"read", "xfer"} /\ toClient = out

\* The 150 has been taken, and perhaps the final reply with it.
Transferring ==
  /\ toServer = <<>> /\ line \in {Asked, "OVERLONG"}
  /\ \/ at = "xfer" /\ toClient = <<>>
     \/ at = "read" /\ (Len(toClient) = 1 \/ (merged /\ toClient = <<>>))

InStep ==
  IF Awaited = "greeting" THEN Greeted
  ELSE IF wait \in {"accept", "data"} \/ Awaited = "complete" THEN Transferring
  ELSE Commanded

Sync ==
  slip < 0 /\ wait # "gone" =>
    /\ IdleInSync
    /\ AnswersOwn
    /\ Busy /\ at # "exit" => InStep

\* The server lets the user in before the client shows it.
Granted ==
  page = "main" \/ (\E i \in 1 .. Len(toClient) : toClient[i] = 230) =>
    ssn.authStage = PASSWORD_OK

SysInv == IInv /\ ClientTyped /\ Sync /\ Granted

-----------------------------------------------------------------------------
(* The operations *)

\* Every operation has one to four steps; the end of a transfer comes right
\* after its data command, and the greeting only at the head of a login.
WellFormed(S, task) ==
  /\ Len(S) \in 1 .. 4
  /\ task = "login" => S = login
  /\ \A k \in 1 .. Len(S) :
       /\ S[k] \in CmdList \cup Silent
       /\ S[k] \in DataTitles => k < Len(S) /\ S[k + 1] = "complete"
       /\ S[k] = "complete" => k > 1 /\ S[k - 1] \in DataTitles
       /\ S[k] = "greeting" => task = "login" /\ k = 1

LEMMA StepFacts ==
  ASSUME NEW task \in Operations, NEW mode \in Modes
  PROVE  WellFormed(Steps(task, mode), task)
<1> DEFINE S == Steps(task, mode)
<1> USE DEF CmdList, Silent, DataTitles
<1>0. Select(mode) \in {"PASV", "PORT"}
  BY DEF Select
<1>1. ASSUME NEW title \in {"QUIT", "CWD", "MKD", "DELE", "RMD"}, task # "login",
             S = <<title>>
      PROVE  WellFormed(S, task)
  BY <1>1 DEF WellFormed
<1>2. ASSUME task = "getList" PROVE WellFormed(S, task)
  <2>1. S = <<Select(mode), "LIST", "complete", "PWD">>
    BY <1>2 DEF Steps, getList
  <2> HIDE DEF S
  <2>2. /\ Len(S) = 4 /\ S[1] \in {"PASV", "PORT"} /\ S[2] = "LIST"
        /\ S[3] = "complete" /\ S[4] = "PWD"
    BY <1>0, <2>1
  <2>3. QED
    BY <1>2, <2>2 DEF WellFormed
<1>3. ASSUME task = "downloadFile" PROVE WellFormed(S, task)
  <2>1. S = <<"REST", Select(mode), "RETR", "complete">>
    BY <1>3 DEF Steps, downloadFile
  <2> HIDE DEF S
  <2>2. /\ Len(S) = 4 /\ S[1] = "REST" /\ S[2] \in {"PASV", "PORT"}
        /\ S[3] = "RETR" /\ S[4] = "complete"
    BY <1>0, <2>1
  <2>3. QED
    BY <1>3, <2>2 DEF WellFormed
<1>4. ASSUME task = "uploadFile" PROVE WellFormed(S, task)
  <2>1. S = <<Select(mode), "STOR", "complete">>
    BY <1>4 DEF Steps, uploadFile
  <2> HIDE DEF S
  <2>2. /\ Len(S) = 3 /\ S[1] \in {"PASV", "PORT"}
        /\ S[2] = "STOR" /\ S[3] = "complete"
    BY <1>0, <2>1
  <2>3. QED
    BY <1>4, <2>2 DEF WellFormed
<1>5. ASSUME task = "login" PROVE WellFormed(S, task)
  <2>1. S = login /\ login = <<"greeting", "USER", "PASS">>
    BY <1>5 DEF Steps, login
  <2> HIDE DEF S
  <2>2. Len(S) = 3 /\ S[1] = "greeting" /\ S[2] = "USER" /\ S[3] = "PASS"
    BY <2>1
  <2>3. QED
    BY <1>5, <2>1, <2>2 DEF WellFormed
<1>6. ASSUME task = "rename" PROVE WellFormed(S, task)
  <2>1. S = <<"RNFR", "RNTO">>
    BY <1>6 DEF Steps, rename
  <2> HIDE DEF S
  <2>2. Len(S) = 2 /\ S[1] = "RNFR" /\ S[2] = "RNTO"
    BY <2>1
  <2>3. QED
    BY <1>6, <2>2 DEF WellFormed
<1>7. ASSUME task \in {"logout", "changeDir", "makeDir", "deleteNode", "removeDir"}
      PROVE  WellFormed(S, task)
  <2>1. \E title \in {"QUIT", "CWD", "MKD", "DELE", "RMD"} : S = <<title>>
    BY <1>7 DEF Steps, quit, sendCWD, sendMKD, sendDELE, sendRMD
  <2>2. QED
    BY <1>1, <1>7, <2>1
<1>8. QED
  BY <1>2, <1>3, <1>4, <1>5, <1>6, <1>7 DEF Operations, Tasks

\* Whatever the client says is a line that the server is ready to read.
LEMMA LinesAreCommands ==
  ASSUME NEW step \in CmdList, NEW said \in Lines(step)
  PROVE  said \in Commands /\ said[1] \in {step, "OVERLONG"}
BY DEF Lines, ArgsSaid, Typed, Commands, ArgsOf, Titles, CmdList

-----------------------------------------------------------------------------
(* The server's side *)

\* A step of the server's side is a step of FtpSession.
LEMMA ServerIsSession ==
  ASSUME ClientTyped, ServerStep
  PROVE  Next
<1>1. CASE ServeCommand
  <2>1. toServer[1] \in Commands
    BY <1>1 DEF ServeCommand, ClientTyped
  <2>2. toServer[1][1] \in Titles /\ toServer[1][2] \in ArgsOf(toServer[1][1])
    BY <2>1 DEF Commands
  <2>3. QED
    BY <1>1, <2>2 DEF ServeCommand, Next
<1>2. QED
  BY <1>1 DEF ServerStep, ServeGreeting, ServeEnd, ServeAccept, ServeAcceptRefused,
              ServeConnect, ServeEndTransfer, ServeSigPipe, Next

\* The client ending is all that FtpSession sees of its steps.
LEMMA ClientIsSession ==
  ASSUME ServerSees
  PROVE  /\ [Next]_vars
         /\ at' = at /\ line' = line /\ ssn' = ssn /\ out' = out
         /\ wait' # "gone" => peer' = peer
BY DEF ServerSees, PeerCloses, Next, vars

\* What a step of the process between two reads of a line does for its client.
Continues ==
  /\ line' = line
  /\ \/ at' = "exit" /\ out' = out
     \/ /\ at' \in {"read", "xfer"}
        /\ \E code \in Nat \ {230} : out' = Append(out, code)

LEMMA ReplyUp ==
  ASSUME peer = "up", NEW code, NEW s, NEW tab, NEW next,
         message_client(code, s, tab, next)
  PROVE  /\ out' = Append(IF at = "read" THEN <<>> ELSE out, code)
         /\ ssn' = s /\ at' = next
BY DEF message_client

LEMMA ReplyStage ==
  ASSUME NEW code, NEW s, NEW tab, NEW next, message_client(code, s, tab, next)
  PROVE  ssn' = s \/ ssn' = ssn
BY DEF message_client, Exit

\* A client that has logged in stays so, whatever the process goes on to do.
LEMMA ContinueStage ==
  ASSUME IInv, Accept \/ AcceptRefused \/ Connect \/ EndTransfer \/ EndList \/ DataSigPipe
  PROVE  ssn'.authStage = ssn.authStage
<1>0. ssn \in Sessions
  BY DEF IInv, TypeOK
<1>1. ASSUME NEW tab, DialFails(tab)
      PROVE  ssn'.authStage = ssn.authStage
  <2>1. ssn' \in {[ssn EXCEPT !.datafd = NoFd], ssn}
    BY <1>1, ReplyStage DEF DialFails
  <2>2. QED
    BY <1>0, <2>1 DEF Sessions
<1>2. ASSUME NEW f, DialWorks(f)
      PROVE  ssn'.authStage = ssn.authStage
  <2>1. ssn' \in {[ssn EXCEPT !.datafd = f], ssn}
    BY <1>2, ReplyStage DEF DialWorks
  <2>2. QED
    BY <1>0, <2>1 DEF Sessions
<1>3. ASSUME NEW code, NEW tab, Finish(code, tab)
      PROVE  ssn'.authStage = ssn.authStage
  <2>1. ssn' \in {TransferOver, ssn}
    BY <1>3, ReplyStage DEF Finish
  <2>2. QED
    BY <1>0, <2>1 DEF Sessions, TransferOver
<1>4. QED
  BY <1>1, <1>2, <1>3
     DEF Accept, AcceptRefused, Connect, EndTransfer, EndList, DataSigPipe, Exit

\* Each step between two reads writes one reply, or ends the process.
LEMMA ContinueReplies ==
  ASSUME IInv, peer = "up",
         Accept \/ AcceptRefused \/ Connect \/ EndTransfer \/ EndList \/ DataSigPipe
  PROVE  /\ at \in {"dial", "xfer"} /\ Continues
         /\ at' = "exit" => at = "xfer"
         /\ at' = "xfer" => at = "dial"
<1>1. ASSUME NEW tab, at = "dial", DialFails(tab), Keep
      PROVE  Continues /\ at' = "read"
  BY <1>1, ReplyUp DEF DialFails, Continues, Keep
<1>2. ASSUME NEW f, at = "dial", DialWorks(f), Keep
      PROVE  Continues /\ at' = "xfer"
  BY <1>2, ReplyUp DEF DialWorks, Continues, Keep
<1>3. ASSUME NEW code \in {226, 426}, NEW tab, at = "xfer", Finish(code, tab), Keep
      PROVE  Continues /\ at' = "read"
  BY <1>3, ReplyUp DEF Finish, Continues, Keep
<1>4. CASE Accept
  BY <1>1, <1>2, <1>4 DEF Accept, Passive
<1>5. CASE AcceptRefused
  BY <1>1, <1>5 DEF AcceptRefused, Passive
<1>6. CASE Connect
  BY <1>1, <1>2, <1>6 DEF Connect
<1>7. CASE EndTransfer
  BY <1>3, <1>7 DEF EndTransfer
<1>8. CASE EndList
  BY <1>3, <1>8 DEF EndList
<1>9. CASE DataSigPipe
  BY <1>9 DEF DataSigPipe, Exit, Continues, Keep
<1>10. QED
  BY <1>4, <1>5, <1>6, <1>7, <1>8, <1>9

-----------------------------------------------------------------------------
(* Logging in *)

\* Only a reply 230 says that the user is let in, and then he is.
Grants ==
  /\ ssn.authStage = PASSWORD_OK => ssn'.authStage = PASSWORD_OK
  /\ peer = "up" =>
       \/ out' = <<>>
       \/ \E code \in Nat : /\ out' = <<code>>
                            /\ code = 230 => ssn'.authStage = PASSWORD_OK

LEMMA ReplyGrants ==
  ASSUME at = "read", NEW code \in Nat, NEW s, NEW tab, NEW next,
         message_client(code, s, tab, next),
         ssn.authStage = PASSWORD_OK => s.authStage = PASSWORD_OK,
         code = 230 => s.authStage = PASSWORD_OK
  PROVE  Grants
<1>1. Append(<<>>, code) = <<code>>
  OBVIOUS
<1>2. QED
  BY <1>1, ReplyUp, ReplyStage DEF Grants

LEMMA HandlerGrants ==
  ASSUME IInv, at = "read", NEW title \in Titles, NEW arg,
         handle_command(title, arg)
  PROVE  Grants
<1>0. ssn \in Sessions
  BY DEF IInv, TypeOK
<1>1. ASSUME NEW code \in Nat \ {230}, Reply(code, ssn)
      PROVE  Grants
  BY <1>1, ReplyGrants DEF Reply
<1>2. ASSUME NEW code \in Nat \ {230}, NEW s, NEW tab, NEW next,
             message_client(code, s, tab, next), s.authStage = ssn.authStage
      PROVE  Grants
  BY <1>2, ReplyGrants
<1>3. ASSUME NEW fd, NEW tab, Dial(fd, tab)
      PROVE  Grants
  BY <1>3 DEF Dial, Grants
<1>4. CASE check_stage(title) # 0
  <2>1. check_stage(title) \in Nat \ {230}
    BY <1>4 DEF check_stage
  <2>2. QED
    BY <1>1, <1>4, <2>1 DEF handle_command
<1>5. ASSUME cmd_user(arg)
      PROVE  Grants
  <2>1. ASSUME NEW stage, NEW code \in Nat \ {230}, ssn.authStage # PASSWORD_OK,
               Reply(code, [ssn EXCEPT !.authStage = stage])
        PROVE  Grants
    BY <2>1, ReplyGrants DEF Reply
  <2>2. QED
    BY <1>0, <1>1, <1>5, <2>1
       DEF cmd_user, Sessions, CONNECTED, USERNAME_OK, PASSWORD_OK
<1>6. ASSUME cmd_pass
      PROVE  Grants
  <2>1. ASSUME message_client(230, [ssn EXCEPT !.authStage = PASSWORD_OK], fdtab, "read")
        PROVE  Grants
    <3>1. [ssn EXCEPT !.authStage = PASSWORD_OK].authStage = PASSWORD_OK
      BY <1>0 DEF Sessions
    <3>2. QED
      BY <2>1, <3>1, ReplyGrants, ZenonT(60)
  <2>2. QED
    BY <1>1, <1>6, <2>1 DEF cmd_pass, Reply
<1>7. ASSUME cmd_pasv
      PROVE  Grants
  <2>1. \A fd : Listening(fd).authStage = ssn.authStage
    BY <1>0 DEF Listening, Sessions
  <2>2. QED
    BY <1>1, <1>2, <1>7, <2>1 DEF cmd_pasv
<1>8. ASSUME cmd_port \/ cmd_rest \/ cmd_rnfr(arg) \/ cmd_rnto(arg)
      PROVE  Grants
  <2> DEFINE port    == [ssn EXCEPT !.rcvMode = "INPORT"]
             from(o) == [ssn EXCEPT !.currentPos = o]
             name(n) == [ssn EXCEPT !.rnfrName = n]
  <2>1. /\ port.authStage = ssn.authStage
        /\ \A v : from(v).authStage = ssn.authStage /\ name(v).authStage = ssn.authStage
    BY <1>0 DEF Sessions
  <2>2. cmd_port => Reply(502, ssn) \/ message_client(200, port, fdtab, "read")
    BY DEF cmd_port, Reply
  <2>3. cmd_rest => \E v : message_client(350, from(v), fdtab, "read")
    BY DEF cmd_rest, Reply
  <2>4. cmd_rnfr(arg) =>
          Reply(550, ssn) \/ message_client(350, name("set"), fdtab, "read")
    BY DEF cmd_rnfr, Reply
  <2>5. cmd_rnto(arg) =>
          \/ Reply(550, ssn) \/ Reply(503, ssn)
          \/ message_client(250, name(NULL), fdtab, "read")
          \/ message_client(550, name(NULL), fdtab, "read")
    BY DEF cmd_rnto, Reply
  <2> HIDE DEF port, from, name
  <2>6. QED
    BY <1>1, <1>2, <1>8, <2>1, <2>2, <2>3, <2>4, <2>5
<1>9. ASSUME OpenFile(arg) \/ cmd_list
      PROVE  Grants
  <2>1. ASSUME NEW tab, FileRefused(tab)
        PROVE  Grants
    <3> DEFINE s == [ssn EXCEPT !.rcvMode = "NOMODE"]
    <3>1. s.authStage = ssn.authStage /\ message_client(551, s, tab, "read")
      BY <1>0, <2>1 DEF Sessions, FileRefused
    <3> HIDE DEF s
    <3>2. QED
      BY <1>2, <3>1
  <2>2. QED
    BY <1>3, <1>9, <2>1 DEF OpenFile, cmd_list
<1>10. ASSUME cmd_quit
       PROVE  Grants
  <2> DEFINE s == [ssn EXCEPT !.pasvfd = NoFd, !.datafd = NoFd]
  <2>1. s.authStage = ssn.authStage /\ message_client(221, s, NoFds, "exit")
    BY <1>0, <1>10 DEF Sessions, cmd_quit
  <2> HIDE DEF s
  <2>2. QED
    BY <1>2, <2>1
<1>11. ASSUME \/ cmd_syst \/ cmd_type(arg) \/ cmd_mkd \/ cmd_cwd \/ cmd_pwd
              \/ cmd_rmd \/ cmd_dele \/ Reply(500, ssn)
       PROVE  Grants
  BY <1>1, <1>11 DEF cmd_syst, cmd_type, cmd_mkd, cmd_cwd, cmd_pwd, cmd_rmd, cmd_dele
<1>12. QED
  BY <1>4, <1>5, <1>6, <1>7, <1>8, <1>9, <1>10, <1>11
     DEF handle_command, cmd_retr, cmd_stor

-----------------------------------------------------------------------------
(* The server's steps keep the invariant *)

Links == {"none", "transit", "queued", "open", "closed"}

\* What the server's side leaves of the client's variables is typed.
LEMMA ServerFrame ==
  ASSUME SysInv, ClientSame, toServer' \in {toServer, <<>>},
         toClient' \in Seq(Nat), dlink' \in Links, peer' = peer
  PROVE  ClientTyped' /\ Awaited' = Awaited /\ Asked' = Asked
<1>1. /\ job' = job /\ pos' = pos /\ wait' = wait /\ transferMode' = transferMode
      /\ tries' = tries /\ page' = page /\ merged' = merged /\ slip' = slip
  BY DEF ClientSame
<1>2. Awaited' = Awaited /\ Asked' = Asked
  BY <1>1 DEF Awaited, Asked
<1>3. toServer' \in Seq(Commands)
  <2>1. <<>> \in Seq(Commands)
    OBVIOUS
  <2>2. QED
    BY <2>1 DEF SysInv, ClientTyped
<1>4. \A i \in 1 .. Len(toServer') : toServer'[i][1] \in Titles
  BY <1>3 DEF Commands
<1>5. ClientTypeOK'
  BY <1>1, <1>4 DEF SysInv, ClientTyped, ClientTypeOK, Busy, Links
<1>6. QED
  BY <1>1, <1>2, <1>3, <1>5 DEF SysInv, ClientTyped, Busy

\* A step for a client that has gone changes nothing that it could see.
LEMMA ServerUnseen ==
  ASSUME SysInv, ClientSame, peer = "gone", toServer' \in {toServer, <<>>},
         dlink' \in Links, peer' = peer, Writes,
         ssn.authStage = PASSWORD_OK => ssn'.authStage = PASSWORD_OK
  PROVE  ClientTyped' /\ Sync' /\ Granted'
<1>1. toClient' = toClient /\ wait = "gone" /\ wait' = wait /\ page' = page
  BY DEF Writes, ClientSame, SysInv, ClientTyped
<1>2. ClientTyped'
  BY <1>1, ServerFrame DEF SysInv, ClientTyped, ClientTypeOK
<1>3. QED
  BY <1>1, <1>2 DEF Sync, SysInv, Granted

\* One more reply on its way is granted when it is not a false 230.
LEMMA AppendGranted ==
  ASSUME Granted, toClient \in Seq(Nat), NEW code, page' = page,
         toClient' = Append(toClient, code),
         ssn.authStage = PASSWORD_OK => ssn'.authStage = PASSWORD_OK,
         code = 230 => ssn'.authStage = PASSWORD_OK
  PROVE  Granted'
BY DEF Granted

LEMMA ContinueKeeps ==
  ASSUME SysInv, IInv', Writes, ClientSame, toServer' = toServer, dlink' \in Links,
         Accept \/ AcceptRefused \/ Connect \/ EndTransfer \/ EndList \/ DataSigPipe
  PROVE  ClientTyped' /\ Sync' /\ Granted'
<1>1. ssn'.authStage = ssn.authStage
  BY ContinueStage DEF SysInv
<1>2. peer' = peer /\ peer \in {"up", "gone"}
  BY DEF Accept, AcceptRefused, Connect, EndTransfer, EndList, DataSigPipe, Keep,
         SysInv, IInv, TypeOK
<1>3. CASE peer = "gone"
  BY <1>1, <1>2, <1>3, ServerUnseen
<1>4. CASE peer = "up"
  <2>1. /\ at \in {"dial", "xfer"} /\ Continues
        /\ at' = "exit" => at = "xfer"
        /\ at' = "xfer" => at = "dial"
    BY <1>4, ContinueReplies DEF SysInv
  <2>2. out = IF at = "dial" THEN <<>> ELSE <<150>>
    BY <2>1 DEF SysInv, IInv, ReplyInv, ReplyDiscipline
  <2>3. CASE at' = "exit" /\ out' = out
    <3>1. toClient' = toClient /\ line' = line
      BY <2>1, <2>3 DEF Writes, Continues
    <3>2. ClientTyped' /\ Awaited' = Awaited /\ Asked' = Asked
      BY <1>2, <3>1, ServerFrame DEF SysInv, ClientTyped, ClientTypeOK
    <3>3. Sync'
      BY <2>1, <2>3, <3>1, <3>2
         DEF SysInv, Sync, IdleInSync, AnswersOwn, Busy, ClientSame
    <3>4. QED
      BY <1>1, <3>1, <3>2, <3>3 DEF SysInv, Granted, ClientSame
  <2>4. CASE at' # "exit"
    <3>1. PICK code \in Nat \ {230} : out' = Append(out, code)
      BY <2>1, <2>4 DEF Continues
    <3>2. /\ out' = IF at = "dial" THEN <<code>> ELSE <<150, code>>
          /\ out'[Len(out')] = code /\ out' # <<>> /\ out' # out
      BY <2>1, <2>2, <3>1
    <3>3. toClient' = Append(toClient, code)
      BY <1>4, <3>2 DEF Writes
    <3>4. toClient \in Seq(Nat)
      BY DEF SysInv, ClientTyped, ClientTypeOK
    <3>5. ClientTyped' /\ Awaited' = Awaited /\ Asked' = Asked
      BY <1>2, <3>3, <3>4, ServerFrame
    <3>6. Granted'
      BY <1>1, <3>3, <3>4, AppendGranted DEF SysInv, ClientSame
    <3>7. line' = line /\ at' \in {"read", "xfer"}
      BY <2>1, <2>4 DEF Continues
    <3>8. ASSUME slip' < 0, wait' # "gone"
          PROVE  Busy /\ InStep /\ Busy' = Busy
      BY <2>1, <3>8 DEF SysInv, Sync, IdleInSync, Busy, ClientSame
    <3>9. ASSUME slip' < 0, wait' # "gone"
          PROVE  InStep' /\ line' \in {Asked', "OVERLONG"}
      <4>1. CASE Commanded /\ Awaited # "complete" /\ wait \notin {"accept", "data"}
                 /\ Awaited # "greeting"
        <5>1. toServer = <<>> /\ line \in {Awaited, "OVERLONG"}
          BY <2>1, <4>1 DEF Commanded
        <5>2. toClient = out
          BY <2>1, <2>2, <4>1 DEF Commanded
        <5>3. Commanded'
          BY <3>1, <3>3, <3>5, <3>7, <5>1, <5>2 DEF Commanded
        <5>4. QED
          BY <3>5, <3>7, <4>1, <5>1, <5>3 DEF InStep, Asked, ClientSame
      <4>2. CASE Transferring /\ (Awaited = "complete" \/ wait \in {"accept", "data"})
                 /\ Awaited # "greeting"
        <5>1. /\ toServer = <<>> /\ line \in {Asked, "OVERLONG"}
              /\ at = "xfer" /\ toClient = <<>>
          BY <2>1, <4>2 DEF Transferring
        <5>2. at' = "read" /\ Len(toClient') = 1
          BY <2>1, <3>3, <3>7, <5>1
        <5>3. QED
          BY <3>5, <3>7, <4>2, <5>1, <5>2 DEF Transferring, InStep, ClientSame
      <4>3. QED
        BY <2>1, <3>8, <3>9, <4>1, <4>2 DEF InStep, Greeted
    <3>10. Sync'
      BY <3>7, <3>8, <3>9 DEF Sync, IdleInSync, AnswersOwn, Busy
    <3>11. QED
      BY <3>5, <3>6, <3>10
  <2>5. QED
    BY <2>1, <2>3, <2>4 DEF Continues
<1>5. QED
  BY <1>2, <1>3, <1>4

LEMMA GreetingKeeps ==
  ASSUME SysInv, IInv', ServeGreeting
  PROVE  ClientTyped' /\ Sync' /\ Granted'
<1>1. /\ at = "start" /\ message_client(220, ssn, fdtab, "read")
      /\ line' = line /\ peer' = peer /\ Writes /\ ClientSame
      /\ toServer' = toServer /\ dlink' = dlink
  BY DEF ServeGreeting, Welcome
<1>2. dlink' \in Links /\ peer \in {"up", "gone"} /\ toClient \in Seq(Nat)
  BY <1>1 DEF SysInv, ClientTyped, ClientTypeOK, Links, IInv, TypeOK
<1>3. ssn'.authStage = ssn.authStage
  BY <1>1, ReplyStage
<1>4. CASE peer = "gone"
  BY <1>1, <1>2, <1>3, <1>4, ServerUnseen
<1>5. CASE peer = "up"
  <2>1. out' = <<220>> /\ at' = "read"
    BY <1>1, <1>5, ReplyUp DEF SysInv, IInv, ReplyInv
  <2>2. out'[Len(out')] = 220 /\ out' # <<>> /\ out' # out
    BY <1>1, <2>1 DEF SysInv, IInv, ReplyInv
  <2>3. toClient' = Append(toClient, 220)
    BY <1>1, <1>5, <2>2 DEF Writes
  <2>4. ClientTyped' /\ Awaited' = Awaited /\ Asked' = Asked
    BY <1>1, <1>2, <2>3, ServerFrame
  <2>5. Granted'
    BY <1>1, <1>2, <1>3, <2>3, AppendGranted DEF SysInv, ClientSame
  <2>6. ASSUME slip' < 0, wait' # "gone"
        PROVE  Busy /\ Busy' /\ Awaited = "greeting" /\ Greeted
    BY <1>1, <2>6
       DEF SysInv, Sync, IdleInSync, Busy, ClientSame, InStep, Commanded, Transferring
  <2>7. ASSUME slip' < 0, wait' # "gone"
        PROVE  InStep' /\ AnswersOwn'
    <3>1. toClient = <<>> /\ toServer = <<>> /\ line = "none"
      BY <1>1, <2>6, <2>7 DEF Greeted
    <3>2. Len(toClient') = 1
      BY <2>3, <3>1
    <3>3. Greeted'
      BY <1>1, <2>1, <3>1, <3>2 DEF Greeted
    <3>4. QED
      BY <1>1, <2>4, <2>6, <2>7, <3>1, <3>3 DEF InStep, AnswersOwn
  <2>8. Sync'
    BY <2>6, <2>7 DEF Sync, IdleInSync, Busy
  <2>9. QED
    BY <2>4, <2>5, <2>8
<1>6. QED
  BY <1>2, <1>4, <1>5

\* A line is answered at once, or served further without a reply.
LEMMA LineReplies ==
  ASSUME IInv, NEW title \in Titles, NEW arg, ReadLine(title, arg)
  PROVE  /\ line' = title /\ peer' = peer
         /\ Grants
         /\ \/ at' = "exit"
            \/ at' = "dial" /\ out' = <<>>
            \/ at' = "read" /\ \E code \in Nat \ {150} : out' = <<code>>
<1>1. at = "read" /\ line' = title /\ peer' = peer
  BY DEF ReadLine
<1>2. CASE Reply(500, ssn)
  <2>1. Answered(title)
    BY <1>1, <1>2, SessionIdle, ReplyAnswers DEF Reply
  <2>2. Grants
    BY <1>1, <1>2, ReplyGrants DEF Reply
  <2>3. QED
    BY <1>1, <2>1, <2>2 DEF Answered
<1>3. CASE handle_command(title, arg)
  BY <1>1, <1>3, HandleCommandAnswers, HandlerGrants DEF Answered
<1>4. QED
  BY <1>2, <1>3 DEF ReadLine

LEMMA CommandKeeps ==
  ASSUME SysInv, IInv', ServeCommand
  PROVE  ClientTyped' /\ Sync' /\ Granted'
<1> DEFINE title == toServer[1][1]
           arg   == toServer[1][2]
<1>1. /\ toServer # <<>> /\ ReadLine(title, arg) /\ toServer' = <<>>
      /\ Writes /\ ClientSame /\ at = "read"
      /\ dlink' = IF out' = <<227>> THEN "none" ELSE dlink
  BY DEF ServeCommand, ReadLine
<1>2. title \in Titles
  <2>1. toServer[1] \in Commands
    BY <1>1 DEF SysInv, ClientTyped
  <2>2. QED
    BY <2>1 DEF Commands
<1>3. /\ line' = title /\ peer' = peer /\ Grants
      /\ \/ at' = "exit"
         \/ at' = "dial" /\ out' = <<>>
         \/ at' = "read" /\ \E code \in Nat \ {150} : out' = <<code>>
  BY <1>1, <1>2, LineReplies DEF SysInv
<1> HIDE DEF arg
<1>4. /\ dlink' \in Links /\ peer \in {"up", "gone"} /\ toClient \in Seq(Nat)
      /\ toServer \in Seq(Commands)
  BY <1>1 DEF SysInv, ClientTyped, ClientTypeOK, Links, IInv, TypeOK
<1>5. CASE peer = "gone"
  BY <1>1, <1>3, <1>4, <1>5, ServerUnseen DEF Grants
<1>6. CASE peer = "up"
  <2>1. \/ out' = <<>> /\ toClient' = toClient
        \/ \E code \in Nat : /\ out' = <<code>> /\ toClient' = Append(toClient, code)
                             /\ code = 230 => ssn'.authStage = PASSWORD_OK
    <3>1. CASE out' = <<>>
      BY <1>1, <3>1 DEF Writes
    <3>2. ASSUME NEW code \in Nat, out' = <<code>>
          PROVE  toClient' = Append(toClient, code)
      <4>1. out' # <<>> /\ out'[Len(out')] = code
        BY <3>2
      <4>2. QED
        BY <1>1, <1>6, <4>1 DEF Writes
    <3>3. QED
      BY <1>3, <1>6, <3>1, <3>2 DEF Grants
  <2>2. toClient' \in Seq(Nat)
    BY <1>4, <2>1, SMTT(30)
  <2>3. ClientTyped' /\ Awaited' = Awaited /\ Asked' = Asked
    BY <1>1, <1>3, <1>4, <2>2, ServerFrame
  <2>4. Granted'
    <3>1. CASE toClient' = toClient
      BY <1>1, <1>3, <3>1 DEF SysInv, Granted, Grants, ClientSame
    <3>2. CASE toClient' # toClient
      BY <1>1, <1>3, <1>4, <2>1, <3>2, AppendGranted DEF SysInv, Grants, ClientSame
    <3>3. QED
      BY <3>1, <3>2
  <2>5. ASSUME slip' < 0, wait' # "gone"
        PROVE  /\ Busy /\ Busy' /\ Commanded /\ toClient = <<>>
               /\ Awaited \notin Silent /\ wait \notin {"accept", "data"}
               /\ \E said \in Lines(Awaited) : toServer = <<said>>
    BY <1>1, <2>5
       DEF SysInv, Sync, IdleInSync, Busy, ClientSame, InStep, Greeted,
           Commanded, Transferring, Silent
  <2>6. ASSUME slip' < 0, wait' # "gone"
        PROVE  line' \in {Awaited', "OVERLONG"}
    <3>1. Awaited \in CmdList
      <4>1. /\ job \in Operations /\ transferMode \in Modes
            /\ pos \in 1 .. Len(Steps(job, transferMode))
        BY <2>5, <2>6 DEF SysInv, ClientTyped, ClientTypeOK, Modes
      <4>2. Awaited \in CmdList \cup Silent
        BY <4>1, StepFacts DEF WellFormed, Awaited
      <4>3. QED
        BY <2>5, <2>6, <4>2
    <3>2. PICK said \in Lines(Awaited) : toServer = <<said>>
      BY <2>5, <2>6
    <3>3. said[1] \in {Awaited, "OVERLONG"} /\ title = said[1]
      BY <3>1, <3>2, LinesAreCommands
    <3>4. QED
      BY <1>3, <2>3, <3>3
  <2>7. ASSUME slip' < 0, wait' # "gone"
        PROVE  AnswersOwn' /\ (at' # "exit" => InStep')
    <3>1. at' # "exit" => toClient' = out'
      BY <1>3, <2>1, <2>5, <2>7
    <3>2. at' # "exit" => Commanded'
      BY <1>1, <1>3, <2>6, <2>7, <3>1 DEF Commanded
    <3>3. Awaited' \notin Silent /\ wait' \notin {"accept", "data"}
      BY <1>1, <2>3, <2>5, <2>7 DEF ClientSame
    <3>4. Asked' = Awaited'
      BY <2>3, <3>3 DEF Asked, Silent
    <3>5. QED
      BY <2>6, <2>7, <3>2, <3>3, <3>4 DEF InStep, AnswersOwn, Silent
  <2>8. Sync'
    BY <2>5, <2>7 DEF Sync, IdleInSync, Busy
  <2>9. QED
    BY <2>3, <2>4, <2>8
<1>7. QED
  BY <1>4, <1>5, <1>6

LEMMA ServerStepKeeps ==
  ASSUME SysInv, IInv', ServerStep
  PROVE  ClientTyped' /\ Sync' /\ Granted'
<1>0. dlink \in Links
  BY DEF SysInv, ClientTyped, ClientTypeOK, Links
<1>1. CASE ServeGreeting
  BY <1>1, GreetingKeeps
<1>2. CASE ServeCommand
  BY <1>2, CommandKeeps
<1>3. CASE ServeEnd
  <2>1. /\ peer = "gone" /\ peer' = peer /\ ssn' = ssn /\ Writes /\ ClientSame
        /\ toServer' = toServer /\ dlink' = dlink
    BY <1>3 DEF ServeEnd, EndOfFile, Exit
  <2>2. QED
    BY <1>0, <2>1, ServerUnseen
<1>4. CASE ServeAccept \/ ServeAcceptRefused \/ ServeConnect \/ ServeEndTransfer \/ ServeSigPipe
  <2>1. /\ Writes /\ ClientSame /\ toServer' = toServer /\ dlink' \in Links
        /\ Accept \/ AcceptRefused \/ Connect \/ EndTransfer \/ EndList \/ DataSigPipe
    BY <1>0, <1>4 DEF ServeAccept, ServeAcceptRefused, ServeConnect, ServeEndTransfer,
                      ServeSigPipe, Links
  <2>2. QED
    BY <2>1, ContinueKeeps
<1>5. QED
  BY <1>1, <1>2, <1>3, <1>4 DEF ServerStep

-----------------------------------------------------------------------------
(* The client's steps keep the invariant *)

\* The variables that the end of an operation does not decide.
Framed ==
  /\ transferMode' \in Modes /\ toClient' \in Seq(Nat)
  /\ merged' \in BOOLEAN /\ slip' \in -1 .. MaxLate

\* Nothing is on its way but what the server, if it runs, has been sent last.
Quiet ==
  /\ toClient' = <<>>
  /\ \/ at = "exit"
     \/ at = "read" /\ toServer = <<>>

LEMMA FramedNow ==
  ASSUME SysInv
  PROVE  /\ transferMode \in Modes /\ toClient \in Seq(Nat)
         /\ merged \in BOOLEAN /\ slip \in -1 .. MaxLate
         /\ GivenUp \in 0 .. MaxLate
BY MaxLateAssumption DEF SysInv, ClientTyped, ClientTypeOK, Modes, GivenUp

\* The program ends.
LEMMA VanishKeeps ==
  ASSUME SysInv, ServerSees, Vanish, Framed, toClient' = <<>>
  PROVE  ClientTyped' /\ Sync' /\ Granted'
<1>1. /\ wait' = "gone" /\ job' = "none" /\ pos' = 0 /\ tries' = 0
      /\ page' = page /\ toServer' = toServer /\ dlink' \in Links
  BY DEF Vanish, CloseData, Links, SysInv, ClientTyped, ClientTypeOK
<1>2. ClientTypeOK'
  BY <1>1, AcceptTriesAssumption
     DEF Framed, Modes, Links, ClientTypeOK, Busy, SysInv, ClientTyped
<1>3. ClientTyped'
  BY <1>1, <1>2 DEF ClientTyped, Busy, SysInv
<1>4. Granted'
  BY <1>1, ClientIsSession DEF Granted, SysInv
<1>5. QED
  BY <1>1, <1>3, <1>4 DEF Sync

\* An operation ends, and the page changes after a login and a logout.
LEMMA ReturnKeeps ==
  ASSUME SysInv, ServerSees, NEW task, NEW ok, Return(task, ok), Framed,
         wait # "gone", toClient' \in {toClient, <<>>},
         slip' < 0 => Quiet,
         task = "login" /\ ok => ssn.authStage = PASSWORD_OK
  PROVE  ClientTyped' /\ Sync' /\ Granted'
<1>1. /\ wait' = "user" /\ job' = "none" /\ pos' = 0 /\ tries' = 0
      /\ page' \in {"login", "main"} /\ toServer' = toServer /\ dlink' \in Links
      /\ page' = "main" => page = "main" \/ (task = "login" /\ ok)
  BY DEF Return, CloseData, Links, SysInv, ClientTyped, ClientTypeOK
<1>2. at' = at /\ line' = line /\ ssn' = ssn /\ out' = out /\ peer' = peer
  BY <1>1, ClientIsSession
<1>3. ClientTypeOK'
  BY <1>1, AcceptTriesAssumption
     DEF Framed, Modes, Links, ClientTypeOK, Busy, SysInv, ClientTyped
<1>4. ClientTyped'
  BY <1>1, <1>2, <1>3 DEF ClientTyped, Busy, SysInv
<1>5. Granted'
  BY <1>1, <1>2 DEF Granted, SysInv
<1>6. Sync'
  BY <1>1, <1>2 DEF Sync, IdleInSync, AnswersOwn, Busy, Quiet
<1>7. QED
  BY <1>4, <1>5, <1>6

LEMMA RaiseKeeps ==
  ASSUME SysInv, ServerSees, NEW task, Raise(task), Framed, wait # "gone",
         toClient' = IF wait' = "gone" THEN <<>> ELSE toClient,
         slip' < 0 => Quiet
  PROVE  ClientTyped' /\ Sync' /\ Granted'
<1>1. CASE Vanish
  BY <1>1, VanishKeeps DEF Vanish
<1>2. CASE Return(task, FALSE)
  BY <1>2, ReturnKeeps
<1>3. QED
  BY <1>1, <1>2 DEF Raise

LEMMA SmallIndex ==
  ASSUME NEW n \in 1 .. 4, NEW k \in 1 .. n
  PROVE  k \in 0 .. 4
OBVIOUS

\* A step is entered with nothing on its way, and says its command.
LEMMA EnterKeeps ==
  ASSUME SysInv, ServerSees, NEW task \in Operations, NEW mode \in Modes,
         NEW k \in 1 .. Len(Steps(task, mode)), Steps(task, mode)[k] \notin Silent,
         Enter(task, mode, k), transferMode' = mode, Framed, wait # "gone",
         wait' = "gone" => toClient' = <<>>, toClient' \in {toClient, <<>>},
         slip' < 0 => Quiet
  PROVE  ClientTyped' /\ Sync' /\ Granted'
<1> DEFINE step == Steps(task, mode)[k]
<1>1. CASE Raise(task)
  <2>1. CASE Vanish
    BY <2>1, VanishKeeps DEF Vanish
  <2>2. CASE Return(task, FALSE)
    BY <2>2, ReturnKeeps
  <2>3. QED
    BY <1>1, <2>1, <2>2 DEF Raise
<1>2. CASE ~Raise(task)
  <2>1. /\ job' = task /\ pos' = k /\ tries' = 0
        /\ \E said \in Lines(step) : toServer' = Append(toServer, said)
        /\ wait' = IF step \in DataTitles /\ mode = MODE_PASV THEN "connect" ELSE "recv"
        /\ page' = page /\ dlink' = dlink
    BY <1>2 DEF Enter
  <2>2. at' = at /\ line' = line /\ ssn' = ssn /\ out' = out /\ peer' = peer
    BY <2>1, ClientIsSession
  <2>3. Awaited' = step
    BY <2>1 DEF Awaited
  <2>4. /\ step \in CmdList /\ step \notin Silent
        /\ Len(Steps(task, mode)) \in 1 .. 4 /\ pos' \in 0 .. 4
        /\ pos' \in 1 .. Len(Steps(job', transferMode'))
    <3>1. WellFormed(Steps(task, mode), task)
      BY StepFacts
    <3>2. Len(Steps(task, mode)) \in 1 .. 4
      BY <3>1 DEF WellFormed
    <3>3. step \in CmdList \cup Silent
      BY <3>1 DEF WellFormed
    <3>4. k \in 0 .. 4
      BY <3>2, SmallIndex
    <3>5. pos' \in 1 .. Len(Steps(job', transferMode'))
      BY <2>1
    <3>6. QED
      BY <2>1, <3>2, <3>3, <3>4, <3>5
  <2> HIDE DEF step
  <2>5. PICK said \in Lines(step) : toServer' = Append(toServer, said)
    BY <2>1
  <2>6. said \in Commands
    BY <2>4, LinesAreCommands
  <2>7. toServer' \in Seq(Commands)
    BY <2>5, <2>6 DEF SysInv, ClientTyped
  <2>8. \A i \in 1 .. Len(toServer') : toServer'[i][1] \in Titles
    BY <2>7 DEF Commands
  <2>9. ClientTypeOK'
    <3>1. job' \in Tasks \cup {"login", "none"} /\ tries' \in 0 .. AcceptTries - 1
      BY <2>1, AcceptTriesAssumption DEF Operations
    <3>2. wait' \in {"user", "recv", "connect", "accept", "data", "gone"}
      BY <2>1
    <3>3. QED
      BY <2>1, <2>4, <2>8, <3>1, <3>2
         DEF Framed, Modes, ClientTypeOK, Busy, SysInv, ClientTyped
  <2>10. ClientTyped'
    BY <2>1, <2>2, <2>3, <2>7, <2>9 DEF ClientTyped, SysInv
  <2>11. Granted'
    BY <2>1, <2>2 DEF Granted, SysInv
  <2>12. ASSUME slip' < 0, at' # "exit"
         PROVE  InStep'
    <3>1. Append(<<>>, said) = <<said>>
      OBVIOUS
    <3>2. toServer' = <<said>> /\ at' = "read" /\ toClient' = <<>>
      BY <2>2, <2>5, <2>12, <3>1 DEF Quiet
    <3>3. Commanded'
      BY <2>3, <3>2 DEF Commanded
    <3>4. QED
      BY <2>1, <2>3, <2>4, <3>3 DEF InStep, Silent
  <2>13. Sync'
    BY <2>1, <2>12 DEF Sync, IdleInSync, AnswersOwn, Busy, Quiet
  <2>14. QED
    BY <2>10, <2>11, <2>13
<1>3. QED
  BY <1>1, <1>2

\* The step that is awaited, as one of its operation.
LEMMA AwaitedFacts ==
  ASSUME SysInv, Busy
  PROVE  /\ job \in Operations /\ transferMode \in Modes
         /\ pos \in 1 .. Len(Steps(job, transferMode))
         /\ Len(Steps(job, transferMode)) \in 1 .. 4
         /\ Awaited \in CmdList \cup Silent
         /\ Awaited \in DataTitles =>
              /\ pos < Len(Steps(job, transferMode))
              /\ Steps(job, transferMode)[pos + 1] = "complete"
         /\ (Awaited \notin DataTitles /\ pos < Len(Steps(job, transferMode))) =>
              Steps(job, transferMode)[pos + 1] \notin Silent
         /\ job = "login" => Steps(job, transferMode) = login
<1>1. /\ job \in Operations /\ transferMode \in Modes
      /\ pos \in 1 .. Len(Steps(job, transferMode))
  BY DEF SysInv, ClientTyped, ClientTypeOK, Modes
<1>2. WellFormed(Steps(job, transferMode), job)
  BY <1>1, StepFacts
<1>3. QED
  BY <1>1, <1>2 DEF WellFormed, Awaited, Silent

\* A reply that is not the 150 of a data command finds the server idle.
LEMMA ReplyQuiet ==
  ASSUME SysInv, wait = "recv", toClient # <<>>, toClient' = <<>>, slip < 0,
         toClient[1] # 150 \/ Awaited \notin DataTitles
  PROVE  Quiet
<1>1. Busy
  BY DEF Busy
<1>2. CASE at = "exit"
  BY <1>2 DEF Quiet
<1>3. CASE at # "exit"
  <2>1. InStep
    BY <1>1, <1>3 DEF SysInv, Sync
  <2>2. CASE Greeted
    BY <2>2 DEF Greeted, Quiet
  <2>3. CASE Transferring
    BY <2>3 DEF Transferring, Quiet
  <2>4. CASE Commanded
    <3>1. toServer = <<>> /\ line \in {Awaited, "OVERLONG"} /\ at \in {"read", "xfer"} /\ toClient = out
      BY <2>4 DEF Commanded
    <3>2. at = "xfer" => toClient = <<150>> /\ line \in DataCmds
      BY <3>1 DEF SysInv, IInv, ReplyInv, ReplyDiscipline
    <3>3. at # "xfer"
      BY <3>1, <3>2 DEF DataCmds, DataTitles
    <3>4. QED
      BY <3>1, <3>3 DEF Quiet
  <2>5. QED
    BY <2>1, <2>2, <2>3, <2>4 DEF InStep
<1>4. QED
  BY <1>2, <1>3

LEMMA ReceiveKeeps ==
  ASSUME SysInv, Receive, ServerSees
  PROVE  ClientTyped' /\ Sync' /\ Granted'
<1>1. /\ wait = "recv" /\ toClient # <<>> /\ toClient' = <<>>
      /\ merged' = (merged \/ Len(toClient) > 1)
      /\ transferMode' = transferMode /\ slip' = slip /\ Busy
  BY DEF Receive, Busy
<1>2. Framed
  BY <1>1, FramedNow DEF Framed
<1>3. CASE /\ Return(job, FALSE)
           /\ \/ toClient[1] # Expect(Awaited)
              \/ toClient[1] = 226 /\ Awaited = "complete"
  <2>1. toClient[1] # 150 \/ Awaited \notin DataTitles
    BY <1>3 DEF Expect, DataTitles
  <2>2. slip' < 0 => Quiet
    BY <1>1, <2>1, ReplyQuiet
  <2>3. QED
    BY <1>1, <1>2, <1>3, <2>2, ReturnKeeps
<1>4. CASE /\ toClient[1] = Expect(Awaited) /\ Awaited \in DataTitles
           /\ wait' = IF transferMode = MODE_PASV THEN "data" ELSE "accept"
           /\ UNCHANGED <<job, pos, tries, page, toServer, dlink>>
  <2>1. /\ job' = job /\ pos' = pos /\ tries' = tries /\ page' = page
        /\ toServer' = toServer /\ dlink' = dlink /\ wait' \in {"data", "accept"}
    BY <1>4
  <2>2. at' = at /\ line' = line /\ ssn' = ssn /\ out' = out /\ peer' = peer
    BY <2>1, ClientIsSession
  <2>3. Awaited' = Awaited /\ Asked' = Asked
    BY <1>1, <2>1 DEF Awaited, Asked
  <2>4. ClientTypeOK'
    BY <1>1, <1>2, <2>1 DEF Framed, Modes, ClientTypeOK, Busy, SysInv, ClientTyped
  <2>5. ClientTyped'
    BY <1>1, <1>4, <2>1, <2>2, <2>3, <2>4 DEF ClientTyped, Busy, SysInv
  <2>6. Granted'
    BY <1>1, <2>1, <2>2 DEF Granted, SysInv
  <2>7. ASSUME slip' < 0, at' # "exit"
        PROVE  InStep'
    <3>1. Commanded
      BY <1>1, <1>4, <2>2, <2>7 DEF SysInv, Sync, InStep, DataTitles
    <3>2. toServer = <<>> /\ line \in {Awaited, "OVERLONG"} /\ at \in {"read", "xfer"} /\ toClient = out
      BY <1>1, <3>1 DEF Commanded
    <3>3. toClient[1] = 150
      BY <1>4 DEF Expect, DataTitles
    <3>4. at = "read" => Len(toClient) = 2
      BY <3>2, <3>3 DEF SysInv, IInv, ReplyInv, ReplyDiscipline
    <3>5. at = "read" => merged'
      <4>1. at = "read" => Len(toClient) > 1
        BY <3>4
      <4>2. merged' = (merged \/ Len(toClient) > 1)
        BY <1>1
      <4>3. QED
        BY <4>1, <4>2, Zenon
    <3>6. Asked = Awaited
      BY <1>4 DEF Asked, DataTitles
    <3>7. Transferring'
      BY <1>1, <2>1, <2>2, <2>3, <3>2, <3>5, <3>6 DEF Transferring
    <3>8. QED
      BY <1>4, <2>1, <2>3, <3>7 DEF InStep, DataTitles
  <2>8. Sync'
    BY <1>1, <2>1, <2>7 DEF Sync, IdleInSync, AnswersOwn, Busy
  <2>9. QED
    BY <2>5, <2>6, <2>8
<1>5. CASE /\ toClient[1] = Expect(Awaited) /\ Awaited \notin DataTitles
           /\ IF pos < Len(Steps(job, transferMode))
              THEN Enter(job, transferMode, pos + 1)
              ELSE Return(job, TRUE)
  <2>1. slip' < 0 => Quiet
    BY <1>1, <1>5, ReplyQuiet
  <2>2. CASE pos < Len(Steps(job, transferMode))
    <3>1. /\ job \in Operations /\ transferMode \in Modes
          /\ pos + 1 \in 1 .. Len(Steps(job, transferMode))
          /\ Steps(job, transferMode)[pos + 1] \notin Silent
      BY <1>1, <1>5, <2>2, AwaitedFacts
    <3>2. QED
      BY <1>1, <1>2, <1>5, <2>1, <2>2, <3>1, EnterKeeps
  <2>3. CASE ~(pos < Len(Steps(job, transferMode)))
    <3>1. ASSUME job = "login"
          PROVE  ssn.authStage = PASSWORD_OK
      <4>1. /\ Steps(job, transferMode) = login /\ pos = Len(Steps(job, transferMode))
        BY <1>1, <2>3, <3>1, AwaitedFacts
      <4>2. Len(login) = 3 /\ login[3] = "PASS"
        BY DEF login
      <4>3. Awaited = "PASS"
        BY <4>1, <4>2 DEF Awaited
      <4>4. toClient[1] = 230
        BY <1>5, <4>3 DEF Expect, Silent, DataTitles
      <4>5. 1 \in 1 .. Len(toClient)
        BY <1>1, FramedNow
      <4>6. QED
        BY <4>4, <4>5 DEF SysInv, Granted
    <3>2. QED
      BY <1>1, <1>2, <1>5, <2>1, <2>3, <3>1, ReturnKeeps
  <2>4. QED
    BY <2>2, <2>3
<1>6. QED
  BY <1>3, <1>4, <1>5 DEF Receive

\* The client moves to another place of the same operation: it says nothing
\* and takes no reply.
LEMMA MoveKeeps ==
  ASSUME SysInv, ServerSees, Busy,
         job' = job, transferMode' = transferMode, page' = page,
         toServer' = toServer, toClient' = toClient, merged' = merged, slip' = slip,
         dlink' \in Links, tries' \in 0 .. AcceptTries - 1,
         wait' \in {"recv", "connect", "accept", "data"},
         pos' \in 1 .. Len(Steps(job, transferMode)),
         Asked' = Asked,
         wait' \in {"connect", "accept", "data"} => Awaited' \in DataTitles,
         slip < 0 /\ at # "exit" /\ InStep => InStep',
         Awaited = "greeting" <=> Awaited' = "greeting"
  PROVE  ClientTyped' /\ Sync' /\ Granted'
<1>1. at' = at /\ line' = line /\ ssn' = ssn /\ out' = out /\ peer' = peer
  BY ClientIsSession
<1>2. pos' \in 0 .. 4
  <2>1. Len(Steps(job, transferMode)) \in 1 .. 4
    BY AwaitedFacts
  <2>2. QED
    BY <2>1, SmallIndex
<1>3. ClientTypeOK'
  BY <1>2, FramedNow DEF Links, Modes, ClientTypeOK, Busy, SysInv, ClientTyped
<1>4. ClientTyped'
  BY <1>1, <1>3 DEF ClientTyped, Busy, SysInv
<1>5. Granted'
  BY <1>1 DEF Granted, SysInv
<1>6. Sync'
  BY <1>1 DEF SysInv, Sync, IdleInSync, AnswersOwn, Busy
<1>7. QED
  BY <1>4, <1>5, <1>6

LEMMA ConnectDataKeeps ==
  ASSUME SysInv, ConnectData \/ AcceptData, ServerSees
  PROVE  ClientTyped' /\ Sync' /\ Granted'
<1>1. /\ wait \in {"connect", "accept"} /\ job' = job /\ pos' = pos
      /\ transferMode' = transferMode /\ tries' = tries /\ page' = page
      /\ toServer' = toServer /\ toClient' = toClient /\ merged' = merged
      /\ slip' = slip /\ dlink' \in Links /\ Busy
      /\ wait' = IF wait = "connect" THEN "recv" ELSE "data"
  BY DEF ConnectData, AcceptData, Links, Busy
<1>2. at' = at /\ line' = line /\ out' = out
  BY ClientIsSession
<1>3. Awaited' = Awaited /\ Asked' = Asked /\ Awaited \in DataTitles
  BY <1>1 DEF Awaited, Asked, SysInv, ClientTyped
<1>4. ASSUME InStep PROVE InStep'
  BY <1>1, <1>2, <1>3, <1>4 DEF InStep, Commanded, Transferring, DataTitles
<1>5. pos \in 1 .. Len(Steps(job, transferMode)) /\ tries \in 0 .. AcceptTries - 1
  BY <1>1 DEF SysInv, ClientTyped, ClientTypeOK
<1>6. QED
  BY <1>1, <1>3, <1>4, <1>5, MoveKeeps

LEMMA AcceptAgainKeeps ==
  ASSUME SysInv, AcceptAgain, ServerSees
  PROVE  ClientTyped' /\ Sync' /\ Granted'
<1>1. /\ wait = "accept" /\ transferMode' = transferMode
      /\ toClient' = toClient /\ merged' = merged /\ Busy
  BY DEF AcceptAgain, Busy
<1>2. CASE slip' = GivenUp /\ Return(job, FALSE)
  <2>1. Framed /\ ~(slip' < 0)
    BY <1>1, <1>2, FramedNow DEF Framed
  <2>2. QED
    BY <1>1, <1>2, <2>1, ReturnKeeps
<1>3. CASE /\ tries + 1 < AcceptTries /\ tries' = tries + 1
           /\ UNCHANGED <<job, pos, wait, page, toServer, dlink, slip>>
  <2>1. /\ job' = job /\ pos' = pos /\ wait' = wait /\ page' = page
        /\ toServer' = toServer /\ dlink' = dlink /\ slip' = slip
    BY <1>3
  <2>2. at' = at /\ line' = line /\ out' = out
    BY ClientIsSession
  <2>3. Awaited' = Awaited /\ Asked' = Asked /\ Awaited \in DataTitles
    BY <1>1, <2>1 DEF Awaited, Asked, SysInv, ClientTyped
  <2>4. ASSUME InStep PROVE InStep'
    BY <1>1, <2>1, <2>2, <2>3, <2>4 DEF InStep, Transferring, DataTitles
  <2>5. pos \in 1 .. Len(Steps(job, transferMode)) /\ tries' \in 0 .. AcceptTries - 1
    BY <1>1, <1>3, AcceptTriesAssumption DEF SysInv, ClientTyped, ClientTypeOK
  <2>6. dlink \in Links
    BY DEF SysInv, ClientTyped, ClientTypeOK, Links
  <2>7. QED
    BY <1>1, <2>1, <2>3, <2>4, <2>5, <2>6, MoveKeeps
<1>4. QED
  BY <1>2, <1>3 DEF AcceptAgain

LEMMA DataDoneKeeps ==
  ASSUME SysInv, DataDone, ServerSees
  PROVE  ClientTyped' /\ Sync' /\ Granted'
<1>1. /\ wait = "data" /\ wait' = "recv" /\ job' = job /\ pos' = pos + 1
      /\ transferMode' = transferMode /\ tries' = tries /\ page' = page
      /\ toServer' = toServer /\ toClient' = toClient /\ merged' = merged
      /\ slip' = slip /\ dlink' \in Links /\ Busy
  BY DEF DataDone, Links, Busy
<1>2. at' = at /\ line' = line /\ out' = out
  BY <1>1, ClientIsSession
<1>3. /\ Awaited \in DataTitles /\ pos < Len(Steps(job, transferMode))
      /\ pos \in 1 .. Len(Steps(job, transferMode))
      /\ Steps(job, transferMode)[pos + 1] = "complete"
  BY <1>1, AwaitedFacts DEF SysInv, ClientTyped
<1>4. Awaited' = "complete"
  BY <1>1, <1>3 DEF Awaited
<1>5. Asked = Awaited /\ Asked' = Awaited
  <2>1. pos' - 1 = pos
    BY <1>1, <1>3
  <2>2. QED
    BY <1>1, <1>3, <1>4, <2>1 DEF Asked, Awaited, DataTitles
<1>6. ASSUME InStep PROVE InStep'
  <2>1. Transferring
    BY <1>1, <1>3, <1>6 DEF InStep, DataTitles
  <2>2. Transferring'
    BY <1>1, <1>2, <1>5, <2>1 DEF Transferring
  <2>3. QED
    BY <1>4, <2>2 DEF InStep
<1>7. /\ pos' \in 1 .. Len(Steps(job, transferMode)) /\ tries' \in 0 .. AcceptTries - 1
      /\ Asked' = Asked
  BY <1>1, <1>3, <1>5 DEF SysInv, ClientTyped, ClientTypeOK
<1>8. (Awaited = "greeting") <=> (Awaited' = "greeting")
  BY <1>3, <1>4 DEF DataTitles
<1>9. QED
  BY <1>1, <1>6, <1>7, <1>8, MoveKeeps

\* The operation is given up or raises, with a reply to come.
LEMMA FailKeeps ==
  ASSUME SysInv, ConnectRefused \/ DataFails, ServerSees
  PROVE  ClientTyped' /\ Sync' /\ Granted'
<1>1. /\ wait # "gone" /\ slip' = GivenUp /\ Raise(job) /\ transferMode' = transferMode
      /\ merged' = merged /\ toClient' = IF wait' = "gone" THEN <<>> ELSE toClient
  BY DEF ConnectRefused, DataFails, Left
<1>2. Framed /\ ~(slip' < 0)
  <2>1. <<>> \in Seq(Nat)
    OBVIOUS
  <2>2. QED
    BY <1>1, <2>1, FramedNow DEF Framed
<1>3. QED
  BY <1>1, <1>2, RaiseKeeps

LEMMA HangUpKeeps ==
  ASSUME SysInv, at = "exit", HangUp, ServerSees
  PROVE  ClientTyped' /\ Sync' /\ Granted'
<1>1. /\ wait = "recv" /\ toClient = <<>> /\ toClient' = toClient
      /\ transferMode' = transferMode /\ merged' = merged /\ slip' = slip
      /\ Return(job, FALSE) \/ Raise(job)
  BY DEF HangUp
<1>2. Framed /\ Quiet
  BY <1>1, FramedNow DEF Framed, Quiet
<1>3. QED
  BY <1>1, <1>2, ReturnKeeps, RaiseKeeps

LEMMA LeaveKeeps ==
  ASSUME SysInv, Leave, ServerSees
  PROVE  ClientTyped' /\ Sync' /\ Granted'
<1>1. /\ Vanish /\ toClient' = <<>> /\ transferMode' = transferMode
      /\ merged' = merged /\ slip' = slip
  BY DEF Leave, Left, Vanish
<1>2. Framed
  <2>1. <<>> \in Seq(Nat)
    OBVIOUS
  <2>2. QED
    BY <1>1, <2>1, FramedNow DEF Framed
<1>3. QED
  BY <1>1, <1>2, VanishKeeps

\* A task is begun between two operations.
LEMMA BeginKeeps ==
  ASSUME SysInv, NEW task \in Tasks, Begin(task), ServerSees
  PROVE  ClientTyped' /\ Sync' /\ Granted'
<1>1. /\ wait = "user" /\ slip < MaxLate
      /\ slip' = IF slip < 0 THEN slip ELSE slip + 1
      /\ toClient' = IF wait' = "gone" THEN <<>> ELSE toClient
      /\ merged' = merged
  BY DEF Begin, Left
<1>2. PICK mode \in Modes : transferMode' = mode /\ Enter(task, mode, 1)
  BY DEF Begin, Modes
<1>3. Framed
  <2>1. <<>> \in Seq(Nat)
    OBVIOUS
  <2>2. slip' \in -1 .. MaxLate
    BY <1>1, FramedNow, MaxLateAssumption
  <2>3. QED
    BY <1>1, <1>2, <2>1, <2>2, FramedNow DEF Framed
<1>4. slip' < 0 => slip < 0 /\ toClient = <<>> /\ Quiet
  BY <1>1, FramedNow DEF SysInv, Sync, IdleInSync, Quiet
<1>5. /\ task \in Operations /\ task # "login"
      /\ 1 \in 1 .. Len(Steps(task, mode)) /\ Steps(task, mode)[1] \notin Silent
  <2>1. task \in Operations /\ task # "login"
    BY DEF Operations, Tasks
  <2>2. WellFormed(Steps(task, mode), task)
    BY <2>1, StepFacts
  <2>3. QED
    BY <2>1, <2>2 DEF WellFormed, Silent
<1>6. QED
  BY <1>1, <1>2, <1>3, <1>4, <1>5, EnterKeeps

LEMMA ArriveKeeps ==
  ASSUME SysInv, Arrive
  PROVE  SysInv'
<1>1. /\ UNCHANGED vars
      /\ job' = job /\ pos' = pos /\ wait' = wait /\ transferMode' = transferMode
      /\ tries' = tries /\ page' = page /\ toServer' = toServer
      /\ toClient' = toClient /\ merged' = merged /\ slip' = slip
      /\ dlink' = "queued"
  BY DEF Arrive
<1>2. IInv'
  BY <1>1, NextKeeps DEF SysInv
<1>3. Awaited' = Awaited /\ Asked' = Asked
  BY <1>1 DEF Awaited, Asked
<1>4. ClientTyped' /\ Granted'
  BY <1>1, <1>3 DEF SysInv, ClientTyped, ClientTypeOK, Busy, Granted, vars
<1>5. Sync'
  BY <1>1, <1>3
     DEF SysInv, Sync, IdleInSync, AnswersOwn, Busy, InStep, Greeted, Commanded,
         Transferring, vars
<1>6. QED
  BY <1>2, <1>4, <1>5 DEF SysInv

LEMMA ClientStepKeeps ==
  ASSUME SysInv, ClientBegins \/ ClientStep \/ ClientLeaves
  PROVE  SysInv'
<1>1. ServerSees
  BY DEF ClientBegins, ClientStep, ClientLeaves
<1>2. IInv'
  BY <1>1, ClientIsSession, NextKeeps DEF SysInv
<1>3. CASE ClientBegins
  BY <1>1, <1>2, <1>3, BeginKeeps DEF ClientBegins, SysInv
<1>4. CASE ClientStep
  <2>1. \/ Receive \/ (at = "exit" /\ HangUp) \/ ConnectData \/ AcceptData
        \/ ConnectRefused \/ DataFails \/ AcceptAgain \/ DataDone
    BY <1>4 DEF ClientStep
  <2>2. ClientTyped' /\ Sync' /\ Granted'
    BY <1>1, <2>1, ReceiveKeeps, HangUpKeeps, ConnectDataKeeps, FailKeeps,
       AcceptAgainKeeps, DataDoneKeeps
  <2>3. QED
    BY <1>2, <2>2 DEF SysInv
<1>5. CASE ClientLeaves
  BY <1>1, <1>2, <1>5, LeaveKeeps DEF ClientLeaves, SysInv
<1>6. QED
  BY <1>3, <1>4, <1>5

-----------------------------------------------------------------------------
(* Theorems *)

LEMMA SysInitKeeps ==
  ASSUME SysInit
  PROVE  SysInv
<1>1. Init /\ ClientInit
  BY DEF SysInit
<1>2. IInv
  BY <1>1, InitKeeps
<1>3. /\ job = "login" /\ pos = 1 /\ wait = "recv" /\ transferMode = MODE_PASV
      /\ tries = 0 /\ page = "login" /\ toServer = <<>> /\ toClient = <<>>
      /\ dlink = "none" /\ merged = FALSE /\ slip = -1
      /\ at = "start" /\ line = "none" /\ peer = "up"
  BY <1>1 DEF Init, ClientInit
<1>4. Steps(job, transferMode) = login /\ Len(login) = 3 /\ login[1] = "greeting"
  BY <1>3 DEF Steps, login
<1>5. Awaited = "greeting"
  BY <1>3, <1>4 DEF Awaited
<1>6. toServer \in Seq(Commands) /\ toClient \in Seq(Nat) /\ Len(toServer) = 0 /\ Len(toClient) = 0
  BY <1>3
<1>7. ClientTypeOK
  <2>1. tries \in 0 .. AcceptTries - 1
    BY <1>3, AcceptTriesAssumption
  <2>2. slip \in -1 .. MaxLate
    BY <1>3, MaxLateAssumption
  <2>3. pos \in 0 .. 4 /\ pos \in 1 .. Len(Steps(job, transferMode))
    BY <1>3, <1>4
  <2>4. \A i \in 1 .. Len(toServer) : toServer[i][1] \in Titles
    BY <1>6
  <2>5. QED
    BY <1>3, <1>6, <2>1, <2>2, <2>3, <2>4 DEF ClientTypeOK
<1>8. ClientTyped
  BY <1>3, <1>6, <1>7 DEF ClientTyped, Operations
<1>9. Sync
  BY <1>3, <1>5 DEF Sync, IdleInSync, AnswersOwn, InStep, Greeted
<1>10. Granted
  BY <1>3, <1>6 DEF Granted
<1>11. QED
  BY <1>2, <1>8, <1>9, <1>10 DEF SysInv

LEMMA SysNextKeeps ==
  ASSUME SysInv, [SysNext]_sysVars
  PROVE  SysInv' /\ [Next]_vars
<1>1. CASE ServerStep
  <2>1. Next
    BY <1>1, ServerIsSession DEF SysInv
  <2>2. IInv'
    BY <2>1, NextKeeps DEF SysInv
  <2>3. QED
    BY <1>1, <2>1, <2>2, ServerStepKeeps DEF SysInv
<1>2. CASE ClientBegins \/ ClientStep \/ ClientLeaves
  <2>1. ServerSees
    BY <1>2 DEF ClientBegins, ClientStep, ClientLeaves
  <2>2. QED
    BY <1>2, <2>1, ClientIsSession, ClientStepKeeps
<1>3. CASE Arrive
  BY <1>3, ArriveKeeps DEF Arrive
<1>4. CASE UNCHANGED sysVars
  <2>1. UNCHANGED vars /\ UNCHANGED clientVars
    BY <1>4 DEF sysVars
  <2>2. IInv'
    BY <2>1, NextKeeps DEF SysInv
  <2>3. Awaited' = Awaited /\ Asked' = Asked
    BY <2>1 DEF clientVars, Awaited, Asked
  <2>4. ClientTyped' /\ Granted'
    BY <2>1, <2>3
       DEF SysInv, ClientTyped, ClientTypeOK, Busy, Granted, vars, clientVars
  <2>5. Sync'
    BY <2>1, <2>3
       DEF SysInv, Sync, IdleInSync, AnswersOwn, Busy, InStep, Greeted, Commanded,
           Transferring, vars, clientVars
  <2>6. QED
    BY <2>1, <2>2, <2>4, <2>5 DEF SysInv
<1>5. QED
  BY <1>1, <1>2, <1>3, <1>4 DEF SysNext

\* The inductive invariant holds in every state of the system.
THEOREM SystemInvariance == SysSpec => []SysInv
<1>1. SysInit => SysInv
  BY SysInitKeeps
<1>2. SysInv /\ [SysNext]_sysVars => SysInv'
  BY SysNextKeeps
<1>3. QED
  BY <1>1, <1>2, PTL DEF SysSpec

\* In the system, with a client that reads and writes as MyTFP does, the server
\* process is a session of FtpSession: what is proved of it there holds here.
THEOREM ServerIsASession == SysSpec => Spec
<1>1. SysInit => Init
  BY DEF SysInit
<1>2. SysInv /\ [SysNext]_sysVars => [Next]_vars
  BY SysNextKeeps
<1>3. QED
  BY <1>1, <1>2, SystemInvariance, PTL DEF SysSpec, Spec

\* The type of the client's variables.
THEOREM ClientTypeCorrect == SysSpec => []ClientTypeOK
<1>1. SysInv => ClientTypeOK
  BY DEF SysInv, ClientTyped
<1>2. QED
  BY <1>1, SystemInvariance, PTL

\* Between operations that were not given up, nothing is left on its way.
THEOREM InSyncWhenIdle == SysSpec => []IdleInSync
<1>1. SysInv => IdleInSync
  BY DEF SysInv, Sync, IdleInSync
<1>2. QED
  BY <1>1, SystemInvariance, PTL

\* No reply is taken for the answer to another command.
THEOREM RepliesAnswerTheirCommand == SysSpec => []AnswersOwn
<1>1. SysInv => AnswersOwn
  BY DEF SysInv, Sync, AnswersOwn, Busy
<1>2. QED
  BY <1>1, SystemInvariance, PTL

\* The main page is shown to a user who has logged in, and to no other.
THEOREM MainPageAfterLogin == SysSpec => []MainPageIsLoggedIn
<1>1. SysInv => MainPageIsLoggedIn
  BY DEF SysInv, Granted, MainPageIsLoggedIn
<1>2. QED
  BY <1>1, SystemInvariance, PTL
-----------------------------------------------------------------------------
(* Where the two programs wait for each other, and what a session is left with *)

ModeOf(mode) == IF mode = MODE_PASV THEN "PASSIVE" ELSE "INPORT"

\* Until its data command is answered, the client and the session have the
\* same mode; and a client that waits for that answer in passive mode has made
\* the connection which the server waits for.
Linked ==
  /\ slip < 0 /\ at # "exit"
  /\ wait \in {"connect", "recv"} /\ Awaited \in DataTitles
  /\ toServer # <<>> \/ at = "dial"
  => /\ ssn.rcvMode = ModeOf(transferMode)
     /\ wait = "recv" /\ transferMode = MODE_PASV => dlink = "queued"

\* A step that is to be followed by another is never the last of an operation
\* that ends: no selected mode, and no pending name, is just left behind.
Settled ==
  slip < 0 /\ wait = "user" /\ at = "read" =>
    /\ ~(line = "PASV" /\ out = <<227>>)
    /\ ~(line = "PORT" /\ out = <<200>>)
    /\ ~(line = "RNFR" /\ out = <<350>>)

WaitInv == SysInv /\ RepliesTell /\ Linked /\ Settled

\* A data command comes right after the selection of its mode, RNTO after RNFR.
Selects(S, mode) ==
  \A k \in 1 .. Len(S) :
    /\ S[k] \in DataTitles => k > 1 /\ S[k - 1] = Select(mode)
    /\ S[k] \in {"PASV", "PORT"} => k < Len(S) /\ S[k + 1] \in DataTitles
    /\ S[k] = "RNFR" => k < Len(S) /\ S[k + 1] = "RNTO"

LEMMA SelectShapes ==
  ASSUME NEW S, NEW mode,
         \/ /\ Len(S) = 4 /\ S[1] = Select(mode) /\ S[2] = "LIST"
            /\ S[3] = "complete" /\ S[4] = "PWD"
         \/ /\ Len(S) = 4 /\ S[1] = "REST" /\ S[2] = Select(mode)
            /\ S[3] = "RETR" /\ S[4] = "complete"
         \/ /\ Len(S) = 3 /\ S[1] = Select(mode) /\ S[2] = "STOR" /\ S[3] = "complete"
         \/ /\ Len(S) = 3 /\ S[1] = "greeting" /\ S[2] = "USER" /\ S[3] = "PASS"
         \/ /\ Len(S) = 2 /\ S[1] = "RNFR" /\ S[2] = "RNTO"
  PROVE  Selects(S, mode)
<1>1. Select(mode) \in {"PASV", "PORT"}
  BY DEF Select
<1>2. QED
  BY <1>1 DEF Selects, DataTitles

LEMMA SelectFacts ==
  ASSUME NEW task \in Operations, NEW mode \in Modes
  PROVE  Selects(Steps(task, mode), mode)
<1> DEFINE S == Steps(task, mode)
<1>0. Select(mode) \in {"PASV", "PORT"}
  BY DEF Select
<1>1. ASSUME NEW title \in {"QUIT", "CWD", "MKD", "DELE", "RMD"}, S = <<title>>
      PROVE  Selects(S, mode)
  BY <1>1 DEF Selects, DataTitles
<1>2. ASSUME task = "getList"
      PROVE  Selects(S, mode)
  <2>1. S = <<Select(mode), "LIST", "complete", "PWD">>
    BY <1>2 DEF Steps, getList
  <2> HIDE DEF S
  <2>2. /\ Len(S) = 4 /\ S[1] = Select(mode) /\ S[2] = "LIST"
        /\ S[3] = "complete" /\ S[4] = "PWD"
    BY <1>0, <2>1
  <2>3. QED
    BY <2>2, SelectShapes
<1>3. ASSUME task = "downloadFile"
      PROVE  Selects(S, mode)
  <2>1. S = <<"REST", Select(mode), "RETR", "complete">>
    BY <1>3 DEF Steps, downloadFile
  <2> HIDE DEF S
  <2>2. /\ Len(S) = 4 /\ S[1] = "REST" /\ S[2] = Select(mode)
        /\ S[3] = "RETR" /\ S[4] = "complete"
    BY <1>0, <2>1
  <2>3. QED
    BY <2>2, SelectShapes
<1>4. ASSUME task = "uploadFile"
      PROVE  Selects(S, mode)
  <2>1. S = <<Select(mode), "STOR", "complete">>
    BY <1>4 DEF Steps, uploadFile
  <2> HIDE DEF S
  <2>2. Len(S) = 3 /\ S[1] = Select(mode) /\ S[2] = "STOR" /\ S[3] = "complete"
    BY <1>0, <2>1
  <2>3. QED
    BY <2>2, SelectShapes
<1>5. ASSUME task = "login"
      PROVE  Selects(S, mode)
  <2>1. S = <<"greeting", "USER", "PASS">>
    BY <1>5 DEF Steps, login
  <2> HIDE DEF S
  <2>2. Len(S) = 3 /\ S[1] = "greeting" /\ S[2] = "USER" /\ S[3] = "PASS"
    BY <2>1
  <2>3. QED
    BY <2>2, SelectShapes
<1>6. ASSUME task = "rename"
      PROVE  Selects(S, mode)
  <2>1. S = <<"RNFR", "RNTO">>
    BY <1>6 DEF Steps, rename
  <2> HIDE DEF S
  <2>2. Len(S) = 2 /\ S[1] = "RNFR" /\ S[2] = "RNTO"
    BY <2>1
  <2>3. QED
    BY <2>2, SelectShapes
<1>7. ASSUME task \in {"logout", "changeDir", "makeDir", "deleteNode", "removeDir"}
      PROVE  Selects(S, mode)
  <2>1. \E title \in {"QUIT", "CWD", "MKD", "DELE", "RMD"} : S = <<title>>
    BY <1>7 DEF Steps, quit, sendCWD, sendMKD, sendDELE, sendRMD
  <2>2. QED
    BY <1>1, <2>1
<1>8. QED
  BY <1>2, <1>3, <1>4, <1>5, <1>6, <1>7 DEF Operations, Tasks

\* A handler that goes on to the data connection leaves the session as it was.
LEMMA LineDials ==
  ASSUME NEW title, NEW arg, ReadLine(title, arg), at' = "dial"
  PROVE  ssn' = ssn /\ out' = <<>>
<1>1. \A code, s, tab : /\ ~message_client(code, s, tab, "read")
                        /\ ~message_client(code, s, tab, "exit")
  BY DEF message_client, Exit
<1>2. \A code, s : ~Reply(code, s)
  BY <1>1 DEF Reply
<1>3. handle_command(title, arg)
  BY <1>2 DEF ReadLine
<1>4. OpenFile(arg) \/ cmd_list
  <2>1. /\ ~cmd_user(arg) /\ ~cmd_pass /\ ~cmd_rest /\ ~cmd_port
        /\ ~cmd_rnfr(arg) /\ ~cmd_rnto(arg) /\ ~cmd_syst /\ ~cmd_type(arg)
        /\ ~cmd_mkd /\ ~cmd_cwd /\ ~cmd_pwd /\ ~cmd_rmd /\ ~cmd_dele
    <3>1. ~cmd_user(arg) /\ ~cmd_pass
      BY <1>2, ZenonT(60) DEF cmd_user, cmd_pass
    <3>2. ~cmd_rest /\ ~cmd_port /\ ~cmd_rnfr(arg) /\ ~cmd_rnto(arg)
      <4>1. ~cmd_rest
        BY <1>2, ZenonT(60) DEF cmd_rest
      <4>2. ~cmd_port /\ ~cmd_rnfr(arg)
        BY <1>2, ZenonT(60) DEF cmd_port, cmd_rnfr
      <4>3. ~cmd_rnto(arg)
        BY <1>2 DEF cmd_rnto
      <4>4. QED
        BY <4>1, <4>2, <4>3
    <3>3. /\ ~cmd_syst /\ ~cmd_type(arg)
          /\ ~cmd_mkd /\ ~cmd_cwd /\ ~cmd_pwd /\ ~cmd_rmd /\ ~cmd_dele
      BY <1>2, ZenonT(60) DEF cmd_syst, cmd_type, cmd_mkd, cmd_cwd, cmd_pwd, cmd_rmd, cmd_dele
    <3>4. QED
      BY <3>1, <3>2, <3>3
  <2>2. ~cmd_quit /\ ~cmd_pasv
    BY <1>1, <1>2 DEF cmd_quit, cmd_pasv
  <2>3. QED
    BY <1>2, <1>3, <2>1, <2>2 DEF handle_command, cmd_retr, cmd_stor
<1>5. \E fd, tab : Dial(fd, tab)
  BY <1>1, <1>4 DEF OpenFile, cmd_list, FileRefused
<1>6. QED
  BY <1>5 DEF Dial

\* While the client waits for the answer to a data command, the two are in the
\* middle of that command.
LEMMA InDataCommand ==
  ASSUME SysInv, slip < 0, at # "exit", wait \in {"connect", "recv"},
         Awaited \in DataTitles
  PROVE  Commanded
BY DEF SysInv, Sync, Busy, InStep, DataTitles

LEMMA ServerStepWaits ==
  ASSUME WaitInv, ServerStep
  PROVE  Linked' /\ Settled'
<1>1. /\ job' = job /\ pos' = pos /\ wait' = wait /\ transferMode' = transferMode
      /\ slip' = slip /\ ClientSame
  BY DEF ServerStep, ServeGreeting, ServeCommand, ServeEnd, ServeAccept,
         ServeAcceptRefused, ServeConnect, ServeEndTransfer, ServeSigPipe, ClientSame
<1>2. Awaited' = Awaited
  BY <1>1 DEF Awaited
<1>3. wait # "gone" => peer = "up"
  BY DEF WaitInv, SysInv, ClientTyped
<1>4. ASSUME slip < 0, wait = "user"
      PROVE  at \in {"exit", "read"} /\ (at = "read" => toServer = <<>>)
  BY <1>4 DEF WaitInv, SysInv, Sync, IdleInSync
<1>5. /\ slip < 0 /\ at # "exit" /\ wait \in {"connect", "recv"} /\ Awaited \in DataTitles
      => at \in {"read", "dial", "xfer"} /\ (at # "read" => toServer = <<>>)
  BY InDataCommand DEF WaitInv, Commanded
<1>6. CASE ServeGreeting
  BY <1>1, <1>2, <1>4, <1>5, <1>6 DEF ServeGreeting, Welcome, Linked, Settled
<1>7. CASE ServeCommand
  <2>1. /\ toServer # <<>> /\ toServer' = <<>>
        /\ \E title, arg : ReadLine(title, arg)
        /\ dlink' = IF out' = <<227>> THEN "none" ELSE dlink
    BY <1>7 DEF ServeCommand
  <2>2. Settled'
    BY <1>1, <1>4, <2>1 DEF Settled, ReadLine
  <2>3. ASSUME slip' < 0, at' # "exit", wait' \in {"connect", "recv"},
               Awaited' \in DataTitles, at' = "dial"
        PROVE  /\ ssn'.rcvMode = ModeOf(transferMode')
               /\ wait' = "recv" /\ transferMode' = MODE_PASV => dlink' = "queued"
    <3>1. ssn' = ssn /\ out' = <<>>
      BY <2>1, <2>3, LineDials
    <3>2. slip < 0 /\ at = "read" /\ wait \in {"connect", "recv"} /\ Awaited \in DataTitles
      BY <1>1, <1>2, <2>1, <2>3 DEF ReadLine
    <3>3. dlink' = dlink
      BY <2>1, <3>1
    <3>4. QED
      BY <1>1, <2>1, <3>1, <3>2, <3>3 DEF WaitInv, Linked
  <2>4. QED
    BY <2>1, <2>2, <2>3 DEF Linked
<1>8. CASE ServeEnd
  BY <1>8 DEF ServeEnd, EndOfFile, Exit, Linked, Settled
<1>9. CASE ServeAccept \/ ServeAcceptRefused \/ ServeConnect \/ ServeEndTransfer \/ ServeSigPipe
  <2>1. /\ toServer' = toServer
        /\ Accept \/ AcceptRefused \/ Connect \/ EndTransfer \/ EndList \/ DataSigPipe
    BY <1>9 DEF ServeAccept, ServeAcceptRefused, ServeConnect, ServeEndTransfer,
                ServeSigPipe
  <2>2. peer = "up" => at \in {"dial", "xfer"} /\ at' # "dial"
    BY <2>1, ContinueReplies DEF WaitInv, SysInv, Continues
  <2>3. Linked'
    BY <1>1, <1>2, <1>3, <1>5, <2>1, <2>2 DEF Linked
  <2>4. Settled'
    BY <1>1, <1>3, <1>4, <2>2 DEF Settled
  <2>5. QED
    BY <2>3, <2>4
<1>10. QED
  BY <1>6, <1>7, <1>8, <1>9 DEF ServerStep

\* The answer to a selection comes with the mode that was asked for.
LEMMA SelectionAnswered ==
  ASSUME WaitInv, slip < 0, at # "exit", wait = "recv", toClient # <<>>,
         transferMode \in Modes, Awaited = Select(transferMode),
         toClient[1] = Expect(Awaited)
  PROVE  ssn.rcvMode = ModeOf(transferMode)
<1>1. Awaited = IF transferMode = MODE_PASV THEN "PASV" ELSE "PORT"
  BY DEF Select
<1>2. toClient[1] = IF transferMode = MODE_PASV THEN 227 ELSE 200
  BY <1>1 DEF Expect, DataTitles
<1>3. Commanded
  BY <1>1 DEF WaitInv, SysInv, Sync, Busy, InStep
<1>4. /\ line \in {Awaited, "OVERLONG"} /\ at \in {"read", "xfer"} /\ toClient = out
  BY <1>3 DEF Commanded
<1>5. ReplyDiscipline
  BY DEF WaitInv, SysInv, IInv, ReplyInv
<1>6. at = "read" /\ Len(out) = 1
  BY <1>2, <1>4, <1>5 DEF ReplyDiscipline
<1>7. PICK code \in Nat : out = <<code>> /\ Tells(line, code, ssn)
  BY <1>6 DEF WaitInv, RepliesTell
<1>8. code = IF transferMode = MODE_PASV THEN 227 ELSE 200
  BY <1>2, <1>4, <1>7
<1>9. QED
  BY <1>1, <1>4, <1>7, <1>8 DEF Tells, ModeOf

\* A step that is entered, by what it says.
LEMMA EnterWaits ==
  ASSUME NEW task, NEW mode, NEW k, transferMode' = mode, Enter(task, mode, k)
  PROVE  \/ /\ Awaited' = Steps(task, mode)[k]
            /\ wait' = IF Awaited' \in DataTitles /\ mode = MODE_PASV
                       THEN "connect" ELSE "recv"
         \/ Steps(task, mode)[k] = "PORT" /\ wait' \in {"user", "gone"}
BY DEF Enter, Raise, Return, Vanish, Awaited

LEMMA BeginWaits ==
  ASSUME WaitInv, NEW task \in Tasks, Begin(task), ServerSees
  PROVE  Linked' /\ Settled'
<1>1. wait = "user" /\ (slip' < 0 => slip < 0)
  <2>1. slip \in -1 .. MaxLate
    BY FramedNow DEF WaitInv
  <2>2. QED
    BY <2>1, MaxLateAssumption DEF Begin
<1>2. PICK mode \in Modes : transferMode' = mode /\ Enter(task, mode, 1)
  BY DEF Begin, Modes
<1>3. Steps(task, mode)[1] \notin DataTitles
  <2>1. task \in Operations
    BY DEF Operations
  <2>2. Selects(Steps(task, mode), mode) /\ WellFormed(Steps(task, mode), task)
    BY <2>1, SelectFacts, StepFacts
  <2>3. 1 \in 1 .. Len(Steps(task, mode))
    BY <2>2 DEF WellFormed
  <2>4. QED
    BY <2>2, <2>3 DEF Selects
<1>4. at' = at /\ line' = line /\ out' = out
  BY ClientIsSession
<1>5. Linked'
  BY <1>2, <1>3, EnterWaits DEF Linked
<1>6. Settled'
  BY <1>1, <1>4 DEF WaitInv, Settled
<1>7. QED
  BY <1>5, <1>6

LEMMA ReceiveWaits ==
  ASSUME WaitInv, Receive, ServerSees
  PROVE  Linked' /\ Settled'
<1> DEFINE S == Steps(job, transferMode)
<1>1. /\ wait = "recv" /\ toClient # <<>> /\ transferMode' = transferMode
      /\ slip' = slip /\ Busy
  BY DEF Receive, Busy
<1>2. at' = at /\ line' = line /\ ssn' = ssn /\ out' = out
  BY ClientIsSession
<1>3. /\ job \in Operations /\ transferMode \in Modes /\ pos \in 1 .. Len(S)
      /\ Awaited = S[pos]
  BY <1>1, AwaitedFacts DEF WaitInv, Awaited
<1>4. Selects(S, transferMode)
  BY <1>3, SelectFacts
<1> HIDE DEF S
<1>5. Linked'
  <2> SUFFICES ASSUME slip' < 0, at' # "exit", wait' \in {"connect", "recv"},
                      Awaited' \in DataTitles
               PROVE  /\ ssn'.rcvMode = ModeOf(transferMode')
                      /\ ~(wait' = "recv" /\ transferMode' = MODE_PASV)
    BY DEF Linked
  <2>1. /\ toClient[1] = Expect(Awaited) /\ pos < Len(S)
        /\ Enter(job, transferMode, pos + 1)
    BY DEF Receive, Return, S
  <2>2. /\ Awaited' = S[pos + 1]
        /\ wait' = IF transferMode = MODE_PASV THEN "connect" ELSE "recv"
    BY <1>1, <2>1, EnterWaits DEF S
  <2>3. Awaited = Select(transferMode)
    <3>1. pos + 1 \in 1 .. Len(S) /\ (pos + 1) - 1 = pos
      BY <1>3, <2>1
    <3>2. QED
      BY <1>3, <1>4, <2>2, <3>1 DEF Selects
  <2>4. ssn.rcvMode = ModeOf(transferMode)
    BY <1>1, <1>2, <1>3, <2>1, <2>3, SelectionAnswered
  <2>5. QED
    BY <1>1, <1>2, <2>2, <2>4
<1>6. Settled'
  <2> SUFFICES ASSUME slip' < 0, wait' = "user", at' = "read",
                      \/ line = "PASV" /\ out = << 227 >>
                      \/ line = "PORT" /\ out = << 200 >>
                      \/ line = "RNFR" /\ out = << 350 >>
               PROVE  FALSE
    BY <1>2 DEF Settled
  <2>1. InStep /\ at = "read"
    BY <1>1, <1>2 DEF WaitInv, SysInv, Sync
  <2>2. line = Asked
    BY <1>1 DEF WaitInv, SysInv, Sync, AnswersOwn
  <2>3. Awaited # "complete"
    <3>1. ASSUME Awaited = "complete"
          PROVE  Asked \in DataTitles
      <4>1. WellFormed(S, job)
        BY <1>3, StepFacts DEF S
      <4>2. QED
        BY <1>3, <3>1, <4>1 DEF WellFormed, Asked, S
    <3>2. QED
      BY <2>2, <3>1 DEF DataTitles
  <2>4. Awaited = line /\ toClient = out
    BY <1>1, <2>1, <2>2, <2>3 DEF Asked, InStep, Greeted, Commanded
  <2>5. toClient[1] = Expect(Awaited) /\ Awaited \notin DataTitles
    BY <2>4 DEF Expect, DataTitles, Silent
  <2>6. pos < Len(S) /\ S[pos + 1] # "PORT"
    BY <1>3, <1>4, <2>4 DEF Selects, DataTitles
  <2>7. Enter(job, transferMode, pos + 1)
    BY <2>3, <2>5, <2>6 DEF Receive, S
  <2>8. wait' \in {"connect", "recv"}
    BY <1>1, <2>6, <2>7, EnterWaits DEF S
  <2>9. QED
    BY <2>8
<1>7. QED
  BY <1>5, <1>6

\* The other steps of the client take no reply and say nothing.
LEMMA ClientStepWaits ==
  ASSUME WaitInv, ClientBegins \/ ClientStep \/ ClientLeaves
  PROVE  Linked' /\ Settled'
<1>1. ServerSees
  BY DEF ClientBegins, ClientStep, ClientLeaves
<1>2. at' = at /\ line' = line /\ ssn' = ssn /\ out' = out
  BY <1>1, ClientIsSession
<1>3. slip \in -1 .. MaxLate /\ GivenUp \in 0 .. MaxLate
  BY FramedNow DEF WaitInv
<1>4. CASE ClientBegins
  BY <1>1, <1>4, BeginWaits DEF ClientBegins
<1>5. CASE Receive
  BY <1>1, <1>5, ReceiveWaits
<1>6. CASE at = "exit" /\ HangUp
  BY <1>2, <1>6 DEF Linked, Settled
<1>7. CASE ConnectData
  <2>1. /\ wait = "connect" /\ wait' = "recv" /\ dlink' = "queued" /\ slip' = slip
        /\ transferMode' = transferMode /\ toServer' = toServer
        /\ job' = job /\ pos' = pos
    BY <1>7 DEF ConnectData
  <2>2. Awaited' = Awaited
    BY <2>1 DEF Awaited
  <2>3. QED
    BY <1>2, <2>1, <2>2 DEF WaitInv, Linked, Settled
<1>8. CASE AcceptData
  BY <1>8 DEF AcceptData, Linked, Settled
<1>9. CASE ConnectRefused \/ DataFails
  <2>1. ~(slip' < 0)
    BY <1>3, <1>9 DEF ConnectRefused, DataFails
  <2>2. QED
    BY <2>1 DEF Linked, Settled
<1>10. CASE AcceptAgain
  <2>1. slip' = GivenUp \/ wait' = "accept"
    BY <1>10 DEF AcceptAgain
  <2>2. ~(slip' < 0) \/ wait' = "accept"
    BY <1>3, <2>1
  <2>3. QED
    BY <2>2 DEF Linked, Settled
<1>11. CASE DataDone
  <2>1. /\ wait = "data" /\ wait' = "recv" /\ job' = job /\ pos' = pos + 1
        /\ transferMode' = transferMode
    BY <1>11 DEF DataDone
  <2>2. Awaited \in DataTitles /\ Busy
    BY <2>1 DEF WaitInv, SysInv, ClientTyped, Busy
  <2>3. Awaited' = "complete"
    BY <2>1, <2>2, AwaitedFacts DEF WaitInv, Awaited
  <2>4. QED
    BY <2>1, <2>3 DEF Linked, Settled, DataTitles
<1>12. CASE ClientLeaves
  BY <1>12 DEF ClientLeaves, Leave, Vanish, Linked, Settled
<1>13. QED
  BY <1>4, <1>5, <1>6, <1>7, <1>8, <1>9, <1>10, <1>11, <1>12 DEF ClientStep

LEMMA WaitNext ==
  ASSUME WaitInv, [SysNext]_sysVars
  PROVE  WaitInv'
<1>1. SysInv' /\ [Next]_vars
  BY SysNextKeeps DEF WaitInv
<1>2. RepliesTell'
  BY <1>1, TellNext DEF WaitInv, SysInv, TellInv
<1>3. CASE ServerStep
  BY <1>1, <1>2, <1>3, ServerStepWaits DEF WaitInv
<1>4. CASE ClientBegins \/ ClientStep \/ ClientLeaves
  BY <1>1, <1>2, <1>4, ClientStepWaits DEF WaitInv
<1>5. CASE Arrive \/ UNCHANGED sysVars
  <2>1. /\ at' = at /\ line' = line /\ ssn' = ssn /\ out' = out
        /\ job' = job /\ pos' = pos /\ wait' = wait /\ transferMode' = transferMode
        /\ slip' = slip /\ toServer' = toServer /\ dlink' \in {dlink, "queued"}
    BY <1>5 DEF Arrive, vars, sysVars, clientVars
  <2>2. Awaited' = Awaited
    BY <2>1 DEF Awaited
  <2>3. Linked' /\ Settled'
    BY <2>1, <2>2 DEF WaitInv, Linked, Settled
  <2>4. QED
    BY <1>1, <1>2, <2>3 DEF WaitInv
<1>6. QED
  BY <1>3, <1>4, <1>5 DEF SysNext

\* The invariant that ties the client's mode to the session's, in every state.
THEOREM WaitInvariance == SysSpec => []WaitInv
<1>1. SysInit => WaitInv
  <2> SUFFICES ASSUME SysInit PROVE WaitInv
    OBVIOUS
  <2>1. SysInv
    BY SysInitKeeps
  <2>2. at = "start" /\ Free(ssn) /\ wait = "recv" /\ toServer = <<>>
    BY DEF SysInit, Init, ClientInit, new_session, Free
  <2>3. QED
    BY <2>1, <2>2 DEF WaitInv, RepliesTell, Linked, Settled
<1>2. WaitInv /\ [SysNext]_sysVars => WaitInv'
  BY WaitNext
<1>3. QED
  BY <1>1, <1>2, PTL DEF SysSpec

\* The client and the server never wait for each other, unless one recv() has
\* taken the 226 with the 150 or an operation has been given up.
THEOREM NoMutualWait == SysSpec => []StarvedOnlyIfMerged
<1>1. WaitInv => StarvedOnlyIfMerged
  <2> SUFFICES ASSUME WaitInv, Starved, ~merged, ~(slip >= 0)
               PROVE  FALSE
    BY DEF StarvedOnlyIfMerged
  <2>1. slip < 0
    BY FramedNow DEF WaitInv
  <2>2. /\ wait = "recv" /\ toClient = <<>> /\ toServer = <<>>
        /\ at \in {"read", "dial"}
        /\ at = "dial" => ssn.rcvMode = "PASSIVE" /\ dlink = "none"
    BY DEF Starved
  <2>3. InStep
    BY <2>1, <2>2 DEF WaitInv, SysInv, Sync, Busy
  <2>4. Commanded
    BY <2>2, <2>3 DEF InStep, Greeted, Transferring
  <2>5. /\ at = "dial" \/ out = <<>>
        /\ line \in {Awaited, "OVERLONG"}
    BY <2>2, <2>4 DEF Commanded
  <2>6. at = "dial" /\ line \in DataCmds
    BY <2>2, <2>5 DEF WaitInv, SysInv, IInv, ReplyInv, ReplyDiscipline
  <2>7. Awaited \in DataTitles
    BY <2>5, <2>6 DEF DataCmds, DataTitles
  <2>8. ssn.rcvMode = ModeOf(transferMode) /\ (transferMode = MODE_PASV => dlink = "queued")
    BY <2>1, <2>2, <2>6, <2>7 DEF WaitInv, Linked
  <2>9. QED
    BY <2>2, <2>6, <2>8 DEF ModeOf
<1>2. QED
  BY <1>1, WaitInvariance, PTL

\* Between operations a mode is selected, or a name pending, only after an
\* answer that told the user so.
THEOREM SessionReadyWhenIdle == SysSpec => []WedgedOnlyByFailure
<1>1. WaitInv => WedgedOnlyByFailure
  <2> SUFFICES ASSUME WaitInv, wait = "user", slip < 0, at = "read"
               PROVE  /\ ssn.rcvMode # "NOMODE" => out[Len(out)] \in {426, 452, 500, 503}
                      /\ ssn.rnfrName # NULL => out[Len(out)] \in {550, 500, 503}
    BY DEF WedgedOnlyByFailure
  <2>1. CASE Free(ssn)
    BY <2>1 DEF Free
  <2>2. ASSUME NEW code \in Nat, out = <<code>>, Tells(line, code, ssn)
        PROVE  /\ ssn.rcvMode # "NOMODE" => out[Len(out)] \in {426, 452, 500, 503}
               /\ ssn.rnfrName # NULL => out[Len(out)] \in {550, 500, 503}
    <3>1. out[Len(out)] = code
      BY <2>2
    <3>2. QED
      BY <2>2, <3>1 DEF WaitInv, Settled, Tells
  <2>3. QED
    BY <2>1, <2>2 DEF WaitInv, RepliesTell
<1>2. QED
  BY <1>1, WaitInvariance, PTL
=============================================================================
