------------------------ MODULE FtpSessionRefinement ------------------------
(***************************************************************************)
(* FtpSession implements FtpProtocol, and loses descriptors only with an   *)
(* error reply: the two step properties of Session.cfg, proved from the    *)
(* inductive invariant of FtpSessionProofs.                                *)
(***************************************************************************)
EXTENDS FtpSessionProofs

-----------------------------------------------------------------------------
(* How a change of the Session struct maps to FtpProtocol *)

SameLogin(s) == s.authStage = ssn.authStage
SameMode(s) == s.rcvMode # "NOMODE" <=> ssn.rcvMode # "NOMODE"
SameRename(s) == s.rnfrName # NULL <=> ssn.rnfrName # NULL

\* The change from ssn to s is one step of FtpProtocol, or none.
Moves(s) ==
  \/ SameLogin(s) /\ SameMode(s) /\ SameRename(s)
  \/ /\ ssn.authStage \in {0, 1} /\ s.authStage = ssn.authStage + 1
     /\ SameMode(s) /\ SameRename(s)
  \/ /\ ssn.authStage = 2 /\ ssn.rcvMode = "NOMODE" /\ ssn.rnfrName = NULL
     /\ s.rcvMode # "NOMODE"
     /\ SameLogin(s) /\ SameRename(s)
  \/ /\ ssn.authStage = 2 /\ ssn.rcvMode # "NOMODE"
     /\ s.rcvMode = "NOMODE"
     /\ SameLogin(s) /\ SameRename(s)
  \/ /\ ssn.authStage = 2 /\ ssn.rcvMode = "NOMODE" /\ ssn.rnfrName = NULL
     /\ s.rnfrName # NULL
     /\ SameLogin(s) /\ SameMode(s)
  \/ /\ ssn.rnfrName # NULL
     /\ s.rnfrName = NULL
     /\ SameLogin(s) /\ SameMode(s)

ProtocolStep == [Protocol!PNext]_Protocol!pvars

\* The end of the process is the disconnection of the protocol.
LEMMA ExitDisconnects ==
  ASSUME at # "exit", at' = "exit", SameLogin(ssn'), SameMode(ssn'), SameRename(ssn')
  PROVE  ProtocolStep
<1>1. Protocol!Disconnect
  BY DEF Protocol!Disconnect, SameLogin, SameMode, SameRename
<1>2. QED
  BY <1>1 DEF ProtocolStep, Protocol!PNext

\* A step that keeps the process running and moves the session.
LEMMA MovesStep ==
  ASSUME at # "exit", at' # "exit", Moves(ssn')
  PROVE  ProtocolStep
<1> USE DEF SameLogin, SameMode, SameRename
<1>1. CASE SameLogin(ssn') /\ SameMode(ssn') /\ SameRename(ssn')
  BY <1>1 DEF ProtocolStep, Protocol!pvars
<1>2. CASE /\ ssn.authStage \in {0, 1} /\ ssn'.authStage = ssn.authStage + 1
           /\ SameMode(ssn') /\ SameRename(ssn')
  <2>1. Protocol!LogIn
    BY <1>2 DEF Protocol!LogIn
  <2>2. QED
    BY <2>1 DEF ProtocolStep, Protocol!PNext
<1>3. CASE /\ ssn.authStage = 2 /\ ssn.rcvMode = "NOMODE" /\ ssn.rnfrName = NULL
           /\ ssn'.rcvMode # "NOMODE"
           /\ SameLogin(ssn') /\ SameRename(ssn')
  <2>1. Protocol!SelectMode
    BY <1>3 DEF Protocol!SelectMode
  <2>2. QED
    BY <2>1 DEF ProtocolStep, Protocol!PNext
<1>4. CASE /\ ssn.authStage = 2 /\ ssn.rcvMode # "NOMODE"
           /\ ssn'.rcvMode = "NOMODE"
           /\ SameLogin(ssn') /\ SameRename(ssn')
  <2>1. Protocol!UseMode
    BY <1>4 DEF Protocol!UseMode
  <2>2. QED
    BY <2>1 DEF ProtocolStep, Protocol!PNext
<1>5. CASE /\ ssn.authStage = 2 /\ ssn.rcvMode = "NOMODE" /\ ssn.rnfrName = NULL
           /\ ssn'.rnfrName # NULL
           /\ SameLogin(ssn') /\ SameMode(ssn')
  <2>1. Protocol!RenameFrom
    BY <1>5 DEF Protocol!RenameFrom
  <2>2. QED
    BY <2>1 DEF ProtocolStep, Protocol!PNext
<1>6. CASE /\ ssn.rnfrName # NULL
           /\ ssn'.rnfrName = NULL
           /\ SameLogin(ssn') /\ SameMode(ssn')
  <2>1. Protocol!RenameTo
    BY <1>6 DEF Protocol!RenameTo
  <2>2. QED
    BY <2>1 DEF ProtocolStep, Protocol!PNext
<1>7. QED
  BY <1>1, <1>2, <1>3, <1>4, <1>5, <1>6 DEF Moves

\* A reply that moves the session.
LEMMA MessageMoves ==
  ASSUME at # "exit", NEW code, NEW s, NEW tab, NEW next, next # "exit",
         Moves(s), message_client(code, s, tab, next)
  PROVE  ProtocolStep
<1>1. CASE Exit
  BY <1>1, ExitDisconnects DEF Exit, SameLogin, SameMode, SameRename
<1>2. CASE ~Exit
  BY <1>2, MovesStep DEF message_client
<1>3. QED
  BY <1>1, <1>2

LEMMA Stays == Moves(ssn)
BY DEF Moves, SameLogin, SameMode, SameRename

\* A step that changes neither the session nor its being served.
LEMMA StayStep ==
  ASSUME ssn' = ssn, at # "exit", at' # "exit"
  PROVE  ProtocolStep
BY Stays, MovesStep

-----------------------------------------------------------------------------
(* Command handlers *)

LEMMA LoginMoves ==
  ASSUME IInv, at = "read", NEW arg,
         \/ cmd_user(arg)
         \/ cmd_pass
  PROVE  ProtocolStep
<1>1. ssn \in Sessions
  BY DEF IInv, TypeOK
<1>2. ASSUME NEW code, Reply(code, ssn)
      PROVE  ProtocolStep
  BY <1>2, Stays, MessageMoves DEF Reply
<1>3. ASSUME NEW code, NEW stage \in {CONNECTED, USERNAME_OK, PASSWORD_OK},
             \/ stage = ssn.authStage
             \/ ssn.authStage \in {0, 1} /\ stage = ssn.authStage + 1,
             Reply(code, [ssn EXCEPT !.authStage = stage])
      PROVE  ProtocolStep
  <2> DEFINE s == [ssn EXCEPT !.authStage = stage]
  <2>1. message_client(code, s, fdtab, "read")
    BY <1>3 DEF Reply
  <2>2. s.authStage = stage /\ s.rcvMode = ssn.rcvMode /\ s.rnfrName = ssn.rnfrName
    BY <1>1 DEF Sessions
  <2> HIDE DEF s
  <2>3. Moves(s)
    BY <1>3, <2>2 DEF Moves, SameLogin, SameMode, SameRename
  <2>4. QED
    BY <2>1, <2>3, MessageMoves
<1>4. ssn.authStage \in {CONNECTED, USERNAME_OK, PASSWORD_OK}
  BY <1>1 DEF Sessions
<1>5. CASE cmd_user(arg)
  BY <1>2, <1>3, <1>4, <1>5 DEF cmd_user, CONNECTED, USERNAME_OK, PASSWORD_OK
<1>6. CASE cmd_pass
  BY <1>2, <1>3, <1>4, <1>6 DEF cmd_pass, CONNECTED, USERNAME_OK, PASSWORD_OK
<1>7. QED
  BY <1>5, <1>6

LEMMA SettingMoves ==
  ASSUME IInv, at = "read", NEW arg, ssn.authStage = PASSWORD_OK,
         \/ (cmd_port \/ cmd_pasv) /\ ssn.rnfrName = NULL
         \/ cmd_rest
         \/ cmd_rnfr(arg) /\ ssn.rcvMode = "NOMODE" /\ ssn.rnfrName = NULL
         \/ cmd_rnto(arg)
  PROVE  ProtocolStep
<1>1. ssn \in Sessions
  BY DEF IInv, TypeOK
<1>2. ASSUME NEW code, Reply(code, ssn)
      PROVE  ProtocolStep
  BY <1>2, Stays, MessageMoves DEF Reply
<1>3. CASE cmd_port /\ ssn.rnfrName = NULL
  <2> DEFINE s == [ssn EXCEPT !.rcvMode = "INPORT"]
  <2>1. \/ Reply(502, ssn)
        \/ message_client(200, s, fdtab, "read") /\ ssn.rcvMode = "NOMODE"
    BY <1>3 DEF cmd_port, Reply
  <2>2. /\ s.authStage = ssn.authStage /\ s.rcvMode = "INPORT"
        /\ s.rnfrName = ssn.rnfrName
    BY <1>1 DEF Sessions
  <2> HIDE DEF s
  <2>3. ssn.rcvMode = "NOMODE" => Moves(s)
    BY <1>3, <2>2 DEF Moves, SameLogin, SameMode, SameRename, PASSWORD_OK
  <2>4. QED
    BY <1>2, <2>1, <2>3, MessageMoves
<1>4. CASE cmd_pasv /\ ssn.rnfrName = NULL
  <2>1. ASSUME NEW code, NEW fd, NEW tab, ssn.rcvMode = "NOMODE",
               message_client(code, Listening(fd), tab, "read")
        PROVE  ProtocolStep
    <3>1. /\ Listening(fd).authStage = ssn.authStage
          /\ Listening(fd).rcvMode = "PASSIVE"
          /\ Listening(fd).rnfrName = ssn.rnfrName
      BY <1>1 DEF Listening, Sessions
    <3>2. Moves(Listening(fd))
      BY <1>4, <2>1, <3>1 DEF Moves, SameLogin, SameMode, SameRename, PASSWORD_OK
    <3>3. QED
      BY <2>1, <3>2, MessageMoves
  <2>2. QED
    BY <1>2, <1>4, <2>1 DEF cmd_pasv
<1>5. CASE cmd_rest
  <2> DEFINE s(pos) == [ssn EXCEPT !.currentPos = pos]
  <2>1. PICK pos \in Offsets : message_client(350, s(pos), fdtab, "read")
    BY <1>5 DEF cmd_rest, Reply
  <2>2. /\ s(pos).authStage = ssn.authStage /\ s(pos).rcvMode = ssn.rcvMode
        /\ s(pos).rnfrName = ssn.rnfrName
    BY <1>1 DEF Sessions
  <2> HIDE DEF s
  <2>3. Moves(s(pos))
    BY <2>2 DEF Moves, SameLogin, SameMode, SameRename
  <2>4. QED
    BY <2>1, <2>3, MessageMoves
<1>6. ASSUME NEW code, NEW name \in {NULL, "set"},
             \/ name = NULL /\ ssn.rnfrName # NULL
             \/ name # NULL /\ ssn.rcvMode = "NOMODE" /\ ssn.rnfrName = NULL,
             Reply(code, [ssn EXCEPT !.rnfrName = name])
      PROVE  ProtocolStep
  <2> DEFINE s == [ssn EXCEPT !.rnfrName = name]
  <2>1. message_client(code, s, fdtab, "read")
    BY <1>6 DEF Reply
  <2>2. /\ s.authStage = ssn.authStage /\ s.rcvMode = ssn.rcvMode
        /\ s.rnfrName = name
    BY <1>1 DEF Sessions
  <2> HIDE DEF s
  <2>3. Moves(s)
    BY <1>6, <2>2 DEF Moves, SameLogin, SameMode, SameRename, PASSWORD_OK
  <2>4. QED
    BY <2>1, <2>3, MessageMoves
<1>7. CASE cmd_rnfr(arg) /\ ssn.rcvMode = "NOMODE" /\ ssn.rnfrName = NULL
  <2>1. "set" # NULL
    BY DEF NULL
  <2>2. QED
    BY <1>2, <1>6, <1>7, <2>1 DEF cmd_rnfr
<1>8. CASE cmd_rnto(arg)
  BY <1>2, <1>6, <1>8 DEF cmd_rnto
<1>9. QED
  BY <1>3, <1>4, <1>5, <1>7, <1>8

LEMMA DataMoves ==
  ASSUME IInv, at = "read", NEW arg, ssn.authStage = PASSWORD_OK,
         ssn.rcvMode # "NOMODE",
         OpenFile(arg) \/ cmd_list
  PROVE  ProtocolStep
<1>1. ssn \in Sessions
  BY DEF IInv, TypeOK
<1>2. ASSUME NEW tab, FileRefused(tab)
      PROVE  ProtocolStep
  <2> DEFINE s == [ssn EXCEPT !.rcvMode = "NOMODE"]
  <2>1. message_client(551, s, tab, "read")
    BY <1>2 DEF FileRefused
  <2>2. /\ s.authStage = ssn.authStage /\ s.rcvMode = "NOMODE"
        /\ s.rnfrName = ssn.rnfrName
    BY <1>1 DEF Sessions
  <2> HIDE DEF s
  <2>3. Moves(s)
    BY <2>2 DEF Moves, SameLogin, SameMode, SameRename, PASSWORD_OK
  <2>4. QED
    BY <2>1, <2>3, MessageMoves
<1>3. ASSUME NEW fd, NEW tab, Dial(fd, tab)
      PROVE  ProtocolStep
  BY <1>3, StayStep DEF Dial
<1>4. QED
  BY <1>2, <1>3 DEF OpenFile, cmd_list

LEMMA QuitMoves ==
  ASSUME IInv, at = "read", cmd_quit
  PROVE  ProtocolStep
<1>1. CASE Exit
  BY <1>1, ExitDisconnects DEF Exit, SameLogin, SameMode, SameRename
<1>2. CASE ~Exit
  <2>1. ssn \in Sessions
    BY DEF IInv, TypeOK
  <2>2. /\ at' = "exit"
        /\ ssn'.authStage = ssn.authStage /\ ssn'.rcvMode = ssn.rcvMode
        /\ ssn'.rnfrName = ssn.rnfrName
    BY <1>2, <2>1 DEF cmd_quit, message_client, Sessions
  <2>3. QED
    BY <2>2, ExitDisconnects DEF SameLogin, SameMode, SameRename
<1>3. QED
  BY <1>1, <1>2

LEMMA HandleCommandMoves ==
  ASSUME IInv, at = "read", NEW title \in Titles, NEW arg,
         handle_command(title, arg)
  PROVE  ProtocolStep
<1>1. ASSUME NEW code, Reply(code, ssn)
      PROVE  ProtocolStep
  BY <1>1, Stays, MessageMoves DEF Reply
<1>2. CASE check_stage(title) # 0
  BY <1>1, <1>2 DEF handle_command
<1>3. CASE check_stage(title) = 0 /\ title = "QUIT"
  BY <1>3, QuitMoves DEF handle_command
<1>4. CASE check_stage(title) = 0 /\ title = "ABOR"
  BY <1>1, <1>4 DEF handle_command
<1>5. CASE check_stage(title) = 0 /\ title \notin {"QUIT", "ABOR"}
  <2>1. ~NotLoggedIn(title) /\ ~OutOfOrder(title) /\ title \in CmdList
    BY <1>5 DEF check_stage
  <2>2. CASE title \in {"USER", "PASS"}
    <3>1. cmd_user(arg) \/ cmd_pass
      BY <1>5, <2>2 DEF handle_command
    <3>2. QED
      BY <3>1, LoginMoves
  <2>3. CASE title \notin {"USER", "PASS"}
    <3>1. ssn.authStage = PASSWORD_OK
      BY <2>1, <2>3 DEF NotLoggedIn, IInv, TypeOK, Sessions
    <3>2. /\ title \in DataCmds <=> ssn.rcvMode # "NOMODE"
          /\ title # "RNTO" => ssn.rnfrName = NULL
      BY <2>1 DEF OutOfOrder
    <3>3. CASE title \in DataCmds
      <4>1. OpenFile(arg) \/ cmd_list
        BY <1>5, <3>3 DEF handle_command, DataCmds, cmd_retr, cmd_stor
      <4>2. QED
        BY <3>1, <3>2, <3>3, <4>1, DataMoves
    <3>4. CASE title \in {"PORT", "PASV", "REST", "RNFR", "RNTO"}
      <4>1. \/ (cmd_port \/ cmd_pasv) /\ ssn.rnfrName = NULL
            \/ cmd_rest
            \/ cmd_rnfr(arg) /\ ssn.rcvMode = "NOMODE" /\ ssn.rnfrName = NULL
            \/ cmd_rnto(arg)
        BY <1>5, <3>2, <3>4 DEF handle_command, DataCmds
      <4>2. QED
        BY <3>1, <4>1, SettingMoves
    <3>5. CASE title \in {"SYST", "TYPE", "MKD", "CWD", "PWD", "RMD", "DELE"}
      <4>1. \E code \in Nat : Reply(code, ssn)
        BY <1>5, <3>5
           DEF handle_command, cmd_syst, cmd_type, cmd_mkd, cmd_cwd, cmd_pwd,
               cmd_rmd, cmd_dele
      <4>2. QED
        BY <1>1, <4>1
    <3>6. QED
      BY <1>5, <2>1, <2>3, <3>3, <3>4, <3>5 DEF CmdList, DataCmds
  <2>4. QED
    BY <2>2, <2>3
<1>6. QED
  BY <1>2, <1>3, <1>4, <1>5

-----------------------------------------------------------------------------
(* Steps *)

LEMMA DialFailsMoves ==
  ASSUME IInv, at = "dial", NEW tab, DialFails(tab)
  PROVE  ProtocolStep
<1> DEFINE s == [ssn EXCEPT !.datafd = NoFd]
<1>1. message_client(426, s, tab, "read")
  BY DEF DialFails
<1>2. /\ s.authStage = ssn.authStage /\ s.rcvMode = ssn.rcvMode
      /\ s.rnfrName = ssn.rnfrName
  BY DEF IInv, TypeOK, Sessions
<1> HIDE DEF s
<1>3. Moves(s)
  BY <1>2 DEF Moves, SameLogin, SameMode, SameRename
<1>4. QED
  BY <1>1, <1>3, MessageMoves

LEMMA DialWorksMoves ==
  ASSUME IInv, at = "dial", NEW f, DialWorks(f)
  PROVE  ProtocolStep
<1> DEFINE s == [ssn EXCEPT !.datafd = f]
<1>1. message_client(150, s, Opened(f, "data"), "xfer")
  BY DEF DialWorks
<1>2. /\ s.authStage = ssn.authStage /\ s.rcvMode = ssn.rcvMode
      /\ s.rnfrName = ssn.rnfrName
  BY DEF IInv, TypeOK, Sessions
<1> HIDE DEF s
<1>3. Moves(s)
  BY <1>2 DEF Moves, SameLogin, SameMode, SameRename
<1>4. QED
  BY <1>1, <1>3, MessageMoves

LEMMA FinishMoves ==
  ASSUME IInv, at = "xfer", NEW code, NEW tab, Finish(code, tab)
  PROVE  ProtocolStep
<1>1. message_client(code, TransferOver, Closed(tab, TransferFds), "read")
  BY DEF Finish
<1>2. ssn.authStage = 2
  BY ModeAfterLogin DEF PASSWORD_OK
<1>3. /\ TransferOver.authStage = ssn.authStage
      /\ TransferOver.rcvMode = "NOMODE"
      /\ TransferOver.rnfrName = ssn.rnfrName
  BY DEF IInv, TypeOK, Sessions, TransferOver
<1> HIDE DEF TransferOver
<1>4. Moves(TransferOver)
  BY <1>2, <1>3 DEF Moves, SameLogin, SameMode, SameRename
<1>5. QED
  BY <1>1, <1>4, MessageMoves

LEMMA NextMoves ==
  ASSUME IInv, [Next]_vars
  PROVE  ProtocolStep
<1>1. ASSUME at # "exit", Exit
      PROVE  ProtocolStep
  BY <1>1, ExitDisconnects DEF Exit, SameLogin, SameMode, SameRename
<1>2. CASE Welcome
  BY <1>2, Stays, MessageMoves DEF Welcome
<1>3. ASSUME NEW title \in Titles, NEW arg, ReadLine(title, arg)
      PROVE  ProtocolStep
  BY <1>3, Stays, MessageMoves, HandleCommandMoves DEF ReadLine, Reply
<1>4. CASE EndOfFile
  BY <1>1, <1>4 DEF EndOfFile
<1>5. CASE Accept
  BY <1>5, DialWorksMoves, DialFailsMoves DEF Accept, Passive
<1>6. CASE AcceptRefused
  BY <1>6, DialFailsMoves DEF AcceptRefused, Passive
<1>7. CASE Connect
  BY <1>7, DialWorksMoves, DialFailsMoves DEF Connect
<1>8. CASE EndTransfer
  BY <1>8, FinishMoves DEF EndTransfer
<1>9. CASE EndList
  BY <1>9, FinishMoves DEF EndList
<1>10. CASE DataSigPipe
  BY <1>1, <1>10 DEF DataSigPipe
<1>11. CASE PeerCloses
  BY <1>11, StayStep DEF PeerCloses
<1>12. CASE UNCHANGED vars
  BY <1>12 DEF vars, ProtocolStep, Protocol!pvars
<1>13. QED
  BY <1>2, <1>3, <1>4, <1>5, <1>6, <1>7, <1>8, <1>9, <1>10, <1>11, <1>12 DEF Next

-----------------------------------------------------------------------------
(* Theorems *)

\* Every behaviour of the child process is one that FtpProtocol allows: the
\* order of commands that the report lists holds whatever the system calls
\* return.
THEOREM Refinement == Spec => ImplementsProtocol
<1>1. Init => Protocol!PInit
  BY DEF Init, new_session, Protocol!PInit, CONNECTED, NULL
<1>2. IInv /\ [Next]_vars => [Protocol!PNext]_Protocol!pvars
  BY NextMoves DEF ProtocolStep
<1>3. QED
  BY <1>1, <1>2, Invariance, PTL
     DEF Spec, ImplementsProtocol, Protocol!PSpec

-----------------------------------------------------------------------------
(* Descriptors that are lost *)

\* What LostOnlyWithError says of one step.
LossTold == ~(Lost' \subseteq Lost) => line' = "LIST" \/ out'[Len(out')] >= 400

\* A file is held only from its opening to the end of the command.
FileHeld == filefd # NoFd => at \in {"dial", "xfer"}

\* A process that ends loses nothing.
LEMMA ExitLoses ==
  ASSUME Exit
  PROVE  LossTold /\ FileHeld'
<1>1. \A f \in Fds : fdtab'[f] = "free"
  BY DEF Exit, NoFds
<1>2. filefd' = NoFd
  BY DEF Exit
<1>3. QED
  BY <1>1, <1>2 DEF LossTold, Lost, FileHeld

\* Whatever it loses, an error reply tells of it.
LEMMA ErrorLoses ==
  ASSUME IInv, NEW code \in Nat, code >= 400, NEW s, NEW tab,
         message_client(code, s, tab, "read")
  PROVE  LossTold /\ FileHeld'
<1>1. CASE Exit
  BY <1>1, ExitLoses
<1>2. CASE ~Exit
  <2> DEFINE before == IF at = "read" THEN <<>> ELSE out
  <2>1. out' = Append(before, code) /\ filefd' = NoFd
    BY <1>2 DEF message_client
  <2>2. before \in Seq(Nat)
    BY DEF IInv, TypeOK
  <2> HIDE DEF before
  <2>3. out'[Len(out')] = code
    BY <2>1, <2>2
  <2>4. QED
    BY <2>1, <2>3 DEF LossTold, FileHeld
<1>3. QED
  BY <1>1, <1>2

\* A reply between two commands that leaves descriptors, mode and recorded
\* numbers as they are.
LEMMA PlainLoses ==
  ASSUME FileHeld, at = "read", NEW code, NEW s,
         s.rcvMode = ssn.rcvMode \/ ssn.rcvMode = "NOMODE",
         s.pasvfd = ssn.pasvfd, s.datafd = ssn.datafd,
         message_client(code, s, fdtab, "read")
  PROVE  LossTold /\ FileHeld'
<1>1. CASE Exit
  BY <1>1, ExitLoses
<1>2. CASE ~Exit
  <2>1. ssn' = s /\ fdtab' = fdtab /\ filefd' = NoFd
    BY <1>2 DEF message_client
  <2>2. filefd = NoFd
    BY DEF FileHeld
  <2>3. QED
    BY <2>1, <2>2 DEF LossTold, Lost, FileHeld
<1>3. QED
  BY <1>1, <1>2

\* A selected mode gives its socket away only with an error.
LEMMA PasvLoses ==
  ASSUME IInv, FileHeld, at = "read", cmd_pasv
  PROVE  LossTold /\ FileHeld'
<1>1. CASE \/ Reply(502, ssn)
           \/ message_client(452, Listening(NoFd), fdtab, "read")
           \/ \E f \in Fds : message_client(452, Listening(NoFd), Opened(f, "socket"), "read")
  BY <1>1, ErrorLoses DEF Reply
<1>2. ASSUME ssn.rcvMode = "NOMODE", NEW f \in Fds, IsLowestFree(f),
             message_client(227, Listening(f), Opened(f, "listen"), "read")
      PROVE  LossTold /\ FileHeld'
  <2>1. CASE Exit
    BY <2>1, ExitLoses
  <2>2. CASE ~Exit
    <3>1. ssn' = Listening(f) /\ fdtab' = Opened(f, "listen") /\ filefd' = NoFd
      BY <1>2, <2>2 DEF message_client
    <3>2. /\ ssn'.rcvMode = "PASSIVE" /\ ssn'.pasvfd = f /\ ssn'.datafd = ssn.datafd
          /\ \A g \in Fds : g # f => fdtab'[g] = fdtab[g]
      BY <3>1 DEF Listening, Opened, IInv, TypeOK, Sessions
    <3>3. filefd = NoFd
      BY DEF FileHeld
    <3>4. QED
      BY <1>2, <3>1, <3>2, <3>3 DEF LossTold, Lost, FileHeld
  <2>3. QED
    BY <2>1, <2>2
<1>3. QED
  BY <1>1, <1>2 DEF cmd_pasv

\* A data command takes its file with it to the data connection.
LEMMA DialLoses ==
  ASSUME IInv, FileHeld, at = "read", NEW arg, OpenFile(arg) \/ cmd_list
  PROVE  LossTold /\ FileHeld'
<1>1. ASSUME NEW tab, FileRefused(tab)
      PROVE  LossTold /\ FileHeld'
  BY <1>1, ErrorLoses DEF FileRefused
<1>2. ASSUME NEW f \in Fds, Dial(f, Opened(f, "file"))
      PROVE  LossTold /\ FileHeld'
  <2>1. /\ ssn' = ssn /\ filefd' = f /\ at' = "dial"
        /\ \A g \in Fds : g # f => fdtab'[g] = fdtab[g]
    BY <1>2 DEF Dial, Opened, IInv, TypeOK
  <2>2. filefd = NoFd
    BY DEF FileHeld
  <2>3. ASSUME NEW g \in Lost'
        PROVE  g \in Lost
    <3>1. g \in Fds /\ fdtab'[g] # "free" /\ g # f
      BY <2>1, <2>3 DEF Lost
    <3>2. g # NoFd /\ fdtab[g] # "free"
      BY <2>1, <3>1, FdFacts
    <3>3. QED
      BY <2>1, <2>2, <2>3, <3>1, <3>2 DEF Lost
  <2>4. QED
    BY <2>1, <2>3 DEF LossTold, FileHeld
<1>3. CASE cmd_list
  BY <1>3 DEF cmd_list, Dial, LossTold, Lost, FileHeld
<1>4. QED
  BY <1>1, <1>2, <1>3 DEF OpenFile

LEMMA HandlerLoses ==
  ASSUME IInv, FileHeld, at = "read", NEW title \in Titles, NEW arg,
         handle_command(title, arg)
  PROVE  LossTold /\ FileHeld'
<1>0. ssn \in Sessions
  BY DEF IInv, TypeOK
<1>1. ASSUME NEW code, Reply(code, ssn)
      PROVE  LossTold /\ FileHeld'
  BY <1>1, PlainLoses DEF Reply
<1>2. CASE check_stage(title) # 0
  BY <1>1, <1>2 DEF handle_command
<1>3. CASE cmd_user(arg) \/ cmd_pass
  <2> DEFINE s(stage) == [ssn EXCEPT !.authStage = stage]
  <2>1. \A stage : /\ s(stage).rcvMode = ssn.rcvMode /\ s(stage).pasvfd = ssn.pasvfd
                   /\ s(stage).datafd = ssn.datafd
    BY <1>0 DEF Sessions
  <2>2. \/ Reply(502, ssn)
        \/ message_client(331, s(USERNAME_OK), fdtab, "read")
        \/ message_client(530, s(CONNECTED), fdtab, "read")
        \/ message_client(230, s(PASSWORD_OK), fdtab, "read")
    BY <1>3 DEF cmd_user, cmd_pass, Reply
  <2> HIDE DEF s
  <2>3. QED
    BY <1>1, <2>1, <2>2, PlainLoses
<1>4. CASE cmd_rest
  <2> DEFINE s(pos) == [ssn EXCEPT !.currentPos = pos]
  <2>1. \A pos : /\ s(pos).rcvMode = ssn.rcvMode /\ s(pos).pasvfd = ssn.pasvfd
                 /\ s(pos).datafd = ssn.datafd
    BY <1>0 DEF Sessions
  <2>2. PICK pos \in Offsets : message_client(350, s(pos), fdtab, "read")
    BY <1>4 DEF cmd_rest, Reply
  <2> HIDE DEF s
  <2>3. QED
    BY <2>1, <2>2, PlainLoses
<1>5. CASE cmd_rnfr(arg) \/ cmd_rnto(arg)
  <2> DEFINE s(name) == [ssn EXCEPT !.rnfrName = name]
  <2>1. \A name : /\ s(name).rcvMode = ssn.rcvMode /\ s(name).pasvfd = ssn.pasvfd
                  /\ s(name).datafd = ssn.datafd
    BY <1>0 DEF Sessions
  <2>2. \/ \E code \in {503, 550} : Reply(code, ssn)
        \/ message_client(350, s("set"), fdtab, "read")
        \/ \E code \in {250, 550} : message_client(code, s(NULL), fdtab, "read")
    BY <1>5 DEF cmd_rnfr, cmd_rnto, Reply
  <2> HIDE DEF s
  <2>3. QED
    BY <1>1, <2>1, <2>2, PlainLoses
<1>6. CASE cmd_port
  <2> DEFINE s == [ssn EXCEPT !.rcvMode = "INPORT"]
  <2>1. s.pasvfd = ssn.pasvfd /\ s.datafd = ssn.datafd
    BY <1>0 DEF Sessions
  <2>2. Reply(502, ssn) \/ (ssn.rcvMode = "NOMODE" /\ message_client(200, s, fdtab, "read"))
    BY <1>6 DEF cmd_port, Reply
  <2> HIDE DEF s
  <2>3. QED
    BY <1>1, <2>1, <2>2, PlainLoses
<1>7. CASE cmd_quit
  <2>1. Exit \/ (at' = "exit" /\ fdtab' = NoFds /\ filefd' = NoFd)
    BY <1>7 DEF cmd_quit, message_client
  <2>2. \A f \in Fds : NoFds[f] = "free"
    BY DEF NoFds
  <2>3. QED
    BY <2>1, <2>2, ExitLoses DEF LossTold, Lost, FileHeld
<1>8. CASE \/ cmd_syst \/ cmd_type(arg) \/ cmd_mkd \/ cmd_cwd \/ cmd_rmd \/ cmd_dele
           \/ cmd_pwd \/ Reply(500, ssn)
  BY <1>1, <1>8 DEF cmd_syst, cmd_type, cmd_mkd, cmd_cwd, cmd_rmd, cmd_dele, cmd_pwd
<1>9. QED
  BY <1>2, <1>3, <1>4, <1>5, <1>6, <1>7, <1>8, PasvLoses, DialLoses
     DEF handle_command, cmd_retr, cmd_stor

\* The steps that end a dial or a transfer.
LEMMA ContinueLoses ==
  ASSUME IInv, FileHeld,
         Accept \/ AcceptRefused \/ Connect \/ EndTransfer \/ EndList \/ DataSigPipe
  PROVE  LossTold /\ FileHeld'
<1>1. ASSUME NEW tab, DialFails(tab)
      PROVE  LossTold /\ FileHeld'
  BY <1>1, ErrorLoses DEF DialFails
<1>2. ASSUME at = "dial", NEW f \in Fds, DialWorks(f)
      PROVE  LossTold /\ FileHeld'
  <2>1. CASE Exit
    BY <2>1, ExitLoses
  <2>2. CASE ~Exit
    <3>1. /\ ssn' = [ssn EXCEPT !.datafd = f] /\ fdtab' = Opened(f, "data")
          /\ at' = "xfer" /\ filefd' = filefd
      BY <1>2, <2>2 DEF DialWorks, message_client
    <3>2. /\ ssn'.rcvMode = ssn.rcvMode /\ ssn'.pasvfd = ssn.pasvfd /\ ssn'.datafd = f
          /\ \A g \in Fds : g # f => fdtab'[g] = fdtab[g]
      BY <3>1 DEF Opened, IInv, TypeOK, Sessions
    <3>3. ssn.datafd = NoFd
      BY <1>2 DEF IInv, SessionInv, DescriptorsOwned
    <3>4. QED
      BY <3>1, <3>2, <3>3, FdFacts DEF LossTold, Lost, FileHeld
  <2>3. QED
    BY <2>1, <2>2
<1>3. ASSUME Finish(226, fdtab)
      PROVE  LossTold /\ FileHeld'
  <2>1. CASE Exit
    BY <2>1, ExitLoses
  <2>2. CASE ~Exit
    <3>1. fdtab' = Closed(fdtab, TransferFds) /\ filefd' = NoFd
      BY <1>3, <2>2 DEF Finish, message_client
    <3>2. \A f \in Fds : fdtab'[f] = IF f \in TransferFds THEN "free" ELSE fdtab[f]
      BY <3>1 DEF Closed
    <3>3. QED
      BY <3>1, <3>2 DEF LossTold, Lost, FileHeld, TransferFds
  <2>3. QED
    BY <2>1, <2>2
<1>4. ASSUME NEW tab, Finish(426, tab)
      PROVE  LossTold /\ FileHeld'
  BY <1>4, ErrorLoses DEF Finish
<1>5. CASE EndList
  <2>1. line' = "LIST"
    BY <1>5 DEF EndList, Keep
  <2>2. at' \in {"read", "exit"} /\ filefd' = NoFd
    BY <1>5 DEF EndList, Finish, message_client, Exit
  <2>3. QED
    BY <2>1, <2>2 DEF LossTold, FileHeld
<1>6. CASE DataSigPipe
  BY <1>6, ExitLoses DEF DataSigPipe
<1>7. QED
  BY <1>1, <1>2, <1>3, <1>4, <1>5, <1>6
     DEF Accept, AcceptRefused, Connect, EndTransfer, Passive

LEMMA NextLoses ==
  ASSUME IInv, FileHeld, [Next]_vars
  PROVE  LossTold /\ FileHeld'
<1>1. CASE Welcome
  <2>1. CASE Exit
    BY <2>1, ExitLoses
  <2>2. CASE ~Exit
    BY <1>1, <2>2 DEF Welcome, message_client, LossTold, Lost, FileHeld
  <2>3. QED
    BY <2>1, <2>2
<1>2. ASSUME NEW title \in Titles, NEW arg, ReadLine(title, arg)
      PROVE  LossTold /\ FileHeld'
  <2>1. at = "read" /\ (Reply(500, ssn) \/ handle_command(title, arg))
    BY <1>2 DEF ReadLine
  <2>2. QED
    BY <2>1, PlainLoses, HandlerLoses DEF Reply
<1>3. CASE EndOfFile
  BY <1>3, ExitLoses DEF EndOfFile
<1>4. CASE PeerCloses \/ UNCHANGED vars
  BY <1>4 DEF PeerCloses, vars, LossTold, Lost, FileHeld
<1>5. QED
  BY <1>1, <1>2, <1>3, <1>4, ContinueLoses DEF Next

\* No command loses a descriptor without an error reply, but for LIST.
THEOREM LossesAreTold == Spec => LostOnlyWithError
<1>1. Init => FileHeld
  BY DEF Init, FileHeld
<1>2. IInv /\ FileHeld /\ [Next]_vars => FileHeld'
  BY NextLoses
<1>3. IInv /\ FileHeld /\ [Next]_vars => [LossTold]_vars
  BY NextLoses
<1>4. QED
  BY <1>1, <1>2, <1>3, Invariance, PTL DEF Spec, LostOnlyWithError, LossTold
=============================================================================
