-------------------------- MODULE FtpSessionProofs --------------------------
(***************************************************************************)
(* Proofs about FtpSession, for every size of the descriptor table and     *)
(* every set of offsets: the type invariant, the safety invariants that    *)
(* Session.cfg checks, and the refinement of FtpProtocol.                  *)
(***************************************************************************)
EXTENDS FtpSession, TLAPS

-----------------------------------------------------------------------------
(* The inductive invariant *)

\* The part of TypeOK that a handler can change.
StateTyped ==
  /\ at \in {"start", "read", "dial", "xfer", "exit"}
  /\ ssn \in Sessions
  /\ filefd \in Fds \cup {NoFd}
  /\ fdtab \in [Fds -> Kinds]
  /\ out \in Seq(Nat)

\* The invariants that speak of the session and the descriptors only.
SessionInv ==
  /\ StateTyped
  /\ DescriptorsOwned
  /\ ModeExcludesRename
  /\ LoginGate

\* ReplyDiscipline, with what a process that is not waiting in read() needs.
ReplyInv ==
  /\ ReplyDiscipline
  /\ at = "start" => out = <<>>
  /\ at = "dial" => line \in DataCmds

IInv ==
  /\ TypeOK
  /\ SessionInv
  /\ ReplyInv
  /\ QuitEnds

\* SessionInv for a session and a table that have no data connection.
Idle(s, tab) ==
  /\ s \in Sessions
  /\ tab \in [Fds -> Kinds]
  /\ tab[ConnFd] = "conn"
  /\ s.datafd = NoFd
  /\ s.pasvfd # NoFd => tab[s.pasvfd] = "listen"
  /\ \A f \in Fds : tab[f] # "data"
  /\ s.rcvMode # "NOMODE" => s.rnfrName = NULL
  /\ s.authStage # PASSWORD_OK =>
       /\ s.rcvMode = "NOMODE" /\ s.pasvfd = NoFd
       /\ s.rnfrName = NULL /\ s.currentPos = 0
       /\ \A f \in Fds : f # ConnFd => tab[f] = "free"

-----------------------------------------------------------------------------
(* Lemmas about the operators of FtpSession *)

\* The control connection has a place in every descriptor table, and the
\* number that stands for no descriptor has none.
LEMMA FdFacts == ConnFd \in Fds /\ NoFd \notin Fds
BY MaxFdsAssumption DEF ConnFd, Fds, NoFd

\* Opening a free descriptor changes no other, and keeps an idle session
\* idle when the new one is not a data connection.
LEMMA OpenedIdle ==
  ASSUME NEW s, NEW f \in Fds, NEW kind \in {"socket", "file", "dir"},
         fdtab[f] = "free", Idle(s, fdtab), s.authStage = PASSWORD_OK
  PROVE  Idle(s, Opened(f, kind))
<1>1. /\ Opened(f, kind) \in [Fds -> Kinds]
      /\ \A g \in Fds : Opened(f, kind)[g] = IF g = f THEN kind ELSE fdtab[g]
  BY DEF Idle, Opened, Kinds
<1> HIDE DEF Opened
<1>2. s.pasvfd \in Fds \cup {NoFd}
  BY DEF Idle, Sessions
<1>3. QED
  BY <1>1, <1>2, FdFacts DEF Idle

\* The session in which no transfer runs is idle.
LEMMA SessionIdle ==
  ASSUME IInv, at \in {"start", "read", "dial"}
  PROVE  Idle(ssn, fdtab)
<1>1. ssn.datafd = NoFd
  BY DEF IInv, SessionInv, DescriptorsOwned
<1>2. QED
  BY <1>1, FdFacts
     DEF IInv, SessionInv, StateTyped, DescriptorsOwned, ModeExcludesRename, LoginGate, Idle

\* The end of the process satisfies every invariant.
LEMMA ExitKeeps ==
  ASSUME IInv, Exit
  PROVE  SessionInv' /\ at' = "exit"
<1>1. /\ at' = "exit" /\ ssn' = ssn /\ out' = out
      /\ filefd' = NoFd /\ fdtab' = NoFds
  BY DEF Exit
<1>2. /\ NoFds \in [Fds -> Kinds]
      /\ \A f \in Fds : NoFds[f] = "free"
  BY DEF NoFds, Kinds
<1>3. StateTyped'
  BY <1>1, <1>2 DEF StateTyped, IInv, TypeOK
<1>4. DescriptorsOwned' /\ ModeExcludesRename'
  BY <1>1 DEF IInv, SessionInv, DescriptorsOwned, ModeExcludesRename
<1>5. LoginGate'
  BY <1>1, <1>2 DEF IInv, SessionInv, LoginGate
<1>6. QED
  BY <1>1, <1>3, <1>4, <1>5 DEF SessionInv

\* A reply that leaves the session idle keeps its invariants, and the process
\* waits for the next command.
LEMMA ReplyKeeps ==
  ASSUME IInv, NEW code \in Nat, NEW s, NEW tab, Idle(s, tab),
         message_client(code, s, tab, "read")
  PROVE  /\ SessionInv'
         /\ \/ at' = "exit"
            \/ at' = "read" /\ out' = Append(IF at = "read" THEN <<>> ELSE out, code)
<1>1. CASE Exit
  BY <1>1, ExitKeeps
<1>2. CASE ~Exit
  <2>1. /\ out' = Append(IF at = "read" THEN <<>> ELSE out, code)
        /\ ssn' = s /\ fdtab' = tab /\ at' = "read" /\ filefd' = NoFd
    BY <1>2 DEF message_client
  <2>2. out' \in Seq(Nat)
    BY <2>1 DEF IInv, TypeOK
  <2>3. StateTyped'
    BY <2>1, <2>2 DEF StateTyped, Idle
  <2>4. DescriptorsOwned' /\ ModeExcludesRename'
    BY <2>1, FdFacts DEF DescriptorsOwned, ModeExcludesRename, Idle
  <2>5. LoginGate'
    BY <2>1 DEF LoginGate, Idle
  <2>6. QED
    BY <2>1, <2>3, <2>4, <2>5 DEF SessionInv
<1>3. QED
  BY <1>1, <1>2

\* A handler that goes on to the data connection keeps the invariants.
LEMMA DialKeeps ==
  ASSUME IInv, at = "read", ssn.authStage = PASSWORD_OK,
         NEW fd \in Fds \cup {NoFd}, NEW tab, Idle(ssn, tab),
         fd # NoFd => tab[fd] = "file",
         Dial(fd, tab)
  PROVE  SessionInv' /\ at' = "dial" /\ out' = <<>>
<1>1. /\ at' = "dial" /\ out' = <<>> /\ ssn' = ssn
      /\ filefd' = fd /\ fdtab' = tab
  BY DEF Dial
<1>2. StateTyped'
  BY <1>1 DEF StateTyped, Idle
<1>3. DescriptorsOwned' /\ ModeExcludesRename'
  BY <1>1, FdFacts DEF DescriptorsOwned, ModeExcludesRename, Idle
<1>4. LoginGate'
  BY <1>1 DEF LoginGate
<1>5. QED
  BY <1>1, <1>2, <1>3, <1>4 DEF SessionInv

-----------------------------------------------------------------------------
(* Command handlers *)

\* What a handler called with a title leaves behind.
Answered(title) ==
  /\ SessionInv'
  /\ \/ at' = "exit"
     \/ at' = "dial" /\ out' = <<>> /\ title \in DataCmds
     \/ at' = "read" /\ \E code \in Nat \ {150} : out' = <<code>>

LEMMA ReplyAnswers ==
  ASSUME IInv, at = "read", NEW title,
         NEW code \in Nat \ {150}, NEW s, NEW tab, Idle(s, tab),
         message_client(code, s, tab, "read")
  PROVE  Answered(title)
<1>1. Append(<<>>, code) = <<code>>
  OBVIOUS
<1>2. QED
  BY <1>1, ReplyKeeps DEF Answered

\* Login: USER and PASS.
LEMMA LoginAnswers ==
  ASSUME IInv, at = "read", NEW title, NEW arg,
         cmd_user(arg) \/ cmd_pass
  PROVE  Answered(title)
<1>1. Idle(ssn, fdtab)
  BY SessionIdle
<1>2. ASSUME NEW stage \in {CONNECTED, USERNAME_OK, PASSWORD_OK},
             ssn.authStage # PASSWORD_OK
      PROVE  Idle([ssn EXCEPT !.authStage = stage], fdtab)
  <2> DEFINE s == [ssn EXCEPT !.authStage = stage]
  <2>1. /\ s \in Sessions
        /\ s.rcvMode = ssn.rcvMode /\ s.pasvfd = ssn.pasvfd
        /\ s.datafd = ssn.datafd /\ s.rnfrName = ssn.rnfrName
        /\ s.currentPos = ssn.currentPos
    BY <1>1 DEF Idle, Sessions
  <2> HIDE DEF s
  <2>2. Idle(s, fdtab)
    BY <1>1, <1>2, <2>1 DEF Idle
  <2>3. QED
    BY <2>2 DEF s
<1>3. ASSUME NEW code \in Nat \ {150}, Reply(code, ssn)
      PROVE  Answered(title)
  BY <1>1, <1>3, ReplyAnswers DEF Reply
<1>4. ASSUME NEW code \in Nat \ {150},
             NEW stage \in {CONNECTED, USERNAME_OK, PASSWORD_OK},
             ssn.authStage # PASSWORD_OK,
             Reply(code, [ssn EXCEPT !.authStage = stage])
      PROVE  Answered(title)
  <2> DEFINE s == [ssn EXCEPT !.authStage = stage]
  <2>1. Idle(s, fdtab)
    BY <1>2, <1>4
  <2>2. message_client(code, s, fdtab, "read")
    BY <1>4 DEF Reply
  <2> HIDE DEF s
  <2>3. QED
    BY <2>1, <2>2, ReplyAnswers
<1>5. CASE cmd_user(arg)
  BY <1>3, <1>4, <1>5 DEF cmd_user, CONNECTED, USERNAME_OK, PASSWORD_OK
<1>6. CASE cmd_pass
  BY <1>3, <1>4, <1>6 DEF cmd_pass, CONNECTED, USERNAME_OK, PASSWORD_OK
<1>7. QED
  BY <1>5, <1>6

\* Commands that need a login, and change one field of the session: PORT,
\* REST, RNFR and RNTO.
LEMMA SettingAnswers ==
  ASSUME IInv, at = "read", NEW title, NEW arg,
         ssn.authStage = PASSWORD_OK,
         \/ cmd_port /\ ssn.rnfrName = NULL
         \/ cmd_rest
         \/ cmd_rnfr(arg) /\ ssn.rcvMode = "NOMODE"
         \/ cmd_rnto(arg)
  PROVE  Answered(title)
<1>1. Idle(ssn, fdtab)
  BY SessionIdle
<1>2. ASSUME NEW code \in Nat \ {150}, Reply(code, ssn)
      PROVE  Answered(title)
  BY <1>1, <1>2, ReplyAnswers DEF Reply
<1>3. CASE cmd_port /\ ssn.rnfrName = NULL
  <2> DEFINE s == [ssn EXCEPT !.rcvMode = "INPORT"]
  <2>1. \/ \E code \in Nat \ {150} : Reply(code, ssn)
        \/ message_client(200, s, fdtab, "read")
    BY <1>3 DEF cmd_port, Reply
  <2>2. /\ s \in Sessions
        /\ s.authStage = ssn.authStage /\ s.pasvfd = ssn.pasvfd
        /\ s.datafd = ssn.datafd /\ s.rnfrName = ssn.rnfrName
    BY <1>1 DEF Idle, Sessions
  <2> HIDE DEF s
  <2>3. Idle(s, fdtab)
    BY <1>1, <1>3, <2>2 DEF Idle
  <2>4. QED
    BY <1>2, <2>1, <2>3, ReplyAnswers
<1>4. CASE cmd_rest
  <2> DEFINE s(pos) == [ssn EXCEPT !.currentPos = pos]
  <2>1. PICK pos \in Offsets : message_client(350, s(pos), fdtab, "read")
    BY <1>4 DEF cmd_rest, Reply
  <2>2. /\ s(pos) \in Sessions
        /\ s(pos).authStage = ssn.authStage /\ s(pos).pasvfd = ssn.pasvfd
        /\ s(pos).datafd = ssn.datafd /\ s(pos).rnfrName = ssn.rnfrName
        /\ s(pos).rcvMode = ssn.rcvMode
    BY <1>1 DEF Idle, Sessions
  <2> HIDE DEF s
  <2>3. Idle(s(pos), fdtab)
    BY <1>1, <2>2 DEF Idle
  <2>4. QED
    BY <2>1, <2>3, ReplyAnswers
<1>5. ASSUME NEW name \in {NULL, "set"}, NEW code \in Nat \ {150},
             name = NULL \/ ssn.rcvMode = "NOMODE",
             Reply(code, [ssn EXCEPT !.rnfrName = name])
      PROVE  Answered(title)
  <2> DEFINE s == [ssn EXCEPT !.rnfrName = name]
  <2>1. message_client(code, s, fdtab, "read")
    BY <1>5 DEF Reply
  <2>2. /\ s \in Sessions
        /\ s.authStage = ssn.authStage /\ s.pasvfd = ssn.pasvfd
        /\ s.datafd = ssn.datafd /\ s.rcvMode = ssn.rcvMode
        /\ s.rnfrName = name
    BY <1>1 DEF Idle, Sessions
  <2> HIDE DEF s
  <2>3. Idle(s, fdtab)
    BY <1>1, <1>5, <2>2 DEF Idle
  <2>4. QED
    BY <2>1, <2>3, ReplyAnswers
<1>6. CASE cmd_rnfr(arg) /\ ssn.rcvMode = "NOMODE"
  BY <1>2, <1>5, <1>6 DEF cmd_rnfr
<1>7. CASE cmd_rnto(arg)
  BY <1>2, <1>5, <1>7 DEF cmd_rnto
<1>8. QED
  BY <1>3, <1>4, <1>6, <1>7

\* PASV.
LEMMA PasvAnswers ==
  ASSUME IInv, at = "read", NEW title,
         ssn.authStage = PASSWORD_OK, ssn.rnfrName = NULL, cmd_pasv
  PROVE  Answered(title)
<1>1. Idle(ssn, fdtab)
  BY SessionIdle
<1>2. \A fd \in Fds \cup {NoFd} :
        /\ Listening(fd) \in Sessions
        /\ Listening(fd).authStage = ssn.authStage
        /\ Listening(fd).pasvfd = fd
        /\ Listening(fd).datafd = ssn.datafd
        /\ Listening(fd).rnfrName = ssn.rnfrName
  BY <1>1 DEF Idle, Sessions, Listening
<1>3. Idle(Listening(NoFd), fdtab)
  BY <1>1, <1>2, FdFacts DEF Idle
<1>4. ASSUME NEW f \in Fds, IsLowestFree(f)
      PROVE  /\ Idle(Listening(f), Opened(f, "listen"))
             /\ Idle(Listening(NoFd), Opened(f, "socket"))
  <2>1. fdtab[f] = "free"
    BY <1>4 DEF IsLowestFree
  <2>2. /\ Opened(f, "listen") \in [Fds -> Kinds]
        /\ \A g \in Fds :
             Opened(f, "listen")[g] = IF g = f THEN "listen" ELSE fdtab[g]
    BY <1>1 DEF Idle, Opened, Kinds
  <2>3. Idle(Listening(f), Opened(f, "listen"))
    BY <1>1, <1>2, <2>1, <2>2, FdFacts DEF Idle
  <2>4. Idle(Listening(NoFd), Opened(f, "socket"))
    BY <1>2, <1>3, <2>1, OpenedIdle
  <2>5. QED
    BY <2>3, <2>4
<1>5. CASE Reply(502, ssn)
  BY <1>1, <1>5, ReplyAnswers DEF Reply
<1>6. CASE message_client(452, Listening(NoFd), fdtab, "read")
  BY <1>3, <1>6, ReplyAnswers
<1>7. CASE \E f \in Fds :
             /\ IsLowestFree(f)
             /\ \/ message_client(227, Listening(f), Opened(f, "listen"), "read")
                \/ message_client(452, Listening(NoFd), Opened(f, "socket"), "read")
  BY <1>4, <1>7, ReplyAnswers
<1>8. QED
  BY <1>5, <1>6, <1>7 DEF cmd_pasv

\* RETR, STOR and LIST up to their data connection.
LEMMA DataAnswers ==
  ASSUME IInv, at = "read", NEW title \in DataCmds, NEW arg,
         ssn.authStage = PASSWORD_OK, OpenFile(arg) \/ cmd_list
  PROVE  Answered(title)
<1>1. Idle(ssn, fdtab)
  BY SessionIdle
<1>2. ASSUME NEW tab, Idle(ssn, tab), FileRefused(tab)
      PROVE  Answered(title)
  <2> DEFINE s == [ssn EXCEPT !.rcvMode = "NOMODE"]
  <2>1. message_client(551, s, tab, "read")
    BY <1>2 DEF FileRefused
  <2>2. /\ s \in Sessions
        /\ s.authStage = ssn.authStage /\ s.pasvfd = ssn.pasvfd
        /\ s.datafd = ssn.datafd /\ s.rcvMode = "NOMODE"
    BY <1>1 DEF Idle, Sessions
  <2> HIDE DEF s
  <2>3. Idle(s, tab)
    BY <1>2, <2>2 DEF Idle
  <2>4. QED
    BY <2>1, <2>3, ReplyAnswers
<1>3. ASSUME NEW f \in Fds, IsLowestFree(f)
      PROVE  Idle(ssn, Opened(f, "file")) /\ Opened(f, "file")[f] = "file"
  <2>1. fdtab[f] = "free"
    BY <1>3 DEF IsLowestFree
  <2>2. Opened(f, "file")[f] = "file"
    BY <1>1 DEF Idle, Opened
  <2>3. QED
    BY <1>1, <2>1, <2>2, OpenedIdle
<1>4. ASSUME NEW f \in Fds, IsLowestFree(f), Dial(f, Opened(f, "file"))
      PROVE  Answered(title)
  BY <1>3, <1>4, DialKeeps DEF Answered
<1>5. CASE OpenFile(arg)
  BY <1>1, <1>2, <1>3, <1>4, <1>5 DEF OpenFile
<1>6. CASE cmd_list
  BY <1>1, <1>6, DialKeeps DEF cmd_list, Answered
<1>7. QED
  BY <1>5, <1>6

\* The end of the session on QUIT.
LEMMA QuitAnswers ==
  ASSUME IInv, at = "read", cmd_quit
  PROVE  SessionInv' /\ at' = "exit"
<1>1. Idle(ssn, fdtab)
  BY SessionIdle
<1>2. CASE Exit
  BY <1>2, ExitKeeps
<1>3. CASE ~Exit
  <2> DEFINE s == [ssn EXCEPT !.pasvfd = NoFd, !.datafd = NoFd]
  <2>1. /\ ssn' = s /\ fdtab' = NoFds /\ at' = "exit" /\ filefd' = NoFd
        /\ out' = Append(<<>>, 221)
    BY <1>3 DEF cmd_quit, message_client
  <2>2. /\ s \in Sessions
        /\ s.authStage = ssn.authStage /\ s.pasvfd = NoFd
        /\ s.datafd = NoFd /\ s.rcvMode = ssn.rcvMode
        /\ s.rnfrName = ssn.rnfrName /\ s.currentPos = ssn.currentPos
    BY <1>1 DEF Idle, Sessions
  <2> HIDE DEF s
  <2>3. NoFds \in [Fds -> Kinds] /\ \A f \in Fds : NoFds[f] = "free"
    BY DEF NoFds, Kinds
  <2>4. StateTyped'
    BY <2>1, <2>2, <2>3 DEF StateTyped
  <2>5. DescriptorsOwned' /\ ModeExcludesRename'
    BY <1>1, <2>1, <2>2 DEF DescriptorsOwned, ModeExcludesRename, Idle
  <2>6. LoginGate'
    BY <1>1, <2>1, <2>2, <2>3 DEF LoginGate, Idle
  <2>7. QED
    BY <2>1, <2>4, <2>5, <2>6 DEF SessionInv
<1>4. QED
  BY <1>2, <1>3

\* Every command handler keeps the invariants and answers once.
LEMMA HandleCommandAnswers ==
  ASSUME IInv, at = "read", NEW title \in Titles, NEW arg,
         handle_command(title, arg)
  PROVE  Answered(title) /\ (title = "QUIT" => at' = "exit")
<1>1. Idle(ssn, fdtab)
  BY SessionIdle
<1>2. ASSUME NEW code \in Nat \ {150}, Reply(code, ssn)
      PROVE  Answered(title)
  BY <1>1, <1>2, ReplyAnswers DEF Reply
<1>3. CASE check_stage(title) # 0
  <2>1. check_stage(title) \in Nat \ {150} /\ title # "QUIT"
    BY <1>3 DEF check_stage, CmdList
  <2>2. QED
    BY <1>2, <1>3, <2>1 DEF handle_command
<1>4. CASE check_stage(title) = 0 /\ title = "QUIT"
  <2>1. cmd_quit
    BY <1>4 DEF handle_command
  <2>2. QED
    BY <2>1, QuitAnswers DEF Answered
<1>5. CASE check_stage(title) = 0 /\ title = "ABOR"
  <2>1. Reply(500, ssn)
    BY <1>5 DEF handle_command
  <2>2. QED
    BY <1>2, <1>5, <2>1
<1>6. CASE check_stage(title) = 0 /\ title \notin {"QUIT", "ABOR"}
  <2>1. ~NotLoggedIn(title) /\ ~OutOfOrder(title) /\ title \in CmdList
    BY <1>6 DEF check_stage
  <2>2. CASE title \in {"USER", "PASS"}
    <3>1. cmd_user(arg) \/ cmd_pass
      BY <1>6, <2>2 DEF handle_command
    <3>2. QED
      BY <2>2, <3>1, LoginAnswers
  <2>3. CASE title \notin {"USER", "PASS"}
    <3>1. ssn.authStage = PASSWORD_OK
      BY <1>1, <2>1, <2>3 DEF NotLoggedIn, Idle, Sessions
    <3>2. /\ title \notin DataCmds => ssn.rcvMode = "NOMODE"
          /\ title # "RNTO" => ssn.rnfrName = NULL
      BY <2>1 DEF OutOfOrder
    <3>3. CASE title \in DataCmds
      <4>1. OpenFile(arg) \/ cmd_list
        BY <1>6, <3>3 DEF handle_command, DataCmds, cmd_retr, cmd_stor
      <4>2. QED
        BY <3>1, <3>3, <4>1, DataAnswers DEF DataCmds
    <3>4. CASE title \in {"PORT", "REST", "RNFR", "RNTO"}
      <4>1. \/ cmd_port /\ ssn.rnfrName = NULL
            \/ cmd_rest
            \/ cmd_rnfr(arg) /\ ssn.rcvMode = "NOMODE"
            \/ cmd_rnto(arg)
        BY <1>6, <3>2, <3>4 DEF handle_command, DataCmds
      <4>2. QED
        BY <3>1, <3>4, <4>1, SettingAnswers
    <3>5. CASE title = "PASV"
      <4>1. cmd_pasv
        BY <1>6, <3>5 DEF handle_command
      <4>2. QED
        BY <3>1, <3>2, <3>5, <4>1, PasvAnswers
    <3>6. CASE title \in {"SYST", "TYPE", "MKD", "CWD", "PWD", "RMD", "DELE"}
      <4>1. \E code \in Nat \ {150} : Reply(code, ssn)
        BY <1>6, <3>6
           DEF handle_command, cmd_syst, cmd_type, cmd_mkd, cmd_cwd, cmd_pwd,
               cmd_rmd, cmd_dele
      <4>2. QED
        BY <1>2, <3>6, <4>1
    <3>7. QED
      BY <1>6, <2>1, <2>3, <3>3, <3>4, <3>5, <3>6 DEF CmdList, DataCmds
  <2>4. QED
    BY <2>2, <2>3
<1>7. QED
  BY <1>3, <1>4, <1>5, <1>6

-----------------------------------------------------------------------------
(* Steps *)

\* TypeOK is its two halves.
LEMMA TypeSplit ==
  ASSUME StateTyped', line' \in Titles \cup {"none"}, stale' \in BOOLEAN,
         peer' \in {"up", "gone"}, unread' \in BOOLEAN
  PROVE  TypeOK'
BY DEF TypeOK, StateTyped

\* A step that reads no line cannot break QuitEnds.
LEMMA EnvKeepsQuit ==
  ASSUME QuitEnds, at # "exit", line' = line, stale' = stale
  PROVE  QuitEnds'
<1>1. line # "QUIT" \/ stale
  BY DEF QuitEnds
<1>2. line' # "QUIT" \/ stale'
  BY <1>1
<1>3. QED
  BY <1>2 DEF QuitEnds

LEMMA WelcomeKeeps ==
  ASSUME IInv, Welcome
  PROVE  IInv'
<1>1. /\ at = "start" /\ message_client(220, ssn, fdtab, "read")
      /\ line' = line /\ stale' = stale /\ peer' = peer /\ unread' = unread
  BY DEF Welcome
<1>2. Idle(ssn, fdtab) /\ out = <<>>
  BY <1>1, SessionIdle DEF IInv, ReplyInv
<1>3. /\ SessionInv'
      /\ \/ at' = "exit"
         \/ at' = "read" /\ out' = Append(<<>>, 220)
  BY <1>1, <1>2, ReplyKeeps
<1>4. TypeOK'
  BY <1>1, <1>3, TypeSplit DEF SessionInv, IInv, TypeOK
<1>5. ReplyInv'
  BY <1>3 DEF ReplyInv, ReplyDiscipline
<1>6. QuitEnds'
  BY <1>1, EnvKeepsQuit DEF IInv
<1>7. QED
  BY <1>3, <1>4, <1>5, <1>6 DEF IInv

LEMMA ReadLineKeeps ==
  ASSUME IInv, NEW title \in Titles, NEW arg, ReadLine(title, arg)
  PROVE  IInv'
<1>1. /\ at = "read" /\ line' = title /\ unread' = FALSE /\ peer' = peer
      /\ stale' = (stale \/ title = "OVERLONG")
  BY DEF ReadLine
<1>2. ASSUME stale' \/ title = "GARBLED", Reply(500, ssn)
      PROVE  Answered(title) /\ QuitEnds'
  <2>1. Answered(title)
    BY <1>1, <1>2, SessionIdle, ReplyAnswers DEF Reply
  <2>2. stale' \/ line' # "QUIT"
    BY <1>1, <1>2
  <2>3. QED
    BY <2>1, <2>2 DEF QuitEnds
<1>3. ASSUME handle_command(title, arg)
      PROVE  Answered(title) /\ QuitEnds'
  <2>1. Answered(title) /\ (title = "QUIT" => at' = "exit")
    BY <1>1, <1>3, HandleCommandAnswers
  <2>2. QED
    BY <1>1, <2>1 DEF QuitEnds
<1>4. Answered(title) /\ QuitEnds'
  BY <1>2, <1>3 DEF ReadLine
<1>5. stale' \in BOOLEAN
  BY <1>1
<1>6. TypeOK'
  BY <1>1, <1>4, <1>5, TypeSplit DEF Answered, SessionInv, IInv, TypeOK
<1>7. ReplyInv'
  BY <1>1, <1>4 DEF Answered, ReplyInv, ReplyDiscipline
<1>8. QED
  BY <1>4, <1>6, <1>7 DEF IInv, Answered

\* A step between two reads of a line needs only the invariants of the
\* session and the replies it adds.
LEMMA BetweenReads ==
  ASSUME IInv, at # "exit", Keep, SessionInv', ReplyInv'
  PROVE  IInv'
<1>1. line' = line /\ stale' = stale /\ peer' = peer /\ unread' = unread
  BY DEF Keep
<1>2. TypeOK'
  BY <1>1, TypeSplit DEF SessionInv, IInv, TypeOK
<1>3. QuitEnds'
  BY <1>1, EnvKeepsQuit DEF IInv
<1>4. QED
  BY <1>2, <1>3 DEF IInv

\* The process ends while it waits.
LEMMA ExitStepKeeps ==
  ASSUME IInv, at # "exit", Exit, Keep
  PROVE  IInv'
<1>1. SessionInv' /\ at' = "exit"
  BY ExitKeeps
<1>2. ReplyInv'
  BY <1>1 DEF ReplyInv, ReplyDiscipline
<1>3. QED
  BY <1>1, <1>2, BetweenReads

\* The data connection could not be opened.
LEMMA DialFailsKeeps ==
  ASSUME IInv, at = "dial", NEW tab, Idle(ssn, tab), DialFails(tab), Keep
  PROVE  IInv'
<1> DEFINE s == [ssn EXCEPT !.datafd = NoFd]
<1>1. message_client(426, s, tab, "read")
  BY DEF DialFails
<1>2. /\ s \in Sessions
      /\ s.authStage = ssn.authStage /\ s.pasvfd = ssn.pasvfd
      /\ s.datafd = NoFd /\ s.rcvMode = ssn.rcvMode
      /\ s.rnfrName = ssn.rnfrName /\ s.currentPos = ssn.currentPos
  BY DEF Idle, Sessions
<1> HIDE DEF s
<1>3. Idle(s, tab)
  BY <1>2 DEF Idle
<1>4. /\ SessionInv'
      /\ \/ at' = "exit"
         \/ at' = "read" /\ out' = Append(out, 426)
  BY <1>1, <1>3, ReplyKeeps
<1>5. out = <<>>
  BY DEF IInv, ReplyInv, ReplyDiscipline
<1>6. ReplyInv'
  BY <1>4, <1>5 DEF ReplyInv, ReplyDiscipline
<1>7. QED
  BY <1>4, <1>6, BetweenReads

\* The data connection is open: the 150 is sent and the transfer starts.
LEMMA DialWorksKeeps ==
  ASSUME IInv, at = "dial", ssn.authStage = PASSWORD_OK,
         NEW f \in Fds, fdtab[f] = "free", DialWorks(f), Keep
  PROVE  IInv'
<1>1. CASE Exit
  BY <1>1, ExitStepKeeps
<1>2. CASE ~Exit
  <2> DEFINE s == [ssn EXCEPT !.datafd = f]
  <2>1. /\ ssn' = s /\ fdtab' = Opened(f, "data") /\ at' = "xfer"
        /\ filefd' = filefd /\ out' = Append(out, 150)
    BY <1>2 DEF DialWorks, message_client
  <2>2. Idle(ssn, fdtab)
    BY SessionIdle
  <2>3. /\ s \in Sessions
        /\ s.authStage = ssn.authStage /\ s.pasvfd = ssn.pasvfd
        /\ s.datafd = f /\ s.rcvMode = ssn.rcvMode
        /\ s.rnfrName = ssn.rnfrName /\ s.currentPos = ssn.currentPos
    BY <2>2 DEF Idle, Sessions
  <2> HIDE DEF s
  <2>4. /\ fdtab' \in [Fds -> Kinds]
        /\ \A g \in Fds : fdtab'[g] = IF g = f THEN "data" ELSE fdtab[g]
    BY <2>1, <2>2 DEF Idle, Opened, Kinds
  <2>5. out = <<>> /\ line \in DataCmds /\ line' = line
    BY DEF IInv, ReplyInv, ReplyDiscipline, Keep
  <2>6. out' = <<150>>
    BY <2>1, <2>5
  <2>7. StateTyped'
    BY <2>1, <2>3, <2>4, <2>6 DEF StateTyped, IInv, TypeOK
  <2>8. filefd # NoFd => fdtab[filefd] = "file" /\ filefd \in Fds
    BY DEF IInv, SessionInv, DescriptorsOwned, TypeOK
  <2>9. ssn.pasvfd \in Fds \cup {NoFd}
    BY <2>2 DEF Idle, Sessions
  <2>10. DescriptorsOwned'
    BY <2>1, <2>2, <2>3, <2>4, <2>8, <2>9, FdFacts DEF DescriptorsOwned, Idle
  <2>11. ModeExcludesRename' /\ LoginGate'
    BY <2>1, <2>2, <2>3 DEF ModeExcludesRename, LoginGate, Idle
  <2>12. ReplyInv'
    BY <2>1, <2>5, <2>6 DEF ReplyInv, ReplyDiscipline
  <2>13. QED
    BY <2>7, <2>10, <2>11, <2>12, BetweenReads DEF SessionInv
<1>3. QED
  BY <1>1, <1>2

\* A selected mode shows that the client has logged in.
LEMMA ModeAfterLogin ==
  ASSUME IInv, ssn.rcvMode # "NOMODE" \/ at = "xfer"
  PROVE  at = "exit" \/ ssn.authStage = PASSWORD_OK
BY DEF IInv, SessionInv, LoginGate, DescriptorsOwned

LEMMA AcceptKeeps ==
  ASSUME IInv, Accept
  PROVE  IInv'
<1>1. /\ at = "dial" /\ Keep
      /\ \/ \E f \in Fds : IsLowestFree(f) /\ DialWorks(f)
         \/ DialFails(fdtab)
  BY DEF Accept, Passive
<1>2. ssn.authStage = PASSWORD_OK
  BY <1>1, ModeAfterLogin DEF Accept, Passive
<1>3. QED
  BY <1>1, <1>2, SessionIdle, DialFailsKeeps, DialWorksKeeps DEF IsLowestFree

LEMMA AcceptRefusedKeeps ==
  ASSUME IInv, AcceptRefused
  PROVE  IInv'
BY SessionIdle, DialFailsKeeps DEF AcceptRefused, Passive

LEMMA ConnectKeeps ==
  ASSUME IInv, Connect
  PROVE  IInv'
<1>1. /\ at = "dial" /\ Keep
      /\ \/ DialFails(fdtab)
         \/ \E f \in Fds : /\ fdtab[f] = "free"
                           /\ DialWorks(f) \/ DialFails(Opened(f, "socket"))
  BY DEF Connect, IsLowestFree
<1>2. ssn.authStage = PASSWORD_OK
  BY <1>1, ModeAfterLogin DEF Connect
<1>3. Idle(ssn, fdtab)
  BY <1>1, SessionIdle
<1>4. ASSUME NEW f \in Fds, fdtab[f] = "free", DialFails(Opened(f, "socket"))
      PROVE  IInv'
  BY <1>1, <1>2, <1>3, <1>4, OpenedIdle, DialFailsKeeps
<1>5. ASSUME NEW f \in Fds, fdtab[f] = "free", DialWorks(f)
      PROVE  IInv'
  BY <1>1, <1>2, <1>5, DialWorksKeeps
<1>6. ASSUME DialFails(fdtab)
      PROVE  IInv'
  BY <1>1, <1>3, <1>6, DialFailsKeeps
<1>7. QED
  BY <1>1, <1>4, <1>5, <1>6

\* The end of a transfer, with the directory that LIST has opened or not.
LEMMA FinishKeeps ==
  ASSUME IInv, at = "xfer", NEW code \in Nat \ {150},
         NEW tab \in [Fds -> Kinds], Finish(code, tab), Keep,
         \A g \in Fds : \/ tab[g] = fdtab[g]
                        \/ fdtab[g] = "free" /\ tab[g] = "dir"
  PROVE  IInv'
<1>1. message_client(code, TransferOver, Closed(tab, TransferFds), "read")
  BY DEF Finish
<1>2. ssn \in Sessions /\ ssn.authStage = PASSWORD_OK
  BY ModeAfterLogin DEF IInv, SessionInv, StateTyped
<1>3. /\ TransferOver \in Sessions
      /\ TransferOver.authStage = PASSWORD_OK
      /\ TransferOver.datafd = NoFd /\ TransferOver.rcvMode = "NOMODE"
      /\ TransferOver.pasvfd # NoFd =>
           TransferOver.pasvfd = ssn.pasvfd /\ ssn.rcvMode # "PASSIVE"
  BY <1>2 DEF Sessions, TransferOver
<1> HIDE DEF TransferOver
<1>4. /\ Closed(tab, TransferFds) \in [Fds -> Kinds]
      /\ \A g \in Fds :
           Closed(tab, TransferFds)[g] = IF g \in TransferFds THEN "free" ELSE tab[g]
  BY DEF Closed, Kinds
<1>5. /\ fdtab[ConnFd] = "conn"
      /\ ssn.pasvfd # NoFd => fdtab[ssn.pasvfd] = "listen"
      /\ filefd # NoFd => fdtab[filefd] = "file"
      /\ \A f \in Fds : fdtab[f] = "data" <=> f = ssn.datafd
  BY DEF IInv, SessionInv, DescriptorsOwned
<1>6. ConnFd \notin TransferFds
  BY <1>5, FdFacts DEF TransferFds
<1>7. ASSUME ssn.pasvfd # NoFd, ssn.rcvMode # "PASSIVE"
      PROVE  ssn.pasvfd \in Fds /\ ssn.pasvfd \notin TransferFds
  BY <1>2, <1>5, <1>7 DEF TransferFds, Sessions
<1>8. \A f \in Fds : Closed(tab, TransferFds)[f] # "data"
  BY <1>4, <1>5 DEF TransferFds
<1>9. Closed(tab, TransferFds)[ConnFd] = "conn"
  BY <1>4, <1>5, <1>6, FdFacts
<1>10. TransferOver.pasvfd # NoFd =>
         Closed(tab, TransferFds)[TransferOver.pasvfd] = "listen"
  BY <1>3, <1>4, <1>5, <1>7
<1>11. Idle(TransferOver, Closed(tab, TransferFds))
  BY <1>3, <1>4, <1>8, <1>9, <1>10 DEF Idle
<1>12. /\ SessionInv'
       /\ \/ at' = "exit"
          \/ at' = "read" /\ out' = Append(out, code)
  BY <1>1, <1>11, ReplyKeeps
<1>13. out = <<150>> /\ line \in DataCmds /\ line' = line
  BY DEF IInv, ReplyInv, ReplyDiscipline, Keep
<1>14. ReplyInv'
  <2>1. CASE at' = "exit"
    BY <2>1 DEF ReplyInv, ReplyDiscipline
  <2>2. CASE at' = "read" /\ out' = Append(out, code)
    <3>1. out' = Append(<<150>>, code)
      BY <1>13, <2>2
    <3>2. Len(out') = 2 /\ out'[1] = 150 /\ out'[2] = code
      BY <3>1
    <3>3. QED
      BY <1>13, <2>2, <3>2 DEF ReplyInv, ReplyDiscipline
  <2>3. QED
    BY <1>12, <2>1, <2>2
<1>15. QED
  BY <1>12, <1>14, BetweenReads

LEMMA EndTransferKeeps ==
  ASSUME IInv, EndTransfer
  PROVE  IInv'
<1>1. fdtab \in [Fds -> Kinds]
  BY DEF IInv, TypeOK
<1>2. PICK code \in {226, 426} : Finish(code, fdtab)
  BY DEF EndTransfer
<1>3. at = "xfer" /\ Keep /\ code \in Nat \ {150}
  BY DEF EndTransfer
<1>4. QED
  BY <1>1, <1>2, <1>3, FinishKeeps

LEMMA EndListKeeps ==
  ASSUME IInv, EndList
  PROVE  IInv'
<1>0. at = "xfer" /\ Keep
  BY DEF EndList
<1>1. fdtab \in [Fds -> Kinds]
  BY DEF IInv, TypeOK
<1>2. CASE Finish(426, fdtab)
  BY <1>0, <1>1, <1>2, FinishKeeps
<1>3. ASSUME NEW f \in Fds, NEW code \in {226, 426},
             IsLowestFree(f), Finish(code, Opened(f, "dir"))
      PROVE  IInv'
  <2>1. /\ Opened(f, "dir") \in [Fds -> Kinds]
        /\ \A g \in Fds :
             Opened(f, "dir")[g] = IF g = f THEN "dir" ELSE fdtab[g]
    BY <1>1 DEF Opened, Kinds
  <2>2. fdtab[f] = "free"
    BY <1>3 DEF IsLowestFree
  <2>3. \A g \in Fds : \/ Opened(f, "dir")[g] = fdtab[g]
                       \/ fdtab[g] = "free" /\ Opened(f, "dir")[g] = "dir"
    BY <2>1, <2>2
  <2>4. code \in Nat \ {150}
    OBVIOUS
  <2>5. QED
    BY <1>0, <1>3, <2>1, <2>3, <2>4, FinishKeeps
<1>4. QED
  BY <1>2, <1>3 DEF EndList

LEMMA PeerClosesKeeps ==
  ASSUME IInv, PeerCloses
  PROVE  IInv'
<1>1. /\ at' = at /\ line' = line /\ ssn' = ssn /\ filefd' = filefd
      /\ fdtab' = fdtab /\ out' = out /\ stale' = stale
      /\ peer' = "gone" /\ unread' \in BOOLEAN /\ at # "exit"
  BY DEF PeerCloses
<1>2. TypeOK' /\ StateTyped'
  BY <1>1 DEF IInv, TypeOK, SessionInv, StateTyped
<1>3. DescriptorsOwned' /\ ModeExcludesRename' /\ LoginGate'
  BY <1>1 DEF IInv, SessionInv, DescriptorsOwned, ModeExcludesRename, LoginGate
<1>4. ReplyInv'
  BY <1>1 DEF IInv, ReplyInv, ReplyDiscipline
<1>5. QuitEnds'
  BY <1>1, EnvKeepsQuit DEF IInv
<1>6. QED
  BY <1>2, <1>3, <1>4, <1>5 DEF IInv, SessionInv

-----------------------------------------------------------------------------
(* Theorems *)

LEMMA InitKeeps ==
  ASSUME Init
  PROVE  IInv
<1>1. /\ at = "start" /\ line = "none" /\ ssn = new_session /\ filefd = NoFd
      /\ fdtab = [NoFds EXCEPT ![ConnFd] = "conn"] /\ out = <<>>
      /\ stale = FALSE /\ peer = "up" /\ unread = FALSE
  BY DEF Init
<1>2. /\ ssn \in Sessions
      /\ ssn.rcvMode = "NOMODE" /\ ssn.pasvfd = NoFd /\ ssn.datafd = NoFd
      /\ ssn.rnfrName = NULL /\ ssn.currentPos = 0
  BY <1>1, OffsetsAssumption DEF new_session, Sessions
<1>3. /\ fdtab \in [Fds -> Kinds]
      /\ \A f \in Fds : fdtab[f] = IF f = ConnFd THEN "conn" ELSE "free"
  BY <1>1 DEF NoFds, Kinds
<1>4. StateTyped
  <2>1. out \in Seq(Nat)
    BY <1>1
  <2>2. at = "start" /\ filefd = NoFd
    BY <1>1
  <2>3. QED
    BY <1>2, <1>3, <2>1, <2>2 DEF StateTyped
<1>5. TypeOK
  <2>1. /\ line \in Titles \cup {"none"} /\ stale \in BOOLEAN
        /\ peer \in {"up", "gone"} /\ unread \in BOOLEAN
    BY <1>1
  <2>2. QED
    BY <1>4, <2>1 DEF StateTyped, TypeOK
<1>6. DescriptorsOwned /\ ModeExcludesRename /\ LoginGate
  BY <1>1, <1>2, <1>3, FdFacts DEF DescriptorsOwned, ModeExcludesRename, LoginGate
<1>7. ReplyInv /\ QuitEnds
  BY <1>1 DEF ReplyInv, ReplyDiscipline, QuitEnds
<1>8. QED
  BY <1>4, <1>5, <1>6, <1>7 DEF IInv, SessionInv

LEMMA NextKeeps ==
  ASSUME IInv, [Next]_vars
  PROVE  IInv'
<1>1. CASE Welcome
  BY <1>1, WelcomeKeeps
<1>2. CASE \E title \in Titles : \E arg \in ArgsOf(title) : ReadLine(title, arg)
  BY <1>2, ReadLineKeeps
<1>3. CASE EndOfFile
  BY <1>3, ExitStepKeeps DEF EndOfFile, Keep
<1>4. CASE Accept
  BY <1>4, AcceptKeeps
<1>5. CASE AcceptRefused
  BY <1>5, AcceptRefusedKeeps
<1>6. CASE Connect
  BY <1>6, ConnectKeeps
<1>7. CASE EndTransfer
  BY <1>7, EndTransferKeeps
<1>8. CASE EndList
  BY <1>8, EndListKeeps
<1>9. CASE DataSigPipe
  BY <1>9, ExitStepKeeps DEF DataSigPipe
<1>10. CASE PeerCloses
  BY <1>10, PeerClosesKeeps
<1>11. CASE UNCHANGED vars
  <2>1. /\ at' = at /\ line' = line /\ ssn' = ssn /\ filefd' = filefd
        /\ fdtab' = fdtab /\ out' = out /\ stale' = stale
        /\ peer' = peer /\ unread' = unread
    BY <1>11 DEF vars
  <2>2. TypeOK' /\ StateTyped'
    BY <2>1 DEF IInv, TypeOK, SessionInv, StateTyped
  <2>3. DescriptorsOwned' /\ ModeExcludesRename' /\ LoginGate'
    BY <2>1
       DEF IInv, SessionInv, DescriptorsOwned, ModeExcludesRename, LoginGate
  <2>4. ReplyInv'
    BY <2>1 DEF IInv, ReplyInv, ReplyDiscipline
  <2>5. QuitEnds'
    BY <2>1 DEF IInv, QuitEnds
  <2>6. QED
    BY <2>2, <2>3, <2>4, <2>5 DEF IInv, SessionInv
<1>12. QED
  BY <1>1, <1>2, <1>3, <1>4, <1>5, <1>6, <1>7, <1>8, <1>9, <1>10, <1>11 DEF Next

\* The inductive invariant holds in every state of the specification.
THEOREM Invariance == Spec => []IInv
<1>1. Init => IInv
  BY InitKeeps
<1>2. IInv /\ [Next]_vars => IInv'
  BY NextKeeps
<1>3. QED
  BY <1>1, <1>2, PTL DEF Spec

\* Type correctness of the child process and its Session struct.
THEOREM TypeCorrect == Spec => []TypeOK
<1>1. IInv => TypeOK
  BY DEF IInv
<1>2. QED
  BY <1>1, Invariance, PTL

\* A selected mode and a pending rename never coexist, so check_stage always
\* leaves some command other than QUIT that it accepts.
THEOREM ModeRenameExclusion == Spec => []ModeExcludesRename
<1>1. IInv => ModeExcludesRename
  BY DEF IInv, SessionInv
<1>2. QED
  BY <1>1, Invariance, PTL

\* The descriptors that the session records are open and of the right kind,
\* and a data connection exists exactly while a transfer runs.
THEOREM DescriptorOwnership == Spec => []DescriptorsOwned
<1>1. IInv => DescriptorsOwned
  BY DEF IInv, SessionInv
<1>2. QED
  BY <1>1, Invariance, PTL

\* One final reply per command, after one 150 per transfer.
THEOREM OneReplyPerCommand == Spec => []ReplyDiscipline
<1>1. IInv => ReplyDiscipline
  BY DEF IInv, ReplyInv
<1>2. QED
  BY <1>1, Invariance, PTL

\* Before PASS is accepted, no command leaves a trace.
THEOREM NothingBeforeLogin == Spec => []LoginGate
<1>1. IInv => LoginGate
  BY DEF IInv, SessionInv
<1>2. QED
  BY <1>1, Invariance, PTL

\* QUIT ends the process unless an overlong line came before it.
THEOREM QuitTerminates == Spec => []QuitEnds
<1>1. IInv => QuitEnds
  BY DEF IInv
<1>2. QED
  BY <1>1, Invariance, PTL
-----------------------------------------------------------------------------
(* What the last reply tells of the session *)

\* A mode that is left selected, or a name that is left pending, goes with a
\* reply that says so.  227 and 200 are said only with the mode selected.
Tells(title, code, s) ==
  /\ s.rcvMode # "NOMODE" =>
       \/ title = "PASV" /\ code = 227
       \/ title = "PORT" /\ code = 200
       \/ code \in {426, 452, 500, 503}
  /\ s.rnfrName # NULL => (title = "RNFR" /\ code = 350) \/ code \in {550, 500, 503}
  /\ code = 227 => title = "PASV" /\ s.rcvMode = "PASSIVE"
  /\ code = 200 => title = "TYPE" \/ (title = "PORT" /\ s.rcvMode = "INPORT")

Free(s) == s.rcvMode = "NOMODE" /\ s.rnfrName = NULL

\* Between lines the last reply tells; while a data command is served the mode
\* is selected, and its end leaves nothing.
RepliesTell ==
  /\ at = "start" => Free(ssn)
  /\ at \in {"dial", "xfer"} => ssn.rcvMode # "NOMODE"
  /\ at = "read" =>
       \/ \E code \in Nat : out = <<code>> /\ Tells(line, code, ssn)
       \/ Len(out) = 2 /\ Free(ssn)

TellInv == IInv /\ RepliesTell

LEMMA FreeTells ==
  ASSUME NEW s, Free(s), NEW title, NEW code,
         code = 227 => title = "PASV" /\ s.rcvMode = "PASSIVE",
         code = 200 => title = "TYPE" \/ (title = "PORT" /\ s.rcvMode = "INPORT")
  PROVE  Tells(title, code, s)
BY DEF Free, Tells

\* A handler that answers leaves what its reply tells.
LEMMA ReplyTells ==
  ASSUME at = "read", NEW title, line' = title, NEW code \in Nat, NEW s, NEW tab,
         message_client(code, s, tab, "read"), Tells(title, code, s)
  PROVE  RepliesTell'
<1>1. CASE Exit
  BY <1>1 DEF Exit, RepliesTell
<1>2. CASE ~Exit
  <2>1. Append(<<>>, code) = <<code>>
    OBVIOUS
  <2>2. out' = <<code>> /\ ssn' = s /\ at' = "read"
    BY <1>2, <2>1 DEF message_client
  <2>3. QED
    BY <2>2 DEF RepliesTell
<1>3. QED
  BY <1>1, <1>2

\* A refusal of check_stage tells whatever it finds.
LEMMA RefusalTells ==
  ASSUME IInv, at = "read", NEW title \in Titles, check_stage(title) # 0
  PROVE  check_stage(title) \in Nat /\ Tells(title, check_stage(title), ssn)
<1>1. check_stage(title) \in {500, 503, 530}
  BY DEF check_stage
<1>2. ASSUME check_stage(title) = 530
      PROVE  Free(ssn)
  <2>1. NotLoggedIn(title)
    BY <1>2 DEF check_stage
  <2>2. ssn.authStage # PASSWORD_OK
    BY <2>1 DEF NotLoggedIn, CONNECTED, USERNAME_OK, PASSWORD_OK
  <2>3. QED
    BY <2>2 DEF IInv, SessionInv, LoginGate, Free
<1>3. QED
  BY <1>1, <1>2 DEF Tells, Free

\* What check_stage lets through, but QUIT and ABOR, fits the session.
LEMMA PassedStage ==
  ASSUME NEW title, check_stage(title) = 0, title \notin {"QUIT", "ABOR"}
  PROVE  /\ title \in CmdList
         /\ title \in DataCmds <=> ssn.rcvMode # "NOMODE"
         /\ title = "RNTO" <=> ssn.rnfrName # NULL
BY DEF check_stage, OutOfOrder

\* Handlers that run with no mode and no name, and set neither.
LEMMA PlainTells ==
  ASSUME IInv, at = "read", NEW title, line' = title, NEW arg, Free(ssn),
         \/ title = "USER" /\ cmd_user(arg)
         \/ title = "PASS" /\ cmd_pass
         \/ title = "REST" /\ cmd_rest
         \/ title = "SYST" /\ cmd_syst
         \/ title = "TYPE" /\ cmd_type(arg)
         \/ cmd_mkd \/ cmd_cwd \/ cmd_rmd \/ cmd_dele \/ cmd_pwd
  PROVE  RepliesTell'
<1>0. ssn \in Sessions
  BY DEF IInv, TypeOK
<1>1. ASSUME NEW code \in Nat, NEW s, Free(s), message_client(code, s, fdtab, "read"),
             code \notin {200, 227} \/ (code = 200 /\ title = "TYPE")
      PROVE  RepliesTell'
  <2>1. Tells(title, code, s)
    BY <1>1, FreeTells
  <2>2. QED
    BY <1>1, <2>1, ReplyTells
<1>2. ASSUME NEW code \in Nat \ {200, 227}, Reply(code, ssn)
      PROVE  RepliesTell'
  BY <1>1, <1>2 DEF Reply
<1>3. CASE cmd_user(arg) \/ cmd_pass
  <2> DEFINE s(stage) == [ssn EXCEPT !.authStage = stage]
  <2>1. \A stage : Free(s(stage))
    BY <1>0 DEF Free, Sessions
  <2>2. cmd_user(arg) => \/ Reply(502, ssn)
                         \/ message_client(331, s(USERNAME_OK), fdtab, "read")
                         \/ message_client(530, s(CONNECTED), fdtab, "read")
    BY DEF cmd_user, Reply
  <2>3. cmd_pass => \/ Reply(502, ssn)
                    \/ message_client(230, s(PASSWORD_OK), fdtab, "read")
    BY DEF cmd_pass, Reply
  <2> HIDE DEF s
  <2>4. QED
    BY <1>1, <1>2, <1>3, <2>1, <2>2, <2>3
<1>4. CASE cmd_rest
  <2> DEFINE s(pos) == [ssn EXCEPT !.currentPos = pos]
  <2>1. \A pos : Free(s(pos))
    BY <1>0 DEF Free, Sessions
  <2>2. \E pos \in Offsets : message_client(350, s(pos), fdtab, "read")
    BY <1>4 DEF cmd_rest, Reply
  <2> HIDE DEF s
  <2>3. QED
    BY <1>1, <2>1, <2>2
<1>5. CASE title = "TYPE" /\ cmd_type(arg)
  <2>1. \/ message_client(200, ssn, fdtab, "read")
        \/ message_client(500, ssn, fdtab, "read")
    BY <1>5 DEF cmd_type, Reply
  <2>2. QED
    BY <1>1, <1>5, <2>1
<1>6. CASE cmd_syst \/ cmd_mkd \/ cmd_cwd \/ cmd_rmd \/ cmd_dele \/ cmd_pwd
  BY <1>2, <1>6 DEF cmd_syst, cmd_mkd, cmd_cwd, cmd_rmd, cmd_dele, cmd_pwd
<1>7. QED
  BY <1>3, <1>4, <1>5, <1>6

\* PASV and PORT select the mode that their positive reply tells.
LEMMA SelectTells ==
  ASSUME IInv, at = "read", NEW title, line' = title, Free(ssn),
         \/ title = "PASV" /\ cmd_pasv
         \/ title = "PORT" /\ cmd_port
  PROVE  RepliesTell'
<1>0. ssn \in Sessions
  BY DEF IInv, TypeOK
<1>1. CASE title = "PASV" /\ cmd_pasv
  <2>1. \A fd : Listening(fd).rcvMode = "PASSIVE" /\ Listening(fd).rnfrName = NULL
    BY <1>0 DEF Listening, Sessions, Free
  <2>2. \A fd, tab : message_client(452, Listening(fd), tab, "read") => RepliesTell'
    BY <2>1, ReplyTells DEF Tells
  <2>3. \A fd, tab : message_client(227, Listening(fd), tab, "read") => RepliesTell'
    BY <1>1, <2>1, ReplyTells DEF Tells
  <2>4. QED
    BY <1>1, <2>2, <2>3 DEF cmd_pasv, Free
<1>2. CASE title = "PORT" /\ cmd_port
  <2> DEFINE s == [ssn EXCEPT !.rcvMode = "INPORT"]
  <2>1. s.rcvMode = "INPORT" /\ s.rnfrName = NULL
    BY <1>0 DEF Sessions, Free
  <2>2. message_client(200, s, fdtab, "read")
    BY <1>2 DEF cmd_port, Reply, Free
  <2> HIDE DEF s
  <2>3. Tells(title, 200, s)
    BY <1>2, <2>1 DEF Tells
  <2>4. QED
    BY <2>2, <2>3, ReplyTells
<1>3. QED
  BY <1>1, <1>2

\* RNFR leaves a name with its 350, RNTO leaves it only with a 550.
LEMMA RenameTells ==
  ASSUME IInv, at = "read", NEW title, line' = title, NEW arg, ssn.rcvMode = "NOMODE",
         \/ title = "RNFR" /\ cmd_rnfr(arg)
         \/ title = "RNTO" /\ cmd_rnto(arg)
  PROVE  RepliesTell'
<1> DEFINE s(name) == [ssn EXCEPT !.rnfrName = name]
<1>1. \A name : s(name).rcvMode = "NOMODE" /\ s(name).rnfrName = name
  BY DEF IInv, TypeOK, Sessions
<1>2. /\ cmd_rnfr(arg) => \/ message_client(550, ssn, fdtab, "read")
                          \/ message_client(350, s("set"), fdtab, "read")
      /\ cmd_rnto(arg) => \/ message_client(550, ssn, fdtab, "read")
                          \/ message_client(503, ssn, fdtab, "read")
                          \/ message_client(250, s(NULL), fdtab, "read")
                          \/ message_client(550, s(NULL), fdtab, "read")
  BY DEF cmd_rnfr, cmd_rnto, Reply
<1> HIDE DEF s
<1>3. /\ Tells(title, 550, ssn) /\ Tells(title, 503, ssn)
      /\ Tells(title, 250, s(NULL)) /\ Tells(title, 550, s(NULL))
      /\ title = "RNFR" => Tells(title, 350, s("set"))
  BY <1>1 DEF Tells
<1>4. QED
  BY <1>2, <1>3, ReplyTells

\* A data command gives the mode up with its reply, or is served with it.
LEMMA DataTells ==
  ASSUME IInv, at = "read", NEW title, line' = title, NEW arg,
         ssn.rcvMode # "NOMODE", OpenFile(arg) \/ cmd_list
  PROVE  RepliesTell'
<1>1. ASSUME NEW tab, FileRefused(tab)
      PROVE  RepliesTell'
  <2> DEFINE s == [ssn EXCEPT !.rcvMode = "NOMODE"]
  <2>1. Free(s)
    BY DEF IInv, TypeOK, Sessions, SessionInv, ModeExcludesRename, Free
  <2>2. message_client(551, s, tab, "read")
    BY <1>1 DEF FileRefused
  <2> HIDE DEF s
  <2>3. Tells(title, 551, s)
    BY <2>1, FreeTells
  <2>4. QED
    BY <2>2, <2>3, ReplyTells
<1>2. ASSUME NEW fd, NEW tab, Dial(fd, tab)
      PROVE  RepliesTell'
  BY <1>2 DEF Dial, RepliesTell
<1>3. QED
  BY <1>1, <1>2 DEF OpenFile, cmd_list

LEMMA HandlerTells ==
  ASSUME IInv, at = "read", NEW title \in Titles, line' = title, NEW arg,
         handle_command(title, arg)
  PROVE  RepliesTell'
<1>1. CASE check_stage(title) # 0
  BY <1>1, RefusalTells, ReplyTells DEF handle_command, Reply
<1>2. CASE check_stage(title) = 0 /\ title = "QUIT"
  <2>1. cmd_quit
    BY <1>2 DEF handle_command
  <2>2. at' = "exit"
    BY <2>1 DEF cmd_quit, message_client, Exit
  <2>3. QED
    BY <2>2 DEF RepliesTell
<1>3. CASE check_stage(title) = 0 /\ title = "ABOR"
  <2>1. message_client(500, ssn, fdtab, "read")
    BY <1>3 DEF handle_command, Reply
  <2>2. Tells(title, 500, ssn)
    BY DEF Tells
  <2>3. QED
    BY <2>1, <2>2, ReplyTells
<1>4. CASE check_stage(title) = 0 /\ title \notin {"QUIT", "ABOR"}
  <2>1. /\ title \in CmdList
        /\ title \in DataCmds <=> ssn.rcvMode # "NOMODE"
        /\ title = "RNTO" <=> ssn.rnfrName # NULL
    BY <1>4, PassedStage
  <2>2. CASE title \in DataCmds
    <3>1. OpenFile(arg) \/ cmd_list
      BY <1>4, <2>2 DEF handle_command, DataCmds, cmd_retr, cmd_stor
    <3>2. QED
      BY <2>1, <2>2, <3>1, DataTells
  <2>3. CASE title \in {"RNFR", "RNTO"}
    <3>1. \/ title = "RNFR" /\ cmd_rnfr(arg)
          \/ title = "RNTO" /\ cmd_rnto(arg)
      BY <1>4, <2>3 DEF handle_command
    <3>2. ssn.rcvMode = "NOMODE"
      BY <2>1, <2>3 DEF DataCmds
    <3>3. QED
      BY <3>1, <3>2, RenameTells
  <2>4. CASE title \in {"PASV", "PORT"}
    <3>1. \/ title = "PASV" /\ cmd_pasv
          \/ title = "PORT" /\ cmd_port
      BY <1>4, <2>4 DEF handle_command
    <3>2. Free(ssn)
      BY <2>1, <2>4 DEF DataCmds, Free
    <3>3. QED
      BY <3>1, <3>2, SelectTells
  <2>5. CASE title \notin DataCmds \cup {"RNFR", "RNTO", "PASV", "PORT"}
    <3>1. \/ title = "USER" /\ cmd_user(arg)
          \/ title = "PASS" /\ cmd_pass
          \/ title = "REST" /\ cmd_rest
          \/ title = "SYST" /\ cmd_syst
          \/ title = "TYPE" /\ cmd_type(arg)
          \/ cmd_mkd \/ cmd_cwd \/ cmd_rmd \/ cmd_dele \/ cmd_pwd
      BY <1>4, <2>5 DEF handle_command, DataCmds
    <3>2. Free(ssn)
      BY <2>1, <2>5 DEF Free
    <3>3. QED
      BY <3>1, <3>2, PlainTells
  <2>6. QED
    BY <2>2, <2>3, <2>4, <2>5
<1>5. QED
  BY <1>1, <1>2, <1>3, <1>4

\* The steps between two lines.
LEMMA ContinueTells ==
  ASSUME TellInv,
         Accept \/ AcceptRefused \/ Connect \/ EndTransfer \/ EndList \/ DataSigPipe
  PROVE  RepliesTell'
<1>0. ssn \in Sessions /\ (at = "dial" => out = <<>>) /\ (at = "xfer" => out = <<150>>)
  BY DEF TellInv, IInv, TypeOK, ReplyInv, ReplyDiscipline
<1>1. ssn.rnfrName = NULL \/ at \notin {"dial", "xfer"}
  BY DEF TellInv, RepliesTell, IInv, SessionInv, ModeExcludesRename
<1>2. ASSUME Exit
      PROVE  RepliesTell'
  BY <1>2 DEF Exit, RepliesTell
<1>3. ASSUME at = "dial", NEW tab, DialFails(tab)
      PROVE  RepliesTell'
  <2> DEFINE s == [ssn EXCEPT !.datafd = NoFd]
  <2>1. Append(<<>>, 426) = <<426>>
    OBVIOUS
  <2>2. s.rcvMode = ssn.rcvMode /\ s.rnfrName = ssn.rnfrName
    BY <1>0 DEF Sessions
  <2>3. Exit \/ (out' = <<426>> /\ ssn' = s /\ at' = "read")
    BY <1>0, <1>3, <2>1 DEF DialFails, message_client
  <2> HIDE DEF s
  <2>4. Tells(line', 426, s)
    BY <1>1, <1>3, <2>2 DEF Tells
  <2>5. QED
    BY <1>2, <2>3, <2>4 DEF RepliesTell
<1>4. ASSUME at = "dial", NEW f, DialWorks(f)
      PROVE  RepliesTell'
  <2> DEFINE s == [ssn EXCEPT !.datafd = f]
  <2>1. s.rcvMode = ssn.rcvMode
    BY <1>0 DEF Sessions
  <2>2. Exit \/ (ssn' = s /\ at' = "xfer")
    BY <1>4 DEF DialWorks, message_client
  <2> HIDE DEF s
  <2>3. QED
    BY <1>2, <1>4, <2>1, <2>2 DEF RepliesTell, TellInv
<1>5. ASSUME at = "xfer", NEW code \in {226, 426}, NEW tab, Finish(code, tab)
      PROVE  RepliesTell'
  <2>1. Len(Append(out, code)) = 2
    BY <1>0, <1>5
  <2>2. TransferOver.rcvMode = "NOMODE" /\ TransferOver.rnfrName = ssn.rnfrName
    BY <1>0 DEF TransferOver, Sessions
  <2>3. Exit \/ (Len(out') = 2 /\ ssn' = TransferOver /\ at' = "read")
    BY <1>0, <1>5, <2>1 DEF Finish, message_client
  <2>4. QED
    BY <1>1, <1>2, <1>5, <2>2, <2>3 DEF RepliesTell, Free
<1>6. QED
  BY <1>2, <1>3, <1>4, <1>5
     DEF Accept, AcceptRefused, Connect, EndTransfer, EndList, DataSigPipe, Passive

LEMMA TellNext ==
  ASSUME TellInv, [Next]_vars
  PROVE  TellInv'
<1>1. IInv'
  BY NextKeeps DEF TellInv
<1>2. CASE Welcome
  <2>1. at = "start" /\ message_client(220, ssn, fdtab, "read") /\ out = <<>> /\ Free(ssn)
    BY <1>2 DEF Welcome, TellInv, IInv, ReplyInv, RepliesTell
  <2>2. Append(<<>>, 220) = <<220>>
    OBVIOUS
  <2>3. at' = "exit" \/ (out' = <<220>> /\ ssn' = ssn /\ at' = "read")
    BY <2>1, <2>2 DEF message_client, Exit
  <2>4. RepliesTell'
    BY <2>1, <2>3, FreeTells DEF RepliesTell
  <2>5. QED
    BY <1>1, <2>4 DEF TellInv
<1>3. ASSUME NEW title \in Titles, NEW arg, ReadLine(title, arg)
      PROVE  TellInv'
  <2>1. at = "read" /\ line' = title
    BY <1>3 DEF ReadLine
  <2>2. Tells(title, 500, ssn)
    BY DEF Tells
  <2>3. RepliesTell'
    BY <1>3, <2>1, <2>2, ReplyTells, HandlerTells DEF ReadLine, Reply, TellInv
  <2>4. QED
    BY <1>1, <2>3 DEF TellInv
<1>4. CASE EndOfFile
  BY <1>1, <1>4 DEF EndOfFile, Exit, TellInv, RepliesTell
<1>5. CASE Accept \/ AcceptRefused \/ Connect \/ EndTransfer \/ EndList \/ DataSigPipe
  BY <1>1, <1>5, ContinueTells DEF TellInv
<1>6. CASE PeerCloses \/ UNCHANGED vars
  <2>1. at' = at /\ line' = line /\ ssn' = ssn /\ out' = out
    BY <1>6 DEF PeerCloses, vars
  <2>2. QED
    BY <1>1, <2>1 DEF TellInv, RepliesTell
<1>7. QED
  BY <1>2, <1>3, <1>4, <1>5, <1>6 DEF Next

\* A mode or a name that outlives its command is told by the last reply, for
\* every client: what the session is left with can be read off its answers.
THEOREM LastReplyTells == Spec => []RepliesTell
<1>1. Init => TellInv
  <2> SUFFICES ASSUME Init PROVE TellInv
    OBVIOUS
  <2>1. at = "start" /\ Free(ssn)
    BY DEF Init, new_session, Free
  <2>2. QED
    BY <2>1, InitKeeps DEF TellInv, RepliesTell
<1>2. TellInv /\ [Next]_vars => TellInv'
  BY TellNext
<1>3. TellInv => RepliesTell
  BY DEF TellInv
<1>4. QED
  BY <1>1, <1>2, <1>3, PTL DEF Spec
=============================================================================
