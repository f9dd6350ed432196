----------------------------- MODULE FtpSession -----------------------------
(***************************************************************************)
(* One server child process: communicate() of server.c and the command     *)
(* handlers of command.c, over the Session struct, the descriptor table    *)
(* of the process and the control connection to one client.                *)
(*                                                                         *)
(* A step is one return of a blocking call (read on the control            *)
(* connection, accept/connect for the data connection, the transfer loop)  *)
(* with all the code that runs until the next one.  Results of system      *)
(* calls are nondeterministic; contents of files are left to later         *)
(* modules.                                                                *)
(***************************************************************************)
EXTENDS Integers, Sequences

CONSTANTS
  MaxFds,    \* RLIMIT_NOFILE less the standard streams: descriptors 1..MaxFds
  Offsets    \* what atol can return for the argument of REST

ASSUME MaxFdsAssumption == MaxFds \in Nat \ {0}
ASSUME OffsetsAssumption == Offsets \subseteq Int /\ 0 \in Offsets

VARIABLES
  at,        \* where the process is blocked: "start", "read", "dial" (in
             \* try_data_connection), "xfer" (transfer loop), "exit" (ended)
  line,      \* title of the last line read from the control connection
  ssn,       \* the Session struct
  filefd,    \* local variable fd of cmd_retr / cmd_stor
  fdtab,     \* kernel descriptor table of the process
  out,       \* reply codes written since the last line was read
  stale,     \* an overlong line is left in communicate's buffer
  peer,      \* "up", or "gone" once the client has closed the connection
  unread     \* bytes sent before the client closed are still unread

vars == <<at, line, ssn, filefd, fdtab, out, stale, peer, unread>>

-----------------------------------------------------------------------------
CONNECTED   == 0
USERNAME_OK == 1
PASSWORD_OK == 2

NoFd == -1
NULL == "NULL"
Fds == 1 .. MaxFds
ConnFd == 1
Kinds == {"free", "conn", "socket", "listen", "data", "file", "dir"}

CmdList == {"USER", "PASS", "RETR", "STOR", "REST", "QUIT", "ABOR", "SYST",
            "TYPE", "PORT", "PASV", "MKD", "CWD", "PWD", "LIST", "RMD",
            "DELE", "RNFR", "RNTO"}
DataCmds == {"RETR", "STOR", "LIST"}

\* Lines that never reach parse_command: strlen above 1030, and an empty
\* line or one whose first byte is not 7-bit.  "OTHER" is an unknown title.
Titles == CmdList \cup {"OTHER", "GARBLED", "OVERLONG"}
\* Arguments, by what the handler of the title tells apart: "dotdot" holds
\* "../", "long" is over its limit (1024 for RETR and STOR, 256 for the rename).
ArgsOf(title) ==
  {"name"}
    \cup (IF title = "USER" THEN {"anonymous"} ELSE {})
    \cup (IF title = "TYPE" THEN {"I"} ELSE {})
    \cup (IF title \in {"RETR", "STOR"} THEN {"dotdot", "long"} ELSE {})
    \cup (IF title \in {"RNFR", "RNTO"} THEN {"long"} ELSE {})

-----------------------------------------------------------------------------
(* Descriptors *)

NoFds == [f \in Fds |-> "free"]
IsLowestFree(f) ==
  /\ fdtab[f] = "free"
  /\ \A g \in Fds : fdtab[g] = "free" => f <= g
TableFull == \A f \in Fds : fdtab[f] # "free"
Opened(f, kind) == [fdtab EXCEPT ![f] = kind]

\* close() of every descriptor of fs that is one: sclose_sock skips -1.
Closed(tab, fs) == [f \in Fds |-> IF f \in fs THEN "free" ELSE tab[f]]

-----------------------------------------------------------------------------
(* Session state and replies *)

\* Mutant: the second field of new_session that must be -1 is left zeroed.
new_session_ZeroPasvfd ==
  [authStage |-> CONNECTED, rcvMode |-> "NOMODE", pasvfd |-> 0,
   datafd |-> NoFd, rnfrName |-> NULL, currentPos |-> 0]

new_session ==
  [authStage |-> CONNECTED, rcvMode |-> "NOMODE", pasvfd |-> NoFd,
   datafd |-> NoFd, rnfrName |-> NULL, currentPos |-> 0]

\* The process ends: exit() or an unhandled SIGPIPE.  The kernel closes all.
Exit ==
  /\ at' = "exit"
  /\ fdtab' = NoFds
  /\ filefd' = NoFd
  /\ UNCHANGED <<ssn, out>>

\* message_client with reply code after the handler has set the session to s
\* and the descriptors to tab; then the process goes on at next.  Writing to
\* a connection whose peer is gone may raise SIGPIPE, which is not handled.
message_client(code, s, tab, next) ==
  \/ /\ out' = Append(IF at = "read" THEN <<>> ELSE out, code)
     /\ ssn' = s
     /\ fdtab' = tab
     /\ at' = next
     /\ filefd' = IF next = "xfer" THEN filefd ELSE NoFd
  \/ peer = "gone" /\ Exit

Reply(code, s) == message_client(code, s, fdtab, "read")

-----------------------------------------------------------------------------
(* check_stage *)

\* Mutant: the stage between USER and PASS is not guarded.
NotLoggedIn_UserSuffices(title) ==
  ssn.authStage = CONNECTED /\ title # "USER"

NotLoggedIn(title) ==
  \/ ssn.authStage = CONNECTED /\ title # "USER"
  \/ ssn.authStage = USERNAME_OK /\ title # "PASS"

\* Mutant: a pending RNFR does not hold other commands back.
OutOfOrder_RenameFree(title) ==
  \/ (ssn.rcvMode # "NOMODE") # (title \in DataCmds)
  \/ title = "RNTO" /\ ssn.rnfrName = NULL

\* Mutant: only PASSIVE counts as a selected mode.
OutOfOrder_PassiveOnly(title) ==
  \/ (ssn.rcvMode = "PASSIVE") # (title \in DataCmds)
  \/ (ssn.rnfrName # NULL) # (title = "RNTO")

OutOfOrder(title) ==
  \/ (ssn.rcvMode # "NOMODE") # (title \in DataCmds)
  \/ (ssn.rnfrName # NULL) # (title = "RNTO")

\* Mutant: QUIT and ABOR are let through only after the login checks.
check_stage_QuitGated(title) ==
  IF title \notin CmdList THEN 500
  ELSE IF NotLoggedIn(title) THEN 530
  ELSE IF title \in {"QUIT", "ABOR"} THEN 0
  ELSE IF OutOfOrder(title) THEN 503
  ELSE 0

\* The code of the refusal, or 0 when the command may run.
check_stage(title) ==
  IF title \notin CmdList THEN 500
  ELSE IF title \in {"QUIT", "ABOR"} THEN 0
  ELSE IF NotLoggedIn(title) THEN 530
  ELSE IF OutOfOrder(title) THEN 503
  ELSE 0

-----------------------------------------------------------------------------
(* Handlers that answer at once *)

cmd_user(arg) ==
  IF ssn.authStage >= USERNAME_OK THEN Reply(502, ssn)
  ELSE IF arg = "anonymous"
       THEN Reply(331, [ssn EXCEPT !.authStage = USERNAME_OK])
       ELSE Reply(530, [ssn EXCEPT !.authStage = CONNECTED])

cmd_pass ==
  IF ssn.authStage >= PASSWORD_OK THEN Reply(502, ssn)
  ELSE /\ ssn.authStage = USERNAME_OK
       /\ Reply(230, [ssn EXCEPT !.authStage = PASSWORD_OK])

\* init_socket_atport: the listening socket, or -1.  A socket that cannot be
\* bound (the port is taken) stays open.  The mode is PASSIVE in every case,
\* and a listening socket left from an earlier PASV is forgotten.
Listening(fd) == [ssn EXCEPT !.rcvMode = "PASSIVE", !.pasvfd = fd]

cmd_pasv ==
  IF ssn.rcvMode # "NOMODE" THEN Reply(502, ssn)
  ELSE \/ TableFull /\ message_client(452, Listening(NoFd), fdtab, "read")
       \/ \E f \in Fds :
            /\ IsLowestFree(f)
            /\ \/ message_client(227, Listening(f), Opened(f, "listen"), "read")
               \/ message_client(452, Listening(NoFd), Opened(f, "socket"), "read")

\* The address is dialled only when a data command comes.
cmd_port ==
  IF ssn.rcvMode # "NOMODE" THEN Reply(502, ssn)
  ELSE Reply(200, [ssn EXCEPT !.rcvMode = "INPORT"])

cmd_type(arg) == Reply(IF arg = "I" THEN 200 ELSE 500, ssn)
cmd_syst == Reply(215, ssn)
cmd_rest == \E pos \in Offsets : Reply(350, [ssn EXCEPT !.currentPos = pos])

\* Only whether a name is pending matters here, not which one.
cmd_rnfr(arg) ==
  IF arg = "long" THEN Reply(550, ssn)
  ELSE Reply(350, [ssn EXCEPT !.rnfrName = "set"])

\* rename() may fail; the pending name is dropped either way, but not when
\* the new name is too long.
cmd_rnto(arg) ==
  IF arg = "long" THEN Reply(550, ssn)
  ELSE IF ssn.rnfrName = NULL THEN Reply(503, ssn)
  ELSE \E code \in {250, 550} : Reply(code, [ssn EXCEPT !.rnfrName = NULL])

cmd_cwd  == \E code \in {250, 550} : Reply(code, ssn)
cmd_mkd  == \E code \in {250, 550} : Reply(code, ssn)
cmd_rmd  == \E code \in {250, 550} : Reply(code, ssn)
cmd_dele == \E code \in {250, 550} : Reply(code, ssn)
cmd_pwd  == Reply(250, ssn)

cmd_quit ==
  message_client(221, [ssn EXCEPT !.pasvfd = NoFd, !.datafd = NoFd],
                 NoFds, "exit")

-----------------------------------------------------------------------------
(* Handlers that open a data connection, up to try_data_connection *)

Dial(fd, tab) ==
  /\ at' = "dial"
  /\ out' = <<>>
  /\ filefd' = fd
  /\ fdtab' = tab
  /\ UNCHANGED ssn

\* Mutant: a file that cannot be opened leaves the mode selected.
FileRefused_KeepsMode(tab) == message_client(551, ssn, tab, "read")

\* The checks of cmd_retr and cmd_stor.  Every 551 gives the mode up but
\* keeps pasvfd; a failed lseek (negative offset) also keeps the file open.
FileRefused(tab) ==
  message_client(551, [ssn EXCEPT !.rcvMode = "NOMODE"], tab, "read")

OpenFile(arg) ==
  IF arg \in {"long", "dotdot"} THEN FileRefused(fdtab)
  ELSE \/ FileRefused(fdtab)
       \/ \E f \in Fds :
            /\ IsLowestFree(f)
            /\ IF ssn.currentPos < 0 THEN FileRefused(Opened(f, "file"))
               ELSE Dial(f, Opened(f, "file"))

cmd_retr(arg) == OpenFile(arg)
cmd_stor(arg) == OpenFile(arg)
cmd_list == Dial(NoFd, fdtab)

handle_command(title, arg) ==
  IF check_stage(title) # 0 THEN Reply(check_stage(title), ssn)
  ELSE \/ title = "USER" /\ cmd_user(arg)
       \/ title = "PASS" /\ cmd_pass
       \/ title = "RETR" /\ cmd_retr(arg)
       \/ title = "STOR" /\ cmd_stor(arg)
       \/ title = "REST" /\ cmd_rest
       \/ title = "QUIT" /\ cmd_quit
       \/ title = "SYST" /\ cmd_syst
       \/ title = "TYPE" /\ cmd_type(arg)
       \/ title = "PORT" /\ cmd_port
       \/ title = "PASV" /\ cmd_pasv
       \/ title = "MKD"  /\ cmd_mkd
       \/ title = "CWD"  /\ cmd_cwd
       \/ title = "PWD"  /\ cmd_pwd
       \/ title = "LIST" /\ cmd_list
       \/ title = "RMD"  /\ cmd_rmd
       \/ title = "RNFR" /\ cmd_rnfr(arg)
       \/ title = "DELE" /\ cmd_dele
       \/ title = "RNTO" /\ cmd_rnto(arg)
       \/ title = "ABOR" /\ Reply(500, ssn)

-----------------------------------------------------------------------------
(* Steps of the process *)

\* The greeting at the head of communicate.
Welcome ==
  /\ at = "start"
  /\ message_client(220, ssn, fdtab, "read")
  /\ UNCHANGED <<line, stale, peer, unread>>

\* One turn of communicate's loop.  The two early "continue"s skip the
\* memset of the buffer: after an overlong line every later line is measured
\* together with what is left of it.
ReadLine(title, arg) ==
  /\ at = "read"
  /\ peer = "up" \/ unread
  /\ line' = title
  /\ unread' = FALSE
  /\ stale' = (stale \/ title = "OVERLONG")
  /\ UNCHANGED peer
  /\ IF stale' \/ title = "GARBLED" THEN Reply(500, ssn)
     ELSE handle_command(title, arg)

\* Mutant: end of file is taken for an error, and the loop goes on.
EndOfFile_Spins ==
  /\ at = "read"
  /\ peer = "gone" /\ ~unread
  /\ UNCHANGED vars

\* read() returns 0: communicate returns and main calls exit(0).
EndOfFile ==
  /\ at = "read"
  /\ peer = "gone" /\ ~unread
  /\ Exit
  /\ UNCHANGED <<line, stale, peer, unread>>

Keep == UNCHANGED <<line, stale, peer, unread>>

\* try_data_connection returns no value when it succeeds.  Built as the
\* Makefile does, the caller sees the new descriptor, which is never -1.
\* When it fails, the handler returns with the mode still selected and its
\* file still open.
DialFails(tab) == message_client(426, [ssn EXCEPT !.datafd = NoFd], tab, "read")
DialWorks(f) ==
  message_client(150, [ssn EXCEPT !.datafd = f], Opened(f, "data"), "xfer")

Passive == at = "dial" /\ ssn.rcvMode = "PASSIVE"

\* accept() on the listening socket returns, with a connection or without.
\* It waits for the client for as long as it takes.
Accept ==
  /\ Passive /\ ssn.pasvfd # NoFd
  /\ \/ \E f \in Fds : IsLowestFree(f) /\ DialWorks(f)
     \/ DialFails(fdtab)
  /\ Keep

\* accept(-1), or no descriptor left: it fails at once.
AcceptRefused ==
  /\ Passive
  /\ ssn.pasvfd = NoFd \/ TableFull
  /\ DialFails(fdtab)
  /\ Keep

\* init_connection_at: a socket that cannot be connected stays open.
Connect ==
  /\ at = "dial" /\ ssn.rcvMode = "INPORT"
  /\ \/ DialFails(fdtab)
     \/ \E f \in Fds :
          /\ IsLowestFree(f)
          /\ DialWorks(f) \/ DialFails(Opened(f, "socket"))
  /\ Keep

\* Mutant: the file of the transfer is not closed.
TransferFds_KeepsFile ==
  {ssn.datafd} \cup (IF ssn.rcvMode = "PASSIVE" THEN {ssn.pasvfd} ELSE {})

\* What the three data handlers close at their end: what was opened for the
\* transfer, and in passive mode the listening socket with it.
TransferFds ==
  {ssn.datafd, filefd} \cup (IF ssn.rcvMode = "PASSIVE" THEN {ssn.pasvfd} ELSE {})

\* Mutant: the listening socket is closed but its number is kept.
TransferOver_KeepsPasvfd ==
  [ssn EXCEPT !.datafd = NoFd, !.rcvMode = "NOMODE"]

TransferOver ==
  [ssn EXCEPT !.datafd = NoFd, !.rcvMode = "NOMODE",
              !.pasvfd = IF ssn.rcvMode = "PASSIVE" THEN NoFd ELSE @]

Finish(code, tab) ==
  message_client(code, TransferOver, Closed(tab, TransferFds), "read")

\* Mutant: a status without a case leaves the message of the 150 in place.
EndTransfer_OldMessage ==
  /\ at = "xfer" /\ line \in {"RETR", "STOR"}
  /\ \E code \in {226, 150} : Finish(code, fdtab)
  /\ Keep

\* The loops of cmd_retr and cmd_stor end at end of file or on an error.
EndTransfer ==
  /\ at = "xfer" /\ line \in {"RETR", "STOR"}
  /\ \E code \in {226, 426} : Finish(code, fdtab)
  /\ Keep

\* fakelsl: opendir takes a descriptor that nothing closes.
EndList ==
  /\ at = "xfer" /\ line = "LIST"
  /\ \/ Finish(426, fdtab)
     \/ \E f \in Fds, code \in {226, 426} :
          IsLowestFree(f) /\ Finish(code, Opened(f, "dir"))
  /\ Keep

\* The client has dropped the data connection that the process writes to.
DataSigPipe ==
  /\ at = "xfer" /\ line \in {"RETR", "LIST"}
  /\ Exit
  /\ Keep

\* The client closes the control connection, or its host does.
PeerCloses ==
  /\ at # "exit" /\ peer = "up"
  /\ peer' = "gone"
  /\ unread' \in BOOLEAN
  /\ UNCHANGED <<at, line, ssn, filefd, fdtab, out, stale>>

Init ==
  /\ at = "start"
  /\ line = "none"
  /\ ssn = new_session
  /\ filefd = NoFd
  /\ fdtab = [NoFds EXCEPT ![ConnFd] = "conn"]
  /\ out = <<>>
  /\ stale = FALSE
  /\ peer = "up"
  /\ unread = FALSE

Next ==
  \/ Welcome
  \/ \E title \in Titles : \E arg \in ArgsOf(title) : ReadLine(title, arg)
  \/ EndOfFile
  \/ Accept
  \/ AcceptRefused
  \/ Connect
  \/ EndTransfer
  \/ EndList
  \/ DataSigPipe
  \/ PeerCloses

\* The steps that need nothing more from the client.  A STOR reads the data
\* connection until the client ends it, and a LIST writes without a time
\* limit; a connection whose client is gone ends by itself.  A RETR ends on
\* its own: the file is finite and each write waits one second at most.
OwnStep ==
  \/ Welcome
  \/ unread /\ \E title \in Titles : \E arg \in ArgsOf(title) : ReadLine(title, arg)
  \/ EndOfFile
  \/ AcceptRefused
  \/ Connect
  \/ (line = "RETR" \/ peer = "gone") /\ EndTransfer
  \/ peer = "gone" /\ EndList

Spec == Init /\ [][Next]_vars
FairSpec == Spec /\ WF_vars(OwnStep)

-----------------------------------------------------------------------------
(* Properties *)

Sessions ==
  [authStage : {CONNECTED, USERNAME_OK, PASSWORD_OK},
   rcvMode : {"NOMODE", "PASSIVE", "INPORT"},
   pasvfd : Fds \cup {NoFd}, datafd : Fds \cup {NoFd},
   rnfrName : {NULL, "set"}, currentPos : Offsets]

\* The type of every variable, the Session struct field by field.
TypeOK ==
  /\ at \in {"start", "read", "dial", "xfer", "exit"}
  /\ line \in Titles \cup {"none"}
  /\ ssn \in Sessions
  /\ filefd \in Fds \cup {NoFd}
  /\ fdtab \in [Fds -> Kinds]
  /\ out \in Seq(Nat)
  /\ stale \in BOOLEAN
  /\ peer \in {"up", "gone"}
  /\ unread \in BOOLEAN

\* A selected mode and a pending RNFR never coexist.  check_stage would then
\* refuse the data commands because of the name and RNTO because of the mode,
\* and nothing but QUIT could ever run again in the session.
ModeExcludesRename == ~(ssn.rcvMode # "NOMODE" /\ ssn.rnfrName # NULL)

\* The descriptor numbers the session keeps are open and of the right kind,
\* so a close() never hits a descriptor that has been reused; and a data
\* connection is open exactly while a transfer runs: none outlives it.
DescriptorsOwned ==
  at # "exit" =>
    /\ fdtab[ConnFd] = "conn"
    /\ ssn.pasvfd # NoFd => fdtab[ssn.pasvfd] = "listen"
    /\ filefd # NoFd => fdtab[filefd] = "file"
    /\ \A f \in Fds : fdtab[f] = "data" <=> f = ssn.datafd
    /\ ssn.datafd # NoFd <=> at = "xfer"

\* Whenever the process waits for the next command, the last one has been
\* given exactly one final reply, after a 150 for a transfer that started: a
\* client that reads one reply per command, and one more after a 150, stays
\* in step however the system calls in between have failed.
ReplyDiscipline ==
  /\ at = "dial" => out = <<>>
  /\ at = "xfer" => out = <<150>> /\ line \in DataCmds
  /\ at = "read" =>
       \/ Len(out) = 1 /\ out[1] # 150
       \/ Len(out) = 2 /\ out[1] = 150 /\ out[2] # 150 /\ line \in DataCmds

\* Nothing a client sends before PASS is accepted leaves a trace: no mode,
\* offset or pending name, and no descriptor but the control connection.
LoginGate ==
  ssn.authStage # PASSWORD_OK =>
    /\ ssn.rcvMode = "NOMODE" /\ ssn.pasvfd = NoFd /\ ssn.datafd = NoFd
    /\ ssn.rnfrName = NULL /\ ssn.currentPos = 0
    /\ \A f \in Fds : f # ConnFd => fdtab[f] = "free"

\* QUIT ends the process in every login stage, in the middle of a rename and
\* with a mode selected, unless an overlong line was sent before.
QuitEnds == line = "QUIT" /\ ~stale => at = "exit"

\* Descriptors that are open although no later step of the process uses or
\* closes them: all but the connection, those of the transfer under way, and
\* the listening socket of a mode that is selected.
Lost ==
  {f \in Fds : fdtab[f] # "free"} \
    ({ConnFd, filefd, ssn.datafd} \cup
     (IF ssn.rcvMode = "PASSIVE" THEN {ssn.pasvfd} ELSE {}))

\* However long a session is, no command loses a descriptor without an error
\* reply, but for LIST: one that sees no error and asks for no listing never
\* runs out of them, whatever order its PASV, PORT, RETR and STOR come in.
LostOnlyWithError ==
  [][~(Lost' \subseteq Lost) => line' = "LIST" \/ out'[Len(out')] >= 400]_vars

\* The session obeys the order of commands that FtpProtocol promises.
Protocol ==
  INSTANCE FtpProtocol WITH
    login    <- ssn.authStage,
    selected <- ssn.rcvMode # "NOMODE",
    renaming <- ssn.rnfrName # NULL,
    open     <- at # "exit"
ImplementsProtocol == Protocol!PSpec

\* Once the client is gone the process ends, or is left waiting in accept()
\* on a listening socket nobody will connect to: no other place holds it.
OnlyAcceptOutlivesPeer ==
  peer = "gone" ~> (at = "exit" \/ (Passive /\ ssn.pasvfd # NoFd))

=============================================================================
