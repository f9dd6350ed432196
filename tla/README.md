# A TLA+ development of network-ftp

The repository holds an FTP server in C, an FTP client in Python with a Qt
interface, and a pair of UDP echo programs.  This directory models the parts
whose behaviour depends on order, failure and interleaving, model-checks them
with TLC on small instances, and proves the main invariants with TLAPS for
every instance.

Paths are relative to the repository's `src/For Student/`.  The directory
`handin/2017013596/` repeats `tcp/server`, `tcp/client/py` and `udp/python`
byte for byte, so what is said here of the originals holds for the copies.

## 1. Inventory

### Session process (`tcp/server/server.c`, `command.c`, `session.c`, `report.c`)

One process per client.  `communicate` greets the client and then repeats:
read from the control connection, trim, parse, run the handler, answer.

- *State.*  The `Session` struct: login stage, transfer mode
  (`NOMODE`/`INPORT`/`PASSIVE`), the listening socket of PASV, the data
  connection, the address of PORT, the pending name of RNFR, the offset of
  REST, the working directory.  The descriptor table of the process.  Locals
  that outlive a blocking call: the file of a transfer, the command buffer.
- *Operations.*  `check_stage` decides whether a command may run; nineteen
  titles are known, eighteen have a handler (ABOR has none).
- *Interactions.*  With the client over the control connection and a data
  connection; with other sessions through the file system and through the
  ports they ask for.
- *Hard.*  A data connection that fails between two steps of a handler;
  handlers that return early at a dozen places and must leave mode,
  descriptors and replies consistent at each; a client that vanishes while
  the process is blocked; a descriptor table that fills up in a long session.
- *Correct when* commands run in the order the report lays down, each one is
  answered exactly once (after a 150 for a transfer), the descriptors recorded
  are the ones open, QUIT always ends, a client that has gone frees its process.

### File transfer (`cmd_retr`, `cmd_stor`, `cmd_rest`)

- *State.*  `currentPos`, the position of the open file, the bytes on the data
  connection, the file itself, shared with every other session.
- *Hard.*  The offset outlives the command it was meant for; STOR empties the
  file before it dials; `write` may be short; another session changes the file
  between two reads.
- *Correct when* a 226 means that the bytes arrived, a resumed transfer yields
  the file, a failed one leaves what it found.

### Main process (`main`, `init_socket_atport`, `random_port` of `server.c`)

- *State.*  The listening socket, the children, the copy of each accepted
  connection, the options (port, root).
- *Hard.*  fork failing; children ending and not being waited for; two
  sessions that pick the same data port in the same second.
- *Correct when* every accepted client is served by one process and nothing of
  a session is left in the parent.

### Client engine (`tcp/client/py/myftp.py`, class `MyTFP`)

- *State.*  The control socket, the status flags, the data socket, transfer
  mode, offset, the list of files.
- *Interactions.*  One blocking call after another, each taking one `recv` for
  one reply; data over a second connection.
- *Hard.*  Replies that arrive together; a reply that is left unread when an
  operation fails; a data connection that comes too late; both sides waiting
  for the other; a session that an earlier failure has put out of order.
- *Correct when* each operation reads the replies of its own commands, and a
  pair of well-behaved client and server never wait for each other.

### Worker thread and interface (`tcp/client/py/ui.py`)

- *State.*  A mutex, the parameters and the task of the worker, queued Qt
  signals, the interface's own lists.
- *Interactions.*  The interface calls `setParams`, `setTask` and `start()`; the
  worker calls `MyTFP` and queues signals; both read the engine's lists.
- *Hard.*  `setParams` and `setTask` are two steps of one thread while the
  other runs; `start()` on a running thread does nothing; an exception between
  lock and unlock; a table that is filled while the list behind it changes.
- *Correct when* the task that runs is the one asked for, with its parameters,
  the mutex is free whenever no task runs, and the table shows the directory
  that the session is in.

### Text functions

`test_dir`, `stringfy_commandline`, `parse_command`, `ip_of`, the lines of
`fakelsl`, the expression and the slices with which the client reads them.
Pure, and together they carry file names from the server into a row and back:
correct when a name comes back as the one it was.

### UDP echo (`udp/python`)

A server that prefixes each datagram with a sequence number, and a client that
sends fifty numbers and waits for each answer.  Correct as far as datagrams
are neither lost nor repeated.

### Left out

`autograde.py` (a test driver, read as a statement of what the server
promises), `tcp/test/main.c` (an experiment with `rename`), the UDP samples in
C, C#, Java and Node that came with the assignment, PyInstaller's output, the
layout of the interface.

## 2. Modules

| Module | Models | Built on |
|--------|--------|----------|
| `FtpProtocol` | abstract: the order of commands one session promises | |
| `FtpSession` | one session process, every handler, its descriptors | implements `FtpProtocol` |
| `FtpSessionProofs`, `FtpSessionRefinement` | theorems about it, and the refinement | `FtpSession` |
| `FtpFiles` | abstract: what all sessions together do to names and their bytes | |
| `FtpTransfer` | the data path of REST, RETR, STOR, DELE, RNFR and RNTO over a shared file system | implements `FtpFiles` |
| `FtpTransferProofs`, `FtpTransferRefinement` | theorems about it, and the refinement | `FtpTransfer` |
| `FtpServer` | accept, fork, descriptors of the parent, children that are not waited for | |
| `FtpServerProofs` | theorems about it | `FtpServer` |
| `FtpClient` | the client's engine, `MyTFP` | |
| `FtpSystem` | client and session process joined by their streams | `FtpSession`, `FtpClient` |
| `FtpSystemProofs` | theorems about the composition | `FtpSystem`, `FtpSessionProofs` |
| `FtpWorker` | the client's two threads, mutex, parameters, signals | |
| `FtpWorkerProofs` | theorems about it | `FtpWorker` |
| `FtpNames` | the way of a file name to a row and back | |
| `FtpNamesProofs` | theorems about it | `FtpNames` |

Each `MC...` module gives the sets that a configuration cannot write down.

`FtpSystem` extends the two modules it composes, so the handlers in it are
those of section 3.  The others stand apart: what `FtpTransfer` adds (bytes),
`FtpServer` (processes), `FtpWorker` (threads) and `FtpNames` (characters) does
not depend on the replies.  `FtpWorker` takes a call of the engine as one step,
or two for a listing; what happens inside is `FtpClient`.

Possible extensions: the data ports that two sessions take from the clock in
the same second; the UDP pair over a channel that loses and repeats.

## 3. The session process

### Modules

`FtpProtocol` keeps four variables (login stage, mode selected, rename
pending, connection open) and one action per rule of the report's list under
"command handling".

`FtpSession` is the process.  Its variables and the code:

| Variable | Code |
|----------|------|
| `at` | the blocking call the process is in: `read` in `communicate`, `accept`/`connect` in `try_data_connection` ("dial"), the loop of a data handler ("xfer") |
| `line` | `cmd.title` of the last line read |
| `ssn` | the `Session` struct, field names kept (the address of PORT and the unused `ascii`, `aborFlag`, `loginPsw` are left out) |
| `filefd` | the local `fd` of `cmd_retr` and `cmd_stor` |
| `fdtab` | the kernel's descriptor table: what each number stands for |
| `out` | reply codes written since the last line was read |
| `stale` | the buffer of `communicate` still holds an overlong line |
| `peer`, `unread` | the client's end of the control connection |

A step runs from one return of a blocking call to the next.  `ReadLine` is a
turn of the command loop with the handler it calls, up to its reply or up to
the data connection; `Accept`, `AcceptRefused` and `Connect` are the outcomes
of `try_data_connection`; `EndTransfer` and `EndList` are the ends of the data
loops with the closes and the final reply; `EndOfFile`, `DataSigPipe` and the
`Exit` branch of `message_client` are the three ways out besides QUIT.  Each
system call that can fail is a choice.  Descriptors are given out lowest first,
as the kernel does, and nothing closes what the code does not close: the socket
left by a failed `bind` or `connect`, the file left by a failed data
connection, the directory of every LIST.

`try_data_connection` has no `return` on success.  With the flags of the
repository's makefile the caller sees the new descriptor, which is not -1;
that outcome is modelled.

`MCFtpSession` gives the set of offsets; the configurations give the rest.

### Runs

| Run | Bounds | Shows |
|-----|--------|-------|
| `session` | 4 descriptors, offsets 0 and -1 | the six invariants, `LostOnlyWithError`, that `FtpSession` implements `FtpProtocol`, and `OnlyAcceptOutlivesPeer` |

Bounds.  `MaxFds` is the size of the descriptor table less the standard
streams.  Four hold the control connection, a listening socket, a file and a
data connection at once; what is leaked takes one of these places, so every way
of running out of descriptors happens within them.
The sign of the offset is all the session looks at (`lseek` refuses a negative
one), so 0 and -1 stand for all.  Arguments are the classes a handler tells
apart (`ArgsOf`).

Deadlock is not checked: a process that has ended, and one whose client is up
and silent, may stop.

Fairness.  `FairSpec` assumes weak fairness of `OwnStep`, the steps that need
nothing from the client: a process that can run is run by the kernel.  A RETR
is in it because the file is finite and every write waits at most one second
(`SO_SNDTIMEO`); a STOR or a LIST only once the client has gone, because its
`read` or `write` on the data connection waits for the client; `accept` is not
in it.  No fairness is assumed of the client.

`LostOnlyWithError` is about the descriptors that handlers leave behind (`Lost`): those that are open and that no later step uses or closes.  A command
adds to them only when it answers with an error, or when it is a LIST, whose
`opendir` is never undone.  So a session that sees no error and asks for no
listing can go on for ever.

### What the code does not do as the report says

The model shows each of these within a few steps; where a property says what
holds instead, it is named.

- QUIT does not always end the session ("任何时候都可以使用QUIT和ABOR来断开连接",
  `tcp/report.md`:27): the `continue` after an overlong line skips the `memset`
  of the buffer, and every later line is measured together with what is left
  there.  `QuitEnds` is what holds.
- ABOR has no handler; it is answered 500.
- PASV leaves the session in passive mode even when no socket listens
  (`command.c`:206, against `tcp/report.md`:35).  `DescriptorsOwned` says what
  the session may rely on, and `WedgedOnlyByFailure` (section 6) what it means
  for a client.
- A data command can follow another one: a data connection that fails leaves
  the mode selected (`command.c`:296, against `tcp/report.md`:29).
- A client that drops does not always end its process (`server.c`:186, against
  `tcp/report.md`:37): `accept` waits for ever.  `OnlyAcceptOutlivesPeer` is what
  holds: that is the only such place.

### Proofs

`FtpSessionProofs` and `FtpSessionRefinement` prove for every `MaxFds` and
every set `Offsets`, from `MaxFdsAssumption` (there is room for the control
connection) and `OffsetsAssumption` (integers, 0 among them), that `Spec`
implies the six invariants and the action property of the run `session`, and
that it implements `FtpProtocol`.

The invariant that carries them is `IInv`: the conjunction of the six, with
two facts that are true of a process that is not waiting in `read` (nothing has
been written at the start, and the dial belongs to a data command).  None of
the six is inductive alone.  `ReplyDiscipline` needs to know that a data
command is being served while the process dials; `DescriptorsOwned` needs
`LoginGate`'s exclusion of descriptors before login and the types of the
table; `ModeExcludesRename` leans on `OutOfOrder`, whose guard only
works because one of mode and name is unset.  The proof goes by what handlers
have in common rather than handler by handler: `Idle` says what a session and
a table must satisfy when no transfer runs, `ReplyKeeps` that every reply that
leaves them idle keeps the invariant, `DialKeeps` the same for a handler that
goes on to the data connection, and each handler is then an instance.

The refinement maps a step of each handler to the action of `FtpProtocol` of
the same name, or to a stutter: refusals, failures that change no stage, and a
data command that is refused before its mode is used up.

`LostOnlyWithError` (`LossesAreTold`) rests on `IInv` and on `FileHeld`, that a
file is recorded only while a command is being served: a reply between two
commands can then lose nothing but the socket of a mode that it drops, and the
lemmas say who does so (`PasvLoses`, `DialLoses`, `ErrorLoses`).  The end of a
transfer closes what it was handed and the socket of its mode.

Only model-checked: `OnlyAcceptOutlivesPeer`, which is liveness under
fairness.

## 4. File transfer

### The modules

`FtpTransfer` is about bytes: what REST, RETR, STOR, DELE, RNFR and RNTO do to
the files of one directory while several session processes work on it.  Each
process is taken after login; replies, descriptors and ports are
`FtpSession`'s, and of the mode only "one is selected" is left.

| Variable | Code |
|----------|------|
| `dir`, `data` | the file system: names, and the bytes of the files (an inode without a name lives as long as somebody has it open) |
| `phase`, `cmd` | the place in the handler: between commands, in `try_data_connection`, in the loop |
| `currentPos`, `selected`, `rnfrName` | the fields of `Session` (`rcvMode` is not `NOMODE`) |
| `fd`, `off` | the local `fd` and the position the kernel keeps for it |
| `stream` | RETR: what has gone out; STOR: what the client has for the server |
| `sole`, `cut` | history: the file was not emptied by another STOR, nor written by two at once, since it was opened; a write to the data connection was short |

A step is what a process does between two accesses that other processes can
interfere with.  One turn of the loop of RETR is a read of the file and a
write to the connection; only the read is seen by other sessions, so the turn
is one step.  One turn of STOR takes bytes off the connection and writes them
to the file, and is one step for the same reason.  `open`, `ftruncate` and
`lseek` of one command are one step, and dialling is a step of its own: the
file has been emptied when the connection fails, and other sessions may run in
between.  A short write is a choice in both loops: on the way to the client it
goes unnoticed, on the way to the file it ends the transfer.  A process may
end at any place (`Die`) and a new one take its place (`Start`).

What a client uploads is fixed when it connects; a client that breaks off is a
read that fails (`TransferFails`) or one that ends early, which the server
cannot tell from a shorter file.

`FtpFiles` is what a client can rely on who knows names and bytes only.  It has
no inodes, descriptors or positions: a name stands for bytes or for nothing
(`file`), and a session that transfers has a target, the name its file has now
(`target`).  RNTO takes the target along with the file, DELE and a rename over
it leave the transfer without one, and from then on nothing that it writes is
seen (`Finish` is all that remains to it).  An upload changes the file under its
target and no other, by a block at a time (`Put`).  The mapping is in
`FtpTransfer`: `FileOf` and `NamesOf` look the inode up in the directory.

### Runs

| Run | Bounds | Shows |
|-----|--------|-------|
| `transfer` | 2 sessions, 2 names, 2 files, buffer of 2 | `RetrieveFaithful`, `StoreFaithful`, `DownloadsExact`, `UploadsExact`, `ImplementsFiles` |
| `transfer_live` | 2 sessions, 1 file, offsets -1, 0, 1 | `TypeOK`, `RetrievalEnds` |
| `transfer_resume` | 2 sessions, 1 file, offsets 0, 1 | a resumed upload loses the head of the file |

Bounds.  Contents of two bytes and of one, a buffer of two and offsets 0 and 1
give the empty file, a full block, a block that does not fill the buffer, an
offset in the middle, at the end and beyond the end, and, as a file can grow
while it is read, transfers of more than one block.  A third session would
only be a second writer or a second reader of the same kind; two names are
needed for a rename.

`MCView` makes one state of those that differ only in the bytes of a file that
nobody can reach and in what a download has sent that no property speaks of any
more.  STOR empties a file before it is used again and a turn of RETR only
appends to what was sent, so such states have the same steps and satisfy the
same properties.  Sessions, names and files are interchangeable
(`MCSymmetry`): no definition and no property tells one name from another, and
a rename may have any two of them in either place.  Neither is used in the run
with liveness.

Fairness.  `RetrievalEnds` assumes weak fairness of the loop of a RETR only: a
read of a file does not block, and each write gives up after the second that
`cmd_retr` sets with `SO_SNDTIMEO`.  The file may grow while it is read, but a
session that stores into it stores a finite upload, and a second one empties it
first.  Nothing is assumed of STOR, which waits for its client.

### What the code does not do

- `ResumedUploadKeepsHead`: the report says that REST serves to resume an
  upload; `cmd_stor` empties the file before it seeks, so what came before the
  offset is lost and reads as zeros.  What holds is `StoreFaithful`.
- A write that times out after a part of a block is not told from a complete
  one (`command.c`:343): the rest of the block is skipped and the answer is 226,
  although `autograde.py` expects the two files to be equal.  `DownloadsExact`
  has the condition that no write was short.
- Two uploads of one name at a time write into the same file, and both are
  answered 226.  The repository promises nothing here; the properties leave it
  out by `sole`.

### Proofs

`FtpTransferProofs` proves `TypeOK`, both invariants and both action properties
for every number of sessions, names and files, files of every length, every
positive size of the buffer and every set of offsets, from
`BufSizeAssumption`, `OffsetsAssumption`, `ContentsAssumption` and
`NamesAssumption`.

The invariant is `IInv`: `TypeOK`, and for each process `Good`, four parts that
need one another.

- `ProcOK`: the position is not before the offset, an upload has taken no more
  than there is.
- `SoleOK`: the writers of the file of an undisturbed transfer are themselves
  undisturbed, and an undisturbed upload is the only one.
- `Sent`: `RetrieveFaithful`, and the position is at the offset or within the
  file.  Without the second half a file that grows would change what should
  have been sent.
- `Stored`: `StoreFaithful`.

The step that matters is a turn of STOR seen by a download of the same file.
By `SoleOK` the upload is undisturbed, by `Stored` the file is exactly what it
has written, so the block goes to the end of the file (`UploadGrows`), and what
the download has sent is a part of what the file begins with
(`SliceOfLonger`).  Every other step leaves other processes alone
(`ApartGood`), and most of them move no bytes (`QuietKeeps`).  The lemmas about
bytes come first: what a slice holds, that adjoining slices make one, what a
write does at the end of a file or beyond it.

`FtpTransferRefinement` proves `ImplementsFiles` from the same assumptions.  The
mapping reads the directory backwards, from an inode to its name, so it needs
two facts that `IInv` does not have: `OneName`, that no inode has two names, and
`Titled`, that `cmd` is set exactly while a transfer is under way.  `OneName` is
what makes the target of a transfer a single name, and a write to an inode a
change of a single file (`StoreStep`); it is kept because STOR creates a file on
an inode that nobody has, open ones included (`CreatedAlone`), and because a
rename takes the old name away.  Each handler then maps to the action of
`FtpFiles` named for it; replies, offsets, the data connection and the turns of
RETR map to stutters.

Only model-checked: `RetrievalEnds`.

## 5. The main process

### The module

`FtpServer` is the loop of `main`: `Accept` is one turn, which ends in `Fork`
or, when fork fails, in `Refuse`; `ChildEnds` is the end of a session, whatever
brought it about; `Connect`, `ClientCloses` and `Vanish` are the other side.

| Variable | Code |
|----------|------|
| `main` | the process is in its loop, or has been ended by SIGPIPE |
| `conn`, `gone` | the life of a connection, and whether its client has closed |
| `kept` | what main still has open of the `connfd`s it was given |
| `holds` | the copies that fork left in the child of a connection |
| `zombies` | children that have ended; the handler that would wait for them is installed in the child |

Fork fails when the process table is full, that is when running children and
zombies together reach `MaxProcs`, and it may fail at any time for want of
memory.  A connection whose fork failed is answered 425 and
never closed, so it takes a descriptor of main for good, and every later child
inherits a copy.

### Runs

| Run | Bounds | Shows |
|-----|--------|-------|
| `server` | 4 connections, 3 descriptors, 3 processes | `TypeOK`, `CopiesAccounted`, `EndReachesClient`, `FullForGood`, `ServedUntilRefusal` |
| `server_served` | 3 connections, 3 descriptors, 2 processes | a client is refused although no session runs |

Bounds.  Three descriptors are the listening socket, one refused connection and
the one being accepted: the table can fill up.  With three processes and four
connections there are children before and after a refusal, so that copies are
inherited and not inherited, and connections can be used again after they
vanish.  Connections are interchangeable, which only the run without liveness
uses.

Deadlock is not checked: when main is dead and its clients have gone, the
system stops.

Fairness.  `FairSpec` assumes weak fairness of `Accept` for each connection.
The loop blocks nowhere but in `accept`, and `accept` returns connections in the
order in which they came, so one that waits is not overtaken for ever.  A
session is not assumed to end and a client not to do anything.

`ServedUntilRefusal` says that a client that waits gets a child, whatever others
do, unless fork has failed before.  It rests on the parent closing its copy
after every fork: otherwise the table of main fills up with the connections of
those it has served.  What comes after a failed fork is not excused silently: it
is `FullForGood`, and `CopiesAccounted` says that refused connections are all
that takes descriptors of main.  That main can be ended by the SIGPIPE of a 425
is in the model, and no property forbids it; the repository promises nothing.

### What the code does not do

`EveryClientServed`: the report says that a client that connects gets a child;
since nobody waits for the children, those that have ended fill the process
table, and clients are refused while no session runs.  `FullForGood` says that
this is final: once the table is full the server serves nobody until it is
started anew.

### Proofs

`FtpServerProofs` proves `TypeOK`, `CopiesAccounted`, `EndReachesClient` and
`FullForGood` for every finite set of connections (`ConnsAssumption`) and all limits that leave
main two descriptors and a process (`LimitsAssumption`).  The invariant is
`IInv`: `TypeOK`, `CopiesAccounted`, and `ProcsFit`, that children and zombies
fit in the process table, without which the bound in `TypeOK` is not kept when
a child ends.  `EndReachesClient` follows from `CopiesAccounted`: whoever holds
a copy of a connection is its own child, or the connection has been refused.
`FullForGood` is a step from `IInv`: a child that ends leaves one member of
`Running` less and one zombie more (`EndMakesNoRoom`), and what main keeps only
grows (`KeptGrows`).

Only model-checked: `ServedUntilRefusal`, which is liveness.

## 6. The client and the system

### The modules

`FtpClient` is class `MyTFP`, with what its caller in `ui.py` makes of an
exception.  An operation is a sequence of steps (`login`, `downloadFile`, ...);
a step says a command, or nothing, and then waits for one `recv`.

| Variable | Code |
|----------|------|
| `job`, `pos` | the method that runs, and the `recv` it has come to |
| `wait` | the call that blocks: `recv`, `connect` of the data socket, the loop around `accept`, the transfer; "user" between operations, "gone" when the program has ended |
| `transferMode` | `self.transferMode` |
| `tries` | `retries` of the accept loop |
| `page` | the page of the interface |
| `toServer`, `toClient` | the two directions of the control connection |
| `dlink` | the data connection, from the client's call to the close of both ends |
| `merged`, `slip` | history: a `recv` has taken two replies; how many tasks were begun since an operation was given up with a reply still to come |

`FtpSystem` extends `FtpSession` and `FtpClient`.  A step of the system is a step
of one of them with what it reads and writes: `ServeCommand` gives all that has
been sent to one `ReadLine`, as one `read` of `communicate` does, of which
`sscanf` sees the first command; `Writes` appends the reply of a step to the
stream; `Receive` takes all the replies there are and looks at the first, as
`startswith` does.  `ServerSees` closes the control connection when the program
ends.  In port mode the connection that the server makes reaches the client's
queue in a step of its own (`Arrive`), which may come too late for the accept
loop.

An exception (`Raise`) makes a task fail, or ends the program where the `try` is
commented out (`uploadFile`, `downloadFile`): PyQt ends a program whose slot or
`run` an exception leaves.  `ConnectRefused` stands for the wrong address that
`ip_of` makes of a server that is not on 127.x.x.x, too.

### Runs

| Run | Bounds | Shows |
|-----|--------|-------|
| `system` | 4 descriptors, offsets 0 and 1, 2 turns of the accept loop, 1 task after one given up | `ClientTypeOK`, `IdleInSync`, `AnswersOwn`, `StarvedOnlyIfMerged`, `WedgedOnlyByFailure`, `MainPageIsLoggedIn`, `OperationsEnd` |
| `system_stuck` | the same, none after one given up | a client that waits for ever with no failure at all |
| `system_offset` | the same | an upload written from the offset of an earlier download |

Bounds.  The number of tasks is not bounded while all goes well: operations
return to the same state.  After one has been given up with a reply to come,
every further command can shift the answers by one more, without end;
`MaxLate` lets one task begin in that state, which shows it read a reply that
is not its own.  Two turns of the accept loop stand for five: a turn finds the
connection or not, and the last one gives up.  Offsets 0 and 1 are a download
from the start and one that is resumed.

Deadlock is not checked: a user may do nothing, and both programs may have
ended.

Fairness.  `SysFairSpec` assumes weak fairness of the server's steps, of what
the client goes on to do by itself, and of a connection that was made arriving.
Each is a process that can run, or a network that delivers.  Nothing is assumed
of the user.

### What the properties say

`IdleInSync` and `AnswersOwn` are the client's discipline: between operations the
two streams are empty, and a reply that is found answers the command last sent.
They hold until an operation is given up after its data command (`slip`):
the accept loop runs out, `connect` is refused, or a local file cannot be
opened.  From then on the reply of that transfer is taken for the answer to the
next command.  So these properties, and the two that follow, delimit what an
operation that was given up can bring about (a reply that answers another
command, a server left in `accept`, a connection that comes late): they say that
nothing else does, and do not catch what happens after it.

`StarvedOnlyIfMerged` says that the two programs never wait for each other,
except after a `recv` has taken two replies or after such a failure.  The first
exception is `NeverStarved`, which the code does not keep: 150 and 226 of a
short download or listing arrive together, only the 150 is looked at, and the
client waits for a 226 that it has already taken.  (The 226 of a STOR comes after
the client has closed the data connection, so an upload is safe.)
`OperationsEnd` is the same as liveness.

`WedgedOnlyByFailure` follows a failure from the server to the user: a mode that
stays selected after a 426 or 452, or an old name that stays pending after a new
one that is too long, make the server refuse every task of the client but
logout, and no other way leads there.

`UploadsFromStart` fails: `currentPos` outlives the download it was meant for.

### Proofs

`FtpSystemProofs` proves, for every `MaxFds`, `Offsets`, `AcceptTries` and
`MaxLate` that the assumptions of the two modules allow, `ClientTypeOK`,
`IdleInSync`, `AnswersOwn`, `MainPageIsLoggedIn`, `StarvedOnlyIfMerged` and
`WedgedOnlyByFailure`: every property of the run but the liveness.

`ServerIsASession` comes first: each step of the system is a step of
`FtpSession` or leaves its variables alone (`ServerIsSession`,
`ClientIsSession`), so `IInv` of section 3 holds in the system without a second
proof.  The invariant is `SysInv`, that `IInv` with three parts:

- `ClientTyped`: the types, and that a client blocked in a data call is in the
  step of a data command.
- `Sync`: `IdleInSync` and `AnswersOwn`, which are not inductive, and `InStep`,
  which says for each place of the client what may be in the streams and where
  the server may be (`Greeted`, `Commanded`, `Transferring`).
- `Granted`: before a 230 is in the stream, the server has let the user in.

The lemmas go by what steps have in common: `ContinueReplies` (how a handler
that ends writes one reply), `EnterKeeps` (an operation goes on to a step),
`ReturnKeeps` and `VanishKeeps` (it ends).

`StarvedOnlyIfMerged` and `WedgedOnlyByFailure` need more than `SysInv` says:
which mode the two programs have, and what the last reply had to do with it.
Their invariant is `WaitInv`, `SysInv` with three parts:

- `RepliesTell`, which `LastReplyTells` of `FtpSessionProofs` proves of a session
  with any client: a mode or an old name that outlives its command goes with a
  reply that says so (`Tells`), and a 227 or a 200 is never said without it.
- `Linked`: from the time a data command is sent until it is answered the mode
  of the session is that of the client (`ModeOf`), and in passive mode the
  client's connection is in the queue of the socket the server accepts from.
  So an `accept` that nobody will answer is not possible.
- `Settled`: no operation ends on the answer to PASV, PORT or RNFR, since in
  each of them a selection is followed by a data command, RNFR by RNTO
  (`Selects`, `SelectFacts`).  So what is left over was left by a failure.

Each part leans on the others: `Linked` has the mode from the 227 that
`RepliesTell` explains, and is taken up when the client goes from the selection
to its data command (`SelectionAnswered`, `BeginWaits`).

Only model-checked: `OperationsEnd`, which is liveness.

## 7. The client's threads

### The module

`FtpWorker` is `ui.py`: the interface thread with its handlers, and the run of
the worker.

| Variable | Code |
|----------|------|
| `lock` | the `QMutex`, and who holds it |
| `params`, `task` | `WorkerThread.params` (the names, the offset, the mode) and `.task` |
| `w`, `fn`, `res` | where `run()` is, the task that it has read, what the task returned |
| `queue` | signals that were emitted and are not yet handled |
| `g`, `req` | where a handler of the interface is, and what it asks for |
| `dialog`, `alert` | a file dialog or a message box is open |
| `page`, `table` | what is shown: which directory, and whether all of it |
| `fileList`, `cwd` | `MyTFP.fileList`, and the directory of the session ("none" without one) |
| `clicks` | a count for the bound |
| `due`, `owed`, `slip` | history: the request that started the run; a listing is owed; a transfer or a listing may have been given up in this session, with a reply left to be read |

A handler is cut where the other thread can come between: `setParams` takes the
mutex and sets the parameters (`SetParams`), lets it go (`UnlockParams`), sets
the task (`SetTask`) and calls `start()` (`Start`), which does nothing while
`run()` has not returned.  The worker reads the task (`ReadTask`), tries the
mutex (`TakeLock`), has the engine work, lets the mutex go, emits the signal of
the task (`Emit`), perhaps an alert (`Report`), and returns.  All cross-thread
connections are queued, so a signal is handled between two handlers.  A message
box and a file dialog run the event loop inside a handler: signals are handled
meanwhile, clicks are not.  `downloadList` fills `fileList` in two steps
(`ListBegins`, `ListEnds`), between which `refresh()` may read it without the
mutex.

What a task does to the session is taken from `myftp.py`.  A task that returns
False may have ended the session (`quit` that raises, a connection that is
gone).  A `changeDir` may do worse: after a transfer has been given up
(`slip`, as in section 6) `sendCWD` reads the reply that was left, returns False,
and the server changes its directory all the same (`WorkFails`); a task may
also succeed on a reply that is not its own (`WorkSucceeds`).

### Runs

| Run | Bounds | Shows |
|-----|--------|-------|
| `worker` | 2 directories, a file and a directory to list, 4 clicks, 2 queued signals before a click | `TypeOK`, `RunsAsAsked`, `TableIsHere`, `ParamsStable`, `RefusedOnlyWhileWorking` |
| `worker_refresh` | the same, 3 clicks | a listing after a task that never comes |

Bounds.  Four clicks are a login, a task, another that comes before the first is
done, and one after both, as a `changeDir` after an upload that was given up;
each brings its signals, which start further runs.  `MaxSignals`
keeps a user from clicking while two signals wait; the queue itself is not
bounded.  A file, a directory and ".." are the three kinds of row.

Deadlock is not checked: a user may do nothing, and a program may have ended.

Fairness.  The run `worker` needs none.  `worker_refresh` uses `FairSpec`: weak
fairness of the event loop taking signals, of a handler going on, and of the
worker.  That a call of the engine returns is a part of it and no property of the
code, whose `recv` has no timeout (`NeverStarved`, section 6); it is assumed there
so that the listing is not missed for want of an answer: the trace that is found
ends with both threads at rest.  Nothing is assumed of the user.

### What the properties say

`RunsAsAsked`: the task that works is the one whose click started the run, with
all of its parameters and none left from an earlier click (a download after a
patch starts at 0).  It leaves out a user who is quicker than the thread:
between `start()` and the reading of the task a second handler may set
parameters, and then the run has those.  It also leaves out the click on "..":
`deleteNode` sets no task for it, and the worker runs the previous task again
with the new name.  Both cases are delimited here and not caught: the repository
says nothing of what they should do.

`TableIsHere`: once the worker rests and all signals are handled, the table
shows the whole of the directory that the session is in, whatever clicks and
early reads of `fileList` came before.  It has two conditions.  One is that no
listing was lost or has failed; that one can be lost is `RefreshFollows`, which
the code does not keep: `updateFromServer` may be handled before `run()` has
returned.  The other is that no transfer or listing was given up in this session
(`slip`): without it TLC finds the table of one directory with the session in
another, after a `changeDir` that read the reply of that transfer, said False
and so brought no listing.

`RefusedOnlyWhileWorking`: "Waring: working, please wait", with which `setParams`
refuses, is true: the engine works on a task at that moment.  So no path through
a task leaves the mutex taken, failures and exceptions included.  It does not say
that the task ends: with a `recv` that never returns the mutex stays taken, and
every later click is refused.

### Proofs

`FtpWorkerProofs` proves `TypeOK`, `RunsAsAsked`, `TableIsHere`, `ParamsStable`
and `RefusedOnlyWhileWorking` for every set of directories and names and all bounds, from
`HomeAssumption`.  The invariant `WInv` is `TypeOK` with `LockOwned` (the mutex
is the worker's exactly while a task works, the interface's exactly between
`setParams` and its unlock), `HandlerInv` (after `setParams` the parameters
agree with the request) and `RunInv` (so do they, and the task, with the request
of the run until they are read).  `ParamsStable` and `RefusedOnlyWhileWorking`
follow from `LockOwned`.
`TableIsHere` needs `ListInv` besides: the list that was got last is the one
shown, or a signal that will show it is in the queue or about to be emitted.

## 8. File names

### The module

`FtpNames` follows a name: from the directory through a line of `fakelsl`, the
expression `[\w|\-|>|/|\.|\:]+` of `downloadList` and a row, into a command, and
through `sscanf("%s %s")` to the name the server works on.

| Variable | Code |
|----------|------|
| `files` | the names in the server's directory |
| `table` | the entries of the last listing, by their real names |

Characters are of four kinds: those that the expression takes (`Shows`), the
text "total", for which a line is passed over (`Total`), those that end a `%s`
(`Blanks`), and the rest (`Others`).  `FirstRun` is what both conversions do: the
first run of characters of a kind.  `Shown` is `infoLine[8]`; the eight runs
before it come from columns that hold only such characters.  If the name has
none, `infoLine[8]` raises, and the listing fails (`Blocked`).  A listing may
also fail for other reasons (`stat` of an entry that has gone since `readdir`, or
the connection), and commands may be refused: both are a choice.  DELE and RMD,
and STOR and MKD, are alike here.

### Runs

| Run | Bounds | Shows |
|-----|--------|-------|
| `names` | a character of each kind, names of one and two, 2 files | `RowsHaveNames`, `PlainRowsAreSafe`, `BlockedForGood` |

Bounds.  Two characters give a run at the beginning, at the end, and none; two
files give a name that is shown as another one's.

Deadlock is checked: somebody can always list or change the directory.

### What the properties say

A row with a name of characters that the expression takes stands for that file
and for no other (`PlainRowsAreSafe`).  Any other name is shown as its first
run, and a command on its row works on the file of that shorter name, if there
is one; a name with a blank that is typed is cut at the blank, of which the
repository says nothing and no property speaks; a name with "total" in it is not
listed.  A name without any such character, as `#`, makes the directory
unlistable, and no step of the client takes it away (`BlockedForGood`): it takes
somebody else.

### Proofs

`FtpNamesProofs` proves all three for every alphabet and every set of names, from
`CharsAssumption` (the kinds are disjoint) and `NamesAssumption`.  The lemmas are
about `FirstRun`: it is made of characters of the kind, it is empty only where
there is none (`RunFacts`), and it is the whole of a sequence of such characters
(`WholeRun`); they rest on `MinIsLeast`, that a set of naturals has a least
member.  The invariant `NamesInv` says that the table holds rows that have
names; what cannot be shown is then never what a row shows (`UnshowableFacts`).

## 9. Not modelled, and why

- Memory safety (the 4096 bytes read into a buffer of 2048), which is not a
  question of states.
- The choice of data ports from the clock: a PASV whose `bind` fails is a choice
  in `FtpSession`; that two sessions of the same second bring it about is not.
- A command that is split over two reads: each is sent by one `sendall` of less
  than a segment.  Two commands in one read are modelled.
- The wording of replies, and the slices that read 227 and 250 replies: a
  wrong address is a connection that is refused.
- `test_dir` and the limits of lengths are classes of arguments (`ArgsOf`,
  `Lines`), not texts.
- The working directory and `chroot`, which confine paths but take part in no
  order of events.
- In the interface: the layout, the progress bar, the log, what `login` passes.
- `udp/` : the Python pair is twenty lines on each side with one datagram at a
  time and shares nothing with the FTP programs; the others are samples that
  came with the assignment.
- `autograde.py`, `tcp/test/main.c` and PyInstaller's output.

TLAPS does not prove liveness; the temporal properties above are TLC's.
