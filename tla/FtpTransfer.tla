---------------------------- MODULE FtpTransfer ----------------------------
(***************************************************************************)
(* What the commands REST, RETR, STOR, DELE, RNFR and RNTO of              *)
(* server/command.c do to the bytes of files, with several session         *)
(* processes working on one directory.                                     *)
(*                                                                         *)
(* A step is what a process does between two calls that other processes   *)
(* can interfere with.  Reading a chunk and sending it on is one step: of  *)
(* the two only the access to the file is seen by others.  The sessions    *)
(* are logged in; replies, ports and descriptors are FtpSession's.         *)
(***************************************************************************)
EXTENDS Integers, Sequences

CONSTANTS
  Procs,      \* session processes
  Names,      \* file names
  Inodes,     \* files, named or only open
  Contents,   \* what a file may hold at the start and a client may upload
  BufSize,    \* sizeof(buffer) in the loops of cmd_retr and cmd_stor
  Offsets     \* what atol can return for the argument of REST

NoIno == "none"
NULL == "NULL"       \* Session.rnfrName without a pending rename
Byte == Nat          \* 0 is the byte a hole reads as

ASSUME BufSizeAssumption == BufSize \in Nat \ {0}
ASSUME OffsetsAssumption == Offsets \subseteq Int /\ 0 \in Offsets
ASSUME ContentsAssumption == Contents \subseteq Seq(Byte)
ASSUME NamesAssumption == NoIno \notin Inodes /\ NULL \notin Names

VARIABLES
  dir,         \* the directory: name -> inode
  data,        \* inode -> bytes
  phase,       \* "ready", "dial" and "xfer" of a RETR or STOR, "dead"
  cmd,         \* "RETR" or "STOR" while one is under way
  currentPos,  \* Session.currentPos
  selected,    \* Session.rcvMode is not NOMODE
  rnfrName,    \* Session.rnfrName
  fd,          \* the inode open as the local fd
  off,         \* its file position
  stream,      \* RETR: bytes put on the data connection.  STOR: bytes the
               \* client has for it
  sole,        \* history: nobody else has emptied or shares the writing of
               \* the file since it was opened
  cut          \* history: a write to the data connection was short

fs == <<dir, data>>
ctl == <<currentPos, selected, rnfrName>>
loc == <<fd, off, stream>>
hist == <<sole, cut>>
vars == <<fs, phase, cmd, ctl, loc, hist>>

-----------------------------------------------------------------------------
(* Files *)

Min2(a, b) == IF a <= b THEN a ELSE b
Max2(a, b) == IF a <= b THEN b ELSE a

Zeros(n) == [i \in 1 .. n |-> 0]

\* The bytes of s from position p on, and at most n of them, as read() gives.
Slice(s, p, n) == SubSeq(s, p + 1, Min2(p + n, Len(s)))

\* s after b has been written at position p; a gap is filled with zeros.
PutAt(s, p, b) ==
  [i \in 1 .. Max2(Len(s), p + Len(b)) |->
     IF p < i /\ i <= p + Len(b) THEN b[i - p]
     ELSE IF i <= Len(s) THEN s[i] ELSE 0]

\* Under way: the file of p is open and p will still read or write it.
Busy(p) == phase[p] \in {"dial", "xfer"}
Users(i) == {p \in Procs : Busy(p) /\ fd[p] = i}
Writers(i) == {p \in Users(i) : cmd[p] = "STOR"}

Unused == {i \in Inodes : (\A n \in Names : dir[n] # i) /\ Users(i) = {}}
-----------------------------------------------------------------------------
(* Between transfers *)

\* What check_stage asks of every command but the three data commands and RNTO.
Plain(p) == phase[p] = "ready" /\ ~selected[p] /\ rnfrName[p] = NULL

cmd_rest(p) ==
  /\ Plain(p)
  /\ \E pos \in Offsets : currentPos' = [currentPos EXCEPT ![p] = pos]
  /\ UNCHANGED <<fs, phase, cmd, selected, rnfrName, loc, hist>>

\* PORT or PASV.
SelectMode(p) ==
  /\ Plain(p)
  /\ selected' = [selected EXCEPT ![p] = TRUE]
  /\ UNCHANGED <<fs, phase, cmd, currentPos, rnfrName, loc, hist>>

\* unlink: a file that is open stays until it is closed.
cmd_dele(p, n) ==
  /\ Plain(p)
  /\ dir' \in {dir, [dir EXCEPT ![n] = NoIno]}
  /\ UNCHANGED <<data, phase, cmd, ctl, loc, hist>>

\* The old name is not looked at before RNTO comes.
cmd_rnfr(p, n) ==
  /\ Plain(p)
  /\ rnfrName' = [rnfrName EXCEPT ![p] = n]
  /\ UNCHANGED <<fs, phase, cmd, currentPos, selected, loc, hist>>

\* Mutant: the old name stays.
Renamed_Linked(old, n) == [dir EXCEPT ![n] = dir[old]]

\* rename() replaces a file that has the new name.
Renamed(old, n) ==
  [m \in Names |-> IF m = n THEN dir[old]
                   ELSE IF m = old THEN NoIno ELSE dir[m]]

cmd_rnto(p, n) ==
  /\ phase[p] = "ready" /\ rnfrName[p] # NULL
  /\ \/ dir' = dir
     \/ dir[rnfrName[p]] # NoIno /\ dir' = Renamed(rnfrName[p], n)
  /\ rnfrName' = [rnfrName EXCEPT ![p] = NULL]
  /\ UNCHANGED <<data, phase, cmd, currentPos, selected, loc, hist>>

-----------------------------------------------------------------------------
(* RETR and STOR *)

\* The handler returns; what it held is out of reach.
Leave(p, mode) ==
  /\ phase' = [phase EXCEPT ![p] = "ready"]
  /\ cmd' = [cmd EXCEPT ![p] = "none"]
  /\ selected' = [selected EXCEPT ![p] = mode]
  /\ fd' = [fd EXCEPT ![p] = NoIno]
  /\ off' = [off EXCEPT ![p] = 0]
  /\ stream' = [stream EXCEPT ![p] = <<>>]
  /\ cut' = [cut EXCEPT ![p] = FALSE]
  /\ UNCHANGED <<currentPos, rnfrName>>

\* The transfer is over and the files are as it left them.
Over(p, mode) ==
  /\ Leave(p, mode)
  /\ sole' = [sole EXCEPT ![p] = TRUE]
  /\ UNCHANGED fs

\* The file is open at the offset of the last REST, whenever that was.
SeekTo(p, i, title) ==
  /\ phase' = [phase EXCEPT ![p] = "dial"]
  /\ cmd' = [cmd EXCEPT ![p] = title]
  /\ fd' = [fd EXCEPT ![p] = i]
  /\ off' = [off EXCEPT ![p] = currentPos[p]]
  /\ UNCHANGED <<ctl, stream, cut>>

Selected(p) == phase[p] = "ready" /\ selected[p]

\* Mutant: the result of lseek is not looked at.
cmd_retr_AnyOffset(p, n) ==
  /\ Selected(p)
  /\ \/ Over(p, FALSE)
     \/ /\ dir[n] # NoIno
        /\ SeekTo(p, dir[n], "RETR")
        /\ sole' = [sole EXCEPT ![p] = \A q \in Writers(dir[n]) : sole[q]]
        /\ UNCHANGED fs

\* 551 when a test of the name, open or lseek (negative offset) fails.
cmd_retr(p, n) ==
  /\ Selected(p)
  /\ \/ Over(p, FALSE)
     \/ /\ dir[n] # NoIno /\ currentPos[p] >= 0
        /\ SeekTo(p, dir[n], "RETR")
        /\ sole' = [sole EXCEPT ![p] = \A q \in Writers(dir[n]) : sole[q]]
        /\ UNCHANGED fs

\* Mutant: an existing file is opened without ftruncate.
Emptied_Kept(i) == data' = data

Emptied(i) == data' = [data EXCEPT ![i] = <<>>]

\* The file is created or emptied before lseek is tried and before the data
\* connection is there.
cmd_stor(p, n) ==
  /\ Selected(p)
  /\ \/ Over(p, FALSE)
     \/ \E i \in IF dir[n] = NoIno THEN Unused ELSE {dir[n]} :
          /\ dir' = [dir EXCEPT ![n] = i]
          /\ Emptied(i)
          /\ IF currentPos[p] < 0 THEN Leave(p, FALSE) ELSE SeekTo(p, i, "STOR")
          /\ sole' = [q \in Procs |->
                        IF q = p THEN Writers(i) = {}
                        ELSE sole[q] /\ q \notin Users(i)]

\* try_data_connection: when it fails the mode stays selected.
DialFails(p) ==
  /\ phase[p] = "dial"
  /\ Over(p, TRUE)

DialWorks(p) ==
  /\ phase[p] = "dial"
  /\ phase' = [phase EXCEPT ![p] = "xfer"]
  /\ \E s \in IF cmd[p] = "STOR" THEN Contents ELSE {<<>>} :
       stream' = [stream EXCEPT ![p] = s]
  /\ UNCHANGED <<fs, cmd, ctl, fd, off, hist>>

Running(p, title) == phase[p] = "xfer" /\ cmd[p] = title

\* Mutant: the buffer is sent, not as much of it as has been read.
RetrieveChunk_WholeBuffer(p) ==
  /\ Running(p, "RETR")
  /\ LET b == Slice(data[fd[p]], off[p], BufSize) IN
       /\ b # <<>>
       /\ stream' = [stream EXCEPT ![p] = @ \o b \o Zeros(BufSize - Len(b))]
       /\ off' = [off EXCEPT ![p] = @ + Len(b)]
  /\ UNCHANGED <<fs, phase, cmd, ctl, fd, sole, cut>>

\* One turn of the loop of cmd_retr.  write() on the data connection returns
\* what it got rid of within the timeout, and only -1 is taken for an error.
RetrieveChunk(p) ==
  /\ Running(p, "RETR")
  /\ LET b == Slice(data[fd[p]], off[p], BufSize) IN
       \E k \in 1 .. Len(b) :
         /\ stream' = [stream EXCEPT ![p] = @ \o SubSeq(b, 1, k)]
         /\ off' = [off EXCEPT ![p] = @ + Len(b)]
         /\ cut' = [cut EXCEPT ![p] = @ \/ k < Len(b)]
  /\ UNCHANGED <<fs, phase, cmd, ctl, fd, sole>>

\* Mutant: the loop ends when nothing remains of the size seen, not when
\* read() returns 0.
EndRetrieve_NothingRemains(p) ==
  /\ Running(p, "RETR")
  /\ off[p] = Len(data[fd[p]])
  /\ Over(p, FALSE)

\* Mutant: a block that does not fill the buffer is taken for the end.
EndRetrieve_LastBlock(p) ==
  /\ Running(p, "RETR")
  /\ off[p] + BufSize > Len(data[fd[p]])
  /\ Over(p, FALSE)

\* read() returns 0: 226.
EndRetrieve(p) ==
  /\ Running(p, "RETR")
  /\ off[p] >= Len(data[fd[p]])
  /\ Over(p, FALSE)

\* Bytes of the upload that have been written: STOR starts at the offset.
Taken(p) == off[p] - currentPos[p]

\* One turn of the loop of cmd_stor: read() takes n bytes off the connection,
\* write() puts m of them into the file; fewer than n end the transfer.
StoreChunk(p) ==
  /\ Running(p, "STOR")
  /\ \E n \in 1 .. Min2(BufSize, Len(stream[p]) - Taken(p)) : \E m \in 0 .. n :
       /\ data' = IF m = 0 THEN data
                  ELSE [data EXCEPT ![fd[p]] =
                          PutAt(@, off[p], SubSeq(stream[p], Taken(p) + 1, Taken(p) + m))]
       /\ IF m < n THEN Leave(p, FALSE)
          ELSE /\ off' = [off EXCEPT ![p] = @ + n]
               /\ UNCHANGED <<phase, cmd, ctl, fd, stream, cut>>
  /\ UNCHANGED <<dir, sole>>

\* Mutant: a block that does not fill the buffer is taken for the end.
EndStore_LastBlock(p) ==
  /\ Running(p, "STOR")
  /\ Taken(p) + BufSize > Len(stream[p])
  /\ Over(p, FALSE)

\* read() returns 0, 226: the client has closed the data connection after
\* its last byte.
EndStore(p) ==
  /\ Running(p, "STOR")
  /\ Taken(p) = Len(stream[p])
  /\ Over(p, FALSE)

\* read() of the file or the connection, or write() to the connection, fails:
\* 426.
TransferFails(p) ==
  /\ phase[p] = "xfer"
  /\ Over(p, FALSE)

-----------------------------------------------------------------------------
(* Processes come and go *)

\* QUIT, the end of the control connection, or SIGPIPE in the middle of a
\* transfer: the file stays as it is.
Die(p) ==
  /\ phase[p] # "dead"
  /\ phase' = [phase EXCEPT ![p] = "dead"]
  /\ cmd' = [cmd EXCEPT ![p] = "none"]
  /\ currentPos' = [currentPos EXCEPT ![p] = 0]
  /\ selected' = [selected EXCEPT ![p] = FALSE]
  /\ rnfrName' = [rnfrName EXCEPT ![p] = NULL]
  /\ fd' = [fd EXCEPT ![p] = NoIno]
  /\ off' = [off EXCEPT ![p] = 0]
  /\ stream' = [stream EXCEPT ![p] = <<>>]
  /\ sole' = [sole EXCEPT ![p] = TRUE]
  /\ cut' = [cut EXCEPT ![p] = FALSE]
  /\ UNCHANGED fs

\* A new child with a new_session, after its client has logged in.
Start(p) ==
  /\ phase[p] = "dead"
  /\ phase' = [phase EXCEPT ![p] = "ready"]
  /\ UNCHANGED <<fs, cmd, ctl, loc, hist>>

Init ==
  /\ dir \in {d \in [Names -> Inodes \cup {NoIno}] :
                \A m, n \in Names : m # n => d[m] = NoIno \/ d[m] # d[n]}
  /\ data \in [Inodes -> Contents \cup {<<>>}]
  /\ \A i \in Inodes : (\A n \in Names : dir[n] # i) => data[i] = <<>>
  /\ phase = [p \in Procs |-> "ready"]
  /\ cmd = [p \in Procs |-> "none"]
  /\ currentPos = [p \in Procs |-> 0]
  /\ selected = [p \in Procs |-> FALSE]
  /\ rnfrName = [p \in Procs |-> NULL]
  /\ fd = [p \in Procs |-> NoIno]
  /\ off = [p \in Procs |-> 0]
  /\ stream = [p \in Procs |-> <<>>]
  /\ sole = [p \in Procs |-> TRUE]
  /\ cut = [p \in Procs |-> FALSE]

Next ==
  \E p \in Procs :
    \/ cmd_rest(p)
    \/ SelectMode(p)
    \/ \E n \in Names :
         \/ cmd_dele(p, n)
         \/ cmd_rnfr(p, n)
         \/ cmd_rnto(p, n)
         \/ cmd_retr(p, n)
         \/ cmd_stor(p, n)
    \/ DialFails(p)
    \/ DialWorks(p)
    \/ RetrieveChunk(p)
    \/ EndRetrieve(p)
    \/ StoreChunk(p)
    \/ EndStore(p)
    \/ TransferFails(p)
    \/ Die(p)
    \/ Start(p)

Spec == Init /\ [][Next]_vars

\* A download waits for nobody: reading a file does not block and a write
\* gives up after one second.  An upload waits for its client.
FairSpec ==
  Spec /\ \A p \in Procs : WF_vars(RetrieveChunk(p) \/ EndRetrieve(p))

-----------------------------------------------------------------------------
(* Properties *)

TypeOK ==
  /\ dir \in [Names -> Inodes \cup {NoIno}]
  /\ data \in [Inodes -> Seq(Byte)]
  /\ phase \in [Procs -> {"ready", "dial", "xfer", "dead"}]
  /\ cmd \in [Procs -> {"RETR", "STOR", "none"}]
  /\ currentPos \in [Procs -> Offsets]
  /\ selected \in [Procs -> BOOLEAN]
  /\ rnfrName \in [Procs -> Names \cup {NULL}]
  /\ fd \in [Procs -> Inodes \cup {NoIno}]
  /\ off \in [Procs -> Nat]
  /\ stream \in [Procs -> Seq(Byte)]
  /\ sole \in [Procs -> BOOLEAN]
  /\ cut \in [Procs -> BOOLEAN]

\* What a download has sent is the file from the offset on, as far as it has
\* come: also while the file is deleted, renamed or replaced by another
\* session, and while an upload that began earlier is still writing it.
RetrieveFaithful ==
  \A p \in Procs :
    Running(p, "RETR") /\ sole[p] /\ ~cut[p] =>
      stream[p] = Slice(data[fd[p]], currentPos[p], off[p] - currentPos[p])

\* What an upload has written is all the file holds, after a hole as long as
\* the offset: nothing of the old contents shows through, whatever other
\* sessions do to the names in the meantime.
StoreFaithful ==
  \A p \in Procs :
    Busy(p) /\ cmd[p] = "STOR" /\ sole[p] =>
      data[fd[p]] = IF Taken(p) = 0 THEN <<>>
                    ELSE Zeros(currentPos[p]) \o SubSeq(stream[p], 1, Taken(p))

\* A download that is reported complete has sent the whole rest of the file,
\* if nobody has emptied the file and no write was short.
DownloadsExact ==
  [][\A p \in Procs : EndRetrieve(p) /\ sole[p] /\ ~cut[p] =>
       LET d == data[fd[p]] IN stream[p] = Slice(d, currentPos[p], Len(d))]_vars

\* An upload that is reported complete has stored all that the client had, at
\* the offset, if nobody else has stored into the same file.
UploadsExact ==
  [][\A p \in Procs : EndStore(p) /\ sole[p] =>
       data[fd[p]] = IF stream[p] = <<>> THEN <<>>
                     ELSE Zeros(currentPos[p]) \o stream[p]]_vars

\* What a name stands for, and the names of the file of a transfer.
FileOf(n) == IF dir[n] = NoIno THEN {} ELSE {data[dir[n]]}
NamesOf(p) == {n \in Names : Busy(p) /\ dir[n] = fd[p]}

\* The sessions together do to names and bytes what FtpFiles allows: inodes,
\* descriptors and positions never let a transfer touch a file that it did not
\* name, even when its own has been deleted, renamed or replaced meanwhile.
Files ==
  INSTANCE FtpFiles WITH
    file <- [n \in Names |-> FileOf(n)],
    job <- cmd,
    target <- [p \in Procs |-> NamesOf(p)]

ImplementsFiles == Files!FSpec

\* A download ends by itself, whatever its client does and however other
\* sessions empty and refill the file it reads.
RetrievalEnds ==
  \A p \in Procs : Running(p, "RETR") ~> ~Running(p, "RETR")

-----------------------------------------------------------------------------
(* Statements of the repository that the code does not keep *)

\* report.md: REST sets the offset of an upload so that it can be resumed; so
\* the part of the file before the offset must outlive the STOR.
ResumedUploadKeepsHead ==
  [][\A p \in Procs : phase[p] = "ready" /\ phase'[p] = "dial" /\ cmd'[p] = "STOR" =>
       LET i == fd'[p] IN
         Slice(data'[i], 0, currentPos[p]) = Slice(data[i], 0, currentPos[p])]_vars
=============================================================================
