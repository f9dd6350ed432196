----------------------- MODULE FtpTransferRefinement -----------------------
(***************************************************************************)
(* FtpTransfer implements FtpFiles: the last property of Transfer.cfg, for *)
(* any number of sessions and names, files of any length and any size of   *)
(* the buffer.                                                             *)
(***************************************************************************)
EXTENDS FtpTransferProofs

\* No file has two names.
OneName ==
  \A m, n \in Names : dir[m] # NoIno /\ dir[m] = dir[n] => m = n

\* A transfer is under way exactly where a title is remembered.
Titled == \A p \in Procs : cmd[p] # "none" <=> Busy(p)

FilesInv == IInv /\ OneName /\ Titled

FilesStep == [Files!FNext]_Files!fvars

-----------------------------------------------------------------------------
(* What the changes of names and bytes amount to *)

SameFiles == \A n \in Names : FileOf(n)' = FileOf(n)
SameNames(q) == NamesOf(q)' = NamesOf(q)

\* Nothing that can be seen changes.
LEMMA UnseenStep ==
  ASSUME SameFiles, \A q \in Procs : SameNames(q), cmd' = cmd
  PROVE  FilesStep
<1>1. [n \in Names |-> FileOf(n)]' = [n \in Names |-> FileOf(n)]
  BY DEF SameFiles
<1>2. [q \in Procs |-> NamesOf(q)]' = [q \in Procs |-> NamesOf(q)]
  BY DEF SameNames
<1>3. QED
  BY <1>1, <1>2 DEF FilesStep, Files!fvars

\* The targets, when those of one session change.
LEMMA TargetOfOne ==
  ASSUME NEW p \in Procs, \A q \in Procs \ {p} : SameNames(q)
  PROVE  [q \in Procs |-> NamesOf(q)]'
           = [[q \in Procs |-> NamesOf(q)] EXCEPT ![p] = NamesOf(p)']
BY DEF SameNames

\* The files, when the bytes of one name change.
LEMMA FileOfOne ==
  ASSUME NEW n \in Names, \A m \in Names \ {n} : FileOf(m)' = FileOf(m)
  PROVE  [m \in Names |-> FileOf(m)]'
           = [[m \in Names |-> FileOf(m)] EXCEPT ![n] = FileOf(n)']
OBVIOUS

\* A step of p that names nothing leaves the names of the others alone.
LEMMA OthersNames ==
  ASSUME NEW q \in Procs, Apart(q), dir' = dir
  PROVE  SameNames(q)
BY DEF Apart, SameNames, NamesOf, Busy

LEMMA IdleNames ==
  ASSUME NEW p \in Procs
  PROVE  /\ ~Busy(p) => NamesOf(p) = {}
         /\ ~Busy(p)' => NamesOf(p)' = {}
BY DEF NamesOf

\* The file of a transfer is a file.
LEMMA OwnFile ==
  ASSUME FilesInv, NEW p \in Procs, Busy(p)
  PROVE  fd[p] \in Inodes /\ fd[p] # NoIno
BY NamesAssumption DEF FilesInv, IInv, Good, ProcOK

\* What Leave makes of a transfer that is under way.
LEMMA LeaveEnds ==
  ASSUME FilesInv, NEW p \in Procs, NEW mode \in BOOLEAN, Leave(p, mode),
         dir' = dir, Busy(p)
  PROVE  Files!End(p)
<1>1. TypeOK
  BY DEF FilesInv, IInv
<1>2. OthersApart(p) /\ phase'[p] = "ready"
  BY <1>1, LeaveFacts
<1>3. \A q \in Procs \ {p} : SameNames(q)
  BY <1>2, OthersNames DEF OthersApart
<1>4. NamesOf(p)' = {}
  BY <1>2, IdleNames DEF Busy
<1>5. [q \in Procs |-> NamesOf(q)]' = [[q \in Procs |-> NamesOf(q)] EXCEPT ![p] = {}]
  BY <1>3, <1>4, TargetOfOne
<1>6. cmd' = [cmd EXCEPT ![p] = "none"] /\ cmd[p] # "none"
  BY DEF Leave, FilesInv, Titled
<1>7. QED
  BY <1>5, <1>6 DEF Files!End

\* What it makes of a command that is refused.
LEMMA LeaveUnseen ==
  ASSUME FilesInv, NEW p \in Procs, NEW mode \in BOOLEAN, Leave(p, mode),
         ~Busy(p)
  PROVE  cmd' = cmd /\ NamesOf(p)' = {} /\ NamesOf(p) = {}
<1>1. TypeOK /\ cmd[p] = "none"
  BY DEF FilesInv, IInv, Titled
<1>2. phase'[p] = "ready"
  BY <1>1, LeaveFacts
<1>3. cmd' = cmd
  BY <1>1 DEF Leave, TypeOK
<1>4. QED
  BY <1>2, <1>3, IdleNames DEF Busy

\* The end of a transfer, or a refusal, with the files as they are.
LEMMA OverStep ==
  ASSUME FilesInv, NEW p \in Procs, NEW mode \in BOOLEAN, Over(p, mode)
  PROVE  FilesStep
<1>1. Leave(p, mode) /\ dir' = dir /\ data' = data
  BY DEF Over, fs
<1>2. SameFiles
  BY <1>1 DEF SameFiles, FileOf
<1>3. CASE Busy(p)
  <2>1. [n \in Names |-> FileOf(n)]' = [n \in Names |-> FileOf(n)]
    BY <1>2 DEF SameFiles
  <2>2. Files!End(p)
    BY <1>1, <1>3, LeaveEnds
  <2>3. QED
    BY <2>1, <2>2 DEF FilesStep, Files!FNext, Files!Finish
<1>4. CASE ~Busy(p)
  <2>1. OthersApart(p)
    BY <1>1, LeaveFacts DEF FilesInv, IInv
  <2>2. \A q \in Procs : SameNames(q)
    <3> TAKE q \in Procs
    <3>1. CASE q = p
      BY <1>1, <1>4, <3>1, LeaveUnseen DEF SameNames
    <3>2. CASE q # p
      BY <1>1, <2>1, <3>2, OthersNames DEF OthersApart
    <3>3. QED
      BY <3>1, <3>2
  <2>3. cmd' = cmd
    BY <1>1, <1>4, LeaveUnseen
  <2>4. QED
    BY <1>2, <2>2, <2>3, UnseenStep
<1>5. QED
  BY <1>3, <1>4

-----------------------------------------------------------------------------
(* Commands between transfers *)

\* No transfer begins, ends or gets another file.
Quiet == UNCHANGED <<phase, cmd, fd>>

LEMMA QuietNames ==
  ASSUME Quiet, NEW q \in Procs
  PROVE  NamesOf(q)' = {n \in Names : Busy(q) /\ dir'[n] = fd[q]}
BY DEF Quiet, NamesOf, Busy

\* A step after which every name has its file and every file its bytes.
LEMMA QuietStep ==
  ASSUME Quiet, dir' = dir, data' = data
  PROVE  FilesStep
<1>1. SameFiles
  BY DEF SameFiles, FileOf
<1>2. \A q \in Procs : SameNames(q)
  BY QuietNames DEF SameNames, NamesOf
<1>3. QED
  BY <1>1, <1>2, UnseenStep DEF Quiet

\* DELE takes a name away, and no other.
LEMMA DeleteStep ==
  ASSUME FilesInv, NEW n \in Names, Quiet, data' = data,
         dir' = [dir EXCEPT ![n] = NoIno]
  PROVE  FilesStep
<1>1. dir \in [Names -> Inodes \cup {NoIno}]
  BY DEF FilesInv, IInv, TypeOK
<1>2. FileOf(n)' = {} /\ \A m \in Names \ {n} : FileOf(m)' = FileOf(m)
  BY <1>1 DEF FileOf
<1>3. [m \in Names |-> FileOf(m)]' = [[m \in Names |-> FileOf(m)] EXCEPT ![n] = {}]
  BY <1>2, FileOfOne
<1>4. \A q \in Procs : NamesOf(q)' = NamesOf(q) \ {n}
  <2> TAKE q \in Procs
  <2>1. CASE Busy(q)
    <3>1. fd[q] # NoIno
      BY <2>1, OwnFile
    <3>2. QED
      BY <1>1, <3>1, QuietNames DEF NamesOf
  <2>2. CASE ~Busy(q)
    BY <2>2, QuietNames DEF NamesOf
  <2>3. QED
    BY <2>1, <2>2
<1>5. [q \in Procs |-> NamesOf(q)]' = [q \in Procs |-> [r \in Procs |-> NamesOf(r)][q] \ {n}]
  BY <1>4
<1>6. Files!Delete(n)
  BY <1>3, <1>5 DEF Files!Delete, Quiet
<1>7. QED
  BY <1>6 DEF FilesStep, Files!FNext

\* RNTO moves a file from one name to another; what had that name has none.
LEMMA RenameStep ==
  ASSUME FilesInv, NEW old \in Names, NEW n \in Names, Quiet, data' = data,
         dir[old] # NoIno, dir' = Renamed(old, n)
  PROVE  FilesStep
<1>1. dir \in [Names -> Inodes \cup {NoIno}] /\ OneName
  BY DEF FilesInv, IInv, TypeOK
<1>2. \A m \in Names : dir'[m] = IF m = n THEN dir[old]
                                 ELSE IF m = old THEN NoIno ELSE dir[m]
  BY DEF Renamed
<1>3. CASE old = n
  <2>1. dir' = dir
    BY <1>1, <1>3 DEF Renamed
  <2>2. QED
    BY <2>1, QuietStep
<1>4. CASE old # n
  <2>1. /\ FileOf(old)' = {} /\ FileOf(n)' = FileOf(old)
        /\ \A m \in Names \ {old, n} : FileOf(m)' = FileOf(m)
    BY <1>2, <1>4 DEF FileOf
  <2> DEFINE F == [m \in Names |-> FileOf(m)]
  <2>2. F' = [F EXCEPT ![old] = {}, ![n] = F[old]]
    BY <1>4, <2>1
  <2>3. F[old] # {}
    BY DEF FileOf
  <2>4. \A q \in Procs : NamesOf(q)' = IF old \in NamesOf(q) THEN {n} ELSE NamesOf(q) \ {n}
    <3> TAKE q \in Procs
    <3>1. CASE Busy(q) /\ dir[old] = fd[q]
      <4>1. \A m \in Names : dir[m] = fd[q] <=> m = old
        BY <1>1, <3>1 DEF OneName
      <4>2. fd[q] # NoIno
        BY <3>1, OwnFile
      <4>3. \A m \in Names : dir'[m] = fd[q] <=> m = n
        BY <1>2, <3>1, <4>1, <4>2
      <4>4. QED
        BY <3>1, <4>3, QuietNames DEF NamesOf
    <3>2. CASE Busy(q) /\ dir[old] # fd[q]
      <4>1. fd[q] # NoIno
        BY <3>2, OwnFile
      <4>2. \A m \in Names : dir'[m] = fd[q] <=> dir[m] = fd[q] /\ m # n
        BY <1>2, <3>2, <4>1
      <4>3. QED
        BY <3>2, <4>2, QuietNames DEF NamesOf
    <3>3. CASE ~Busy(q)
      BY <3>3, QuietNames DEF NamesOf
    <3>4. QED
      BY <3>1, <3>2, <3>3
  <2> DEFINE T == [q \in Procs |-> NamesOf(q)]
  <2>5. T' = [q \in Procs |-> IF old \in T[q] THEN {n} ELSE T[q] \ {n}]
    BY <2>4
  <2>6. Files!Rename(old, n)
    BY <1>4, <2>2, <2>3, <2>5 DEF Files!Rename, Quiet
  <2>7. QED
    BY <2>6 DEF FilesStep, Files!FNext
<1>5. QED
  BY <1>3, <1>4

LEMMA CommandStep ==
  ASSUME FilesInv, NEW p \in Procs,
         \/ cmd_rest(p)
         \/ SelectMode(p)
         \/ \E n \in Names : cmd_dele(p, n) \/ cmd_rnfr(p, n) \/ cmd_rnto(p, n)
  PROVE  FilesStep
<1>1. CASE cmd_rest(p) \/ SelectMode(p)
  BY <1>1, QuietStep DEF cmd_rest, SelectMode, Quiet, fs, loc
<1>2. ASSUME NEW n \in Names, cmd_dele(p, n)
      PROVE  FilesStep
  BY <1>2, QuietStep, DeleteStep DEF cmd_dele, Quiet, loc
<1>3. ASSUME NEW n \in Names, cmd_rnfr(p, n)
      PROVE  FilesStep
  BY <1>3, QuietStep DEF cmd_rnfr, Quiet, fs, loc
<1>4. ASSUME NEW n \in Names, cmd_rnto(p, n)
      PROVE  FilesStep
  <2>1. Quiet /\ data' = data
    BY <1>4 DEF cmd_rnto, Quiet, loc
  <2>2. rnfrName[p] \in Names
    BY <1>4 DEF cmd_rnto, FilesInv, IInv, TypeOK
  <2>3. QED
    BY <1>4, <2>1, <2>2, QuietStep, RenameStep DEF cmd_rnto
<1>5. QED
  BY <1>1, <1>2, <1>3, <1>4

-----------------------------------------------------------------------------
(* Beginnings *)

\* A transfer that begins has the name that it was given, and no other.
LEMMA SeekBegins ==
  ASSUME FilesInv, OneName', NEW p \in Procs, NEW n \in Names, NEW i \in Inodes,
         NEW title \in {"RETR", "STOR"},
         Selected(p), currentPos[p] >= 0, SeekTo(p, i, title), dir'[n] = i,
         \A q \in Procs \ {p} : SameNames(q)
  PROVE  Files!Begin(p, title, n)
<1>1. TypeOK /\ ~Busy(p) /\ cmd[p] = "none"
  BY DEF FilesInv, IInv, Titled, Selected, Busy
<1>2. phase'[p] = "dial" /\ fd'[p] = i
  BY <1>1, SeekFacts
<1>3. i # NoIno
  BY NamesAssumption
<1>4. NamesOf(p)' = {n}
  BY <1>2, <1>3 DEF NamesOf, Busy, OneName
<1>5. [q \in Procs |-> NamesOf(q)]' = [[q \in Procs |-> NamesOf(q)] EXCEPT ![p] = {n}]
  BY <1>4, TargetOfOne
<1>6. QED
  BY <1>1, <1>5 DEF SeekTo, Files!Begin

\* RETR opens a file that is there.
LEMMA FetchStep ==
  ASSUME FilesInv, NEW p \in Procs, NEW n \in Names,
         Selected(p), dir[n] # NoIno, currentPos[p] >= 0,
         SeekTo(p, dir[n], "RETR"), UNCHANGED fs
  PROVE  FilesStep
<1>1. TypeOK /\ dir[n] \in Inodes /\ OneName /\ dir' = dir /\ data' = data
  BY DEF FilesInv, IInv, TypeOK, fs
<1>2. OthersApart(p)
  BY <1>1, SeekFacts
<1>3. \A q \in Procs \ {p} : SameNames(q)
  BY <1>1, <1>2, OthersNames DEF OthersApart
<1>4. OneName'
  BY <1>1 DEF OneName
<1>5. Files!Begin(p, "RETR", n)
  BY <1>1, <1>3, <1>4, SeekBegins
<1>6. [m \in Names |-> FileOf(m)]' = [m \in Names |-> FileOf(m)]
  BY <1>1 DEF FileOf
<1>7. [m \in Names |-> FileOf(m)][n] # {}
  BY DEF FileOf
<1>8. Files!Fetch(p, n)
  BY <1>5, <1>6, <1>7 DEF Files!Fetch
<1>9. QED
  BY <1>8 DEF FilesStep, Files!FNext

\* What STOR does to the directory and the files, when the name can be had.
Created(p, n, i) ==
  /\ i \in IF dir[n] = NoIno THEN Unused ELSE {dir[n]}
  /\ dir' = [dir EXCEPT ![n] = i]
  /\ Emptied(i)
  /\ IF currentPos[p] < 0 THEN Leave(p, FALSE) ELSE SeekTo(p, i, "STOR")

\* No other name and no transfer has the file that STOR creates or empties,
\* but those that had the name before.
LEMMA CreatedAlone ==
  ASSUME FilesInv, NEW n \in Names,
         NEW i \in IF dir[n] = NoIno THEN Unused ELSE {dir[n]}
  PROVE  /\ i \in Inodes
         /\ \A m \in Names \ {n} : dir[m] # i
         /\ \A q \in Procs : Busy(q) => (fd[q] = i <=> dir[n] = fd[q])
<1>1. dir \in [Names -> Inodes \cup {NoIno}] /\ OneName
  BY DEF FilesInv, IInv, TypeOK
<1>2. CASE dir[n] = NoIno
  <2>1. i \in Inodes /\ (\A m \in Names : dir[m] # i) /\ Users(i) = {}
    BY <1>2 DEF Unused
  <2>2. \A q \in Procs : Busy(q) => fd[q] # i /\ fd[q] # NoIno
    BY <2>1, OwnFile DEF Users
  <2>3. QED
    BY <1>2, <2>1, <2>2
<1>3. CASE dir[n] # NoIno
  BY <1>1, <1>3 DEF OneName
<1>4. QED
  BY <1>2, <1>3

LEMMA CreateStep ==
  ASSUME FilesInv, OneName', NEW p \in Procs, NEW n \in Names, NEW i,
         Selected(p), Created(p, n, i)
  PROVE  FilesStep
<1>1. TypeOK /\ ~Busy(p) /\ cmd[p] = "none" /\ FALSE \in BOOLEAN
  BY DEF FilesInv, IInv, Titled, Selected, Busy
<1>2. /\ i \in Inodes /\ i # NoIno
      /\ \A m \in Names \ {n} : dir[m] # i
      /\ \A q \in Procs : Busy(q) => (fd[q] = i <=> dir[n] = fd[q])
  BY CreatedAlone, NamesAssumption DEF Created
<1>3. /\ dir'[n] = i /\ \A m \in Names \ {n} : dir'[m] = dir[m]
      /\ data'[i] = <<>> /\ \A j \in Inodes \ {i} : data'[j] = data[j]
  BY <1>1, <1>2 DEF Created, Emptied, TypeOK
<1>4. FileOf(n)' = {<<>>} /\ \A m \in Names \ {n} : FileOf(m)' = FileOf(m)
  <2>1. \A m \in Names : dir[m] \in Inodes \cup {NoIno}
    BY <1>1 DEF TypeOK
  <2>2. QED
    BY <1>2, <1>3, <2>1 DEF FileOf
<1>5. [m \in Names |-> FileOf(m)]' = [[m \in Names |-> FileOf(m)] EXCEPT ![n] = {<<>>}]
  BY <1>4, FileOfOne
<1>6. currentPos[p] >= 0 \/ currentPos[p] < 0
  <2>1. currentPos[p] \in Offsets
    BY <1>1 DEF TypeOK
  <2>2. currentPos[p] \in Int
    BY <2>1, OffsetsAssumption
  <2>3. QED
    BY <2>2
<1>7. ASSUME OthersApart(p), NEW q \in Procs \ {p}
      PROVE  SameNames(q)
  <2>1. phase'[q] = phase[q] /\ fd'[q] = fd[q]
    BY <1>7 DEF OthersApart, Apart
  <2>2. Busy(q) => \A m \in Names : dir'[m] = fd[q] <=> dir[m] = fd[q]
    BY <1>2, <1>3
  <2>3. QED
    BY <2>1, <2>2 DEF SameNames, NamesOf, Busy
<1>8. CASE currentPos[p] < 0
  <2>1. Leave(p, FALSE)
    BY <1>8 DEF Created
  <2>2. OthersApart(p) /\ cmd' = cmd /\ SameNames(p)
    BY <1>1, <2>1, LeaveFacts, LeaveUnseen DEF SameNames
  <2>3. [q \in Procs |-> NamesOf(q)]' = [q \in Procs |-> NamesOf(q)]
    BY <1>7, <2>2 DEF SameNames
  <2>4. Files!Empty(p, n)
    BY <1>1, <1>5, <2>2, <2>3 DEF Files!Empty
  <2>5. QED
    BY <2>4 DEF FilesStep, Files!FNext
<1>9. CASE currentPos[p] >= 0
  <2>1. SeekTo(p, i, "STOR")
    <3>1. ~(currentPos[p] < 0)
      <4>1. currentPos[p] \in Offsets
        BY <1>1 DEF TypeOK
      <4>2. currentPos[p] \in Int
        BY <4>1, OffsetsAssumption
      <4>3. QED
        BY <1>9, <4>2
    <3>2. QED
      BY <3>1 DEF Created
  <2>2. OthersApart(p)
    BY <1>1, <1>2, <1>9, <2>1, SeekFacts
  <2>3. Files!Begin(p, "STOR", n)
    BY <1>2, <1>3, <1>7, <1>9, <2>1, <2>2, SeekBegins
  <2>4. Files!Empty(p, n)
    BY <1>1, <1>5, <2>3 DEF Files!Empty
  <2>5. QED
    BY <2>4 DEF FilesStep, Files!FNext
<1>10. QED
  BY <1>6, <1>8, <1>9

-----------------------------------------------------------------------------
(* The turns of a transfer *)

\* The data connection, and a turn of RETR, change neither names nor files.
LEMMA SilentStep ==
  ASSUME FilesInv, NEW p \in Procs, DialWorks(p) \/ RetrieveChunk(p)
  PROVE  FilesStep
<1>1. dir' = dir /\ data' = data /\ cmd' = cmd /\ fd' = fd
  BY DEF DialWorks, RetrieveChunk, fs
<1>2. \A q \in Procs : Busy(q)' = Busy(q)
  BY DEF DialWorks, RetrieveChunk, Busy, Running, FilesInv, IInv, TypeOK
<1>3. SameFiles /\ \A q \in Procs : SameNames(q)
  BY <1>1, <1>2 DEF SameFiles, FileOf, SameNames, NamesOf
<1>4. QED
  BY <1>1, <1>3, UnseenStep

\* A write of as much as the buffer holds is a block of FtpFiles.
LEMMA BlockIsPut ==
  ASSUME NEW s \in Seq(Byte), NEW pos \in Nat, NEW b \in Seq(Byte),
         Len(b) <= BufSize, b # <<>>
  PROVE  Files!BlockPut(s, PutAt(s, pos, b))
<1> DEFINE t == PutAt(s, pos, b)
<1>1. /\ t \in Seq(Byte) /\ Len(t) = Max2(Len(s), pos + Len(b))
      /\ \A i \in 1 .. Len(t) :
           t[i] = IF pos < i /\ i <= pos + Len(b) THEN b[i - pos]
                  ELSE IF i <= Len(s) THEN s[i] ELSE 0
  BY PutAtFacts
<1>2. Len(s) \in Nat /\ Len(b) \in Nat /\ Len(t) \in Nat /\ BufSize \in Nat
  BY <1>1, LenProperties, BufSizeAssumption
<1> HIDE DEF t
<1>3. Len(s) <= Len(t) /\ pos \in 0 .. Len(t)
  BY <1>1, <1>2 DEF Max2
<1>4. Len(t) > Len(s) => Len(t) <= pos + BufSize
  BY <1>1, <1>2 DEF Max2
<1>5. ASSUME NEW i \in 1 .. Len(t), i <= pos \/ pos + BufSize < i
      PROVE  t[i] = IF i <= Len(s) THEN s[i] ELSE 0
  <2>1. ~(pos < i /\ i <= pos + Len(b))
    BY <1>2, <1>5
  <2>2. QED
    BY <1>1, <2>1
<1>6. Files!BlockPut(s, t)
  BY <1>1, <1>3, <1>4, <1>5 DEF Files!BlockPut, Byte
<1>7. QED
  BY <1>6 DEF t

\* A turn of STOR: a block goes into the file of the session, if it has a name
\* still, and a write that is cut short ends the transfer.
LEMMA StoreStep ==
  ASSUME FilesInv, NEW p \in Procs, StoreChunk(p)
  PROVE  FilesStep
<1>1. PICK n, m : StoreTurn(p, n, m)
  BY DEF StoreChunk, StoreTurn
<1>2. /\ IInv /\ TypeOK /\ Running(p, "STOR") /\ Busy(p) /\ cmd[p] = "STOR"
      /\ dir' = dir /\ sole' = sole /\ OneName
  BY DEF FilesInv, IInv, StoreChunk, Running, Busy
<1>3. /\ n \in Nat \ {0} /\ m \in Nat /\ m <= n /\ Taken(p) + n <= Len(stream[p])
      /\ OthersApart(p)
  BY <1>1, <1>2, StoreTypes
<1>4. fd[p] \in Inodes /\ fd[p] # NoIno
  BY <1>2, OwnFile
<1>5. Files!End(p) \/ UNCHANGED <<cmd, [q \in Procs |-> NamesOf(q)]>>
  <2>1. CASE m < n
    <3>1. Leave(p, FALSE) /\ FALSE \in BOOLEAN
      BY <1>1, <2>1 DEF StoreTurn
    <3>2. QED
      BY <1>2, <3>1, LeaveEnds
  <2>2. CASE ~(m < n)
    <3>1. UNCHANGED <<phase, cmd, fd>>
      BY <1>1, <2>2 DEF StoreTurn
    <3>2. QED
      BY <1>2, <3>1 DEF NamesOf, Busy
  <2>3. QED
    BY <2>1, <2>2
<1>6. CASE SameFiles
  <2>1. [k \in Names |-> FileOf(k)]' = [k \in Names |-> FileOf(k)]
    BY <1>6 DEF SameFiles
  <2>2. QED
    BY <1>5, <2>1 DEF FilesStep, Files!FNext, Files!Finish, Files!fvars
<1>7. CASE ~SameFiles
  <2>1. PICK k \in Names : FileOf(k)' # FileOf(k)
    BY <1>7 DEF SameFiles
  <2>2. m # 0
    BY <1>1, <1>2, <2>1 DEF StoreTurn, FileOf
  <2> DEFINE b == SubSeq(stream[p], Taken(p) + 1, Taken(p) + m)
             new == PutAt(data[fd[p]], off[p], b)
  <2>3. data' = [data EXCEPT ![fd[p]] = new]
    BY <1>1, <1>2, <2>2 DEF StoreTurn, TypeOK
  <2>4. Files!BlockPut(data[fd[p]], new)
    <3>1. /\ data[fd[p]] \in Seq(Byte) /\ stream[p] \in Seq(Byte)
          /\ off[p] \in Nat /\ Taken(p) \in Nat
      BY <1>2, <1>4 DEF IInv, Good, ProcOK, TypeOK, Taken
    <3>2. PICK t \in Nat, u \in Nat, s \in Seq(Byte) :
            t = Taken(p) /\ u = t + m /\ s = stream[p] /\ u <= Len(s)
      BY <1>3, <3>1, LenProperties
    <3>3. n <= BufSize
      <4>1. n \in 1 .. Min2(BufSize, Len(stream[p]) - Taken(p))
        BY <1>1 DEF StoreTurn
      <4>2. QED
        BY <3>1, <4>1, LenProperties, BufSizeAssumption DEF Min2
    <3>4. SubSeq(s, t + 1, u) \in Seq(Byte)
      BY <3>2, BlockBytes
    <3>5. Len(SubSeq(s, t + 1, u)) = m
      BY <1>3, <3>2, LenProperties
    <3>6. SubSeq(s, t + 1, u) # <<>> /\ Len(SubSeq(s, t + 1, u)) <= BufSize
      <4>1. m > 0 /\ m <= BufSize
        BY <1>3, <2>2, <3>3, BufSizeAssumption
      <4> DEFINE c == SubSeq(s, t + 1, u)
      <4>2. Len(c) = m
        BY <3>5
      <4> HIDE DEF c
      <4>3. c # <<>> /\ Len(c) <= BufSize
        BY <4>1, <4>2
      <4>4. QED
        BY <4>3 DEF c
    <3>7. QED
      BY <3>1, <3>2, <3>4, <3>6, BlockIsPut
  <2> HIDE DEF new
  <2>5. dir[k] = fd[p]
    BY <1>2, <1>4, <2>1, <2>3 DEF FileOf, TypeOK
  <2>6. k \in NamesOf(p) /\ FileOf(k) = {data[fd[p]]} /\ FileOf(k)' = {new}
    BY <1>2, <1>4, <2>3, <2>5 DEF NamesOf, FileOf, TypeOK
  <2>7. \A j \in Names \ {k} : FileOf(j)' = FileOf(j)
    <3> TAKE j \in Names \ {k}
    <3>1. dir[j] # fd[p]
      BY <1>2, <1>4, <2>5 DEF OneName
    <3>2. QED
      BY <1>2, <2>3, <3>1 DEF FileOf, TypeOK
  <2> DEFINE F == [j \in Names |-> FileOf(j)]
             T == [q \in Procs |-> NamesOf(q)]
  <2>8. F' = [F EXCEPT ![k] = {new}] /\ k \in T[p]
    BY <2>6, <2>7
  <2>9. data[fd[p]] \in F[k] /\ new \in F'[k]
    BY <2>6
  <2>10. Files!Put(p)
    BY <1>2, <1>5, <2>4, <2>8, <2>9 DEF Files!Put
  <2>11. QED
    BY <2>10 DEF FilesStep, Files!FNext
<1>8. QED
  BY <1>6, <1>7

-----------------------------------------------------------------------------
(* Processes come and go *)

LEMMA DieStep ==
  ASSUME FilesInv, NEW p \in Procs, Die(p)
  PROVE  FilesStep
<1>1. TypeOK /\ dir' = dir /\ data' = data /\ phase'[p] = "dead"
  BY DEF FilesInv, IInv, TypeOK, Die, fs
<1>2. SameFiles /\ NamesOf(p)' = {}
  BY <1>1, IdleNames DEF SameFiles, FileOf, Busy
<1>3. \A q \in Procs \ {p} : SameNames(q)
  <2> TAKE q \in Procs \ {p}
  <2>1. Apart(q)
    BY <1>1 DEF Die, TypeOK, Apart
  <2>2. QED
    BY <1>1, <2>1, OthersNames
<1>4. [n \in Names |-> FileOf(n)]' = [n \in Names |-> FileOf(n)]
  BY <1>2 DEF SameFiles
<1>5. CASE Busy(p)
  <2>1. cmd[p] # "none" /\ cmd' = [cmd EXCEPT ![p] = "none"]
    BY <1>5 DEF Die, FilesInv, Titled
  <2>2. [q \in Procs |-> NamesOf(q)]' = [[q \in Procs |-> NamesOf(q)] EXCEPT ![p] = {}]
    BY <1>2, <1>3, TargetOfOne
  <2>3. Files!Finish(p)
    BY <1>4, <2>1, <2>2 DEF Files!Finish, Files!End
  <2>4. QED
    BY <2>3 DEF FilesStep, Files!FNext
<1>6. CASE ~Busy(p)
  <2>1. cmd' = cmd
    BY <1>1, <1>6 DEF Die, TypeOK, FilesInv, Titled
  <2>2. \A q \in Procs : SameNames(q)
    BY <1>2, <1>3, <1>6, IdleNames DEF SameNames
  <2>3. QED
    BY <1>2, <2>1, <2>2, UnseenStep
<1>7. QED
  BY <1>5, <1>6

LEMMA StartStep ==
  ASSUME FilesInv, NEW p \in Procs, Start(p)
  PROVE  FilesStep
<1>1. dir' = dir /\ data' = data /\ cmd' = cmd /\ fd' = fd
  BY DEF Start, fs, loc
<1>2. \A q \in Procs : Busy(q)' = Busy(q)
  BY DEF Start, Busy, FilesInv, IInv, TypeOK
<1>3. SameFiles /\ \A q \in Procs : SameNames(q)
  BY <1>1, <1>2 DEF SameFiles, FileOf, SameNames, NamesOf
<1>4. QED
  BY <1>1, <1>3, UnseenStep

-----------------------------------------------------------------------------
(* The invariant and the theorems *)

\* A step that leaves the directory alone, or takes names away, gives no file
\* a second one.
LEMMA FewerNames ==
  ASSUME OneName, \A n \in Names : dir'[n] = dir[n] \/ dir'[n] = NoIno
  PROVE  OneName'
BY DEF OneName

\* No step gives a file a second name.
LEMMA OneNameNext ==
  ASSUME FilesInv, Next
  PROVE  OneName'
<1>1. OneName /\ dir \in [Names -> Inodes \cup {NoIno}]
  BY DEF FilesInv, IInv, TypeOK
<1>2. PICK p \in Procs :
        \/ dir' = dir
        \/ \E n \in Names : cmd_dele(p, n) \/ cmd_rnto(p, n) \/ cmd_stor(p, n)
  BY DEF Next, cmd_rest, SelectMode, cmd_rnfr, cmd_retr, DialFails, DialWorks,
         RetrieveChunk, EndRetrieve, StoreChunk, EndStore, TransferFails, Die,
         Start, Over, fs
<1>3. CASE dir' = dir
  BY <1>1, <1>3, FewerNames
<1>4. ASSUME NEW n \in Names, cmd_dele(p, n)
      PROVE  OneName'
  BY <1>1, <1>4, FewerNames DEF cmd_dele
<1>5. ASSUME NEW n \in Names, cmd_rnto(p, n)
      PROVE  OneName'
  <2>1. CASE dir' = dir
    BY <1>1, <2>1, FewerNames
  <2>2. CASE dir' = Renamed(rnfrName[p], n)
    <3>1. rnfrName[p] \in Names
      BY <1>5 DEF cmd_rnto, FilesInv, IInv, TypeOK
    <3>2. QED
      BY <1>1, <2>2, <3>1 DEF OneName, Renamed
  <2>3. QED
    BY <1>5, <2>1, <2>2 DEF cmd_rnto
<1>6. ASSUME NEW n \in Names, cmd_stor(p, n)
      PROVE  OneName'
  <2>1. CASE dir' = dir
    BY <1>1, <2>1, FewerNames
  <2>2. CASE \E i : Created(p, n, i)
    <3>1. PICK i : Created(p, n, i)
      BY <2>2
    <3>2. \A m \in Names \ {n} : dir[m] # i
      BY <3>1, CreatedAlone DEF Created
    <3>3. QED
      BY <1>1, <3>1, <3>2 DEF Created, OneName
  <2>3. QED
    BY <1>6, <2>1, <2>2 DEF cmd_stor, Created, Over, fs
<1>7. QED
  BY <1>2, <1>3, <1>4, <1>5, <1>6

\* A title is remembered while a transfer is under way, and not longer.
LEMMA TitledNext ==
  ASSUME FilesInv, Next
  PROVE  Titled'
<1>1. /\ phase \in [Procs -> {"ready", "dial", "xfer", "dead"}]
      /\ cmd \in [Procs -> {"RETR", "STOR", "none"}] /\ Titled
  BY DEF FilesInv, IInv, TypeOK
<1>2. ASSUME phase' = phase, cmd' = cmd
      PROVE  Titled'
  BY <1>1, <1>2 DEF Titled, Busy
<1>3. ASSUME NEW p \in Procs, NEW mode, Leave(p, mode)
      PROVE  Titled'
  BY <1>1, <1>3 DEF Titled, Busy, Leave
<1>4. ASSUME NEW p \in Procs, NEW i, NEW title \in {"RETR", "STOR"}, SeekTo(p, i, title)
      PROVE  Titled'
  BY <1>1, <1>4 DEF Titled, Busy, SeekTo
<1>5. ASSUME NEW p \in Procs, Die(p)
      PROVE  Titled'
  BY <1>1, <1>5 DEF Titled, Busy, Die
<1>6. ASSUME NEW p \in Procs, DialWorks(p)
      PROVE  Titled'
  BY <1>1, <1>6 DEF Titled, Busy, DialWorks
<1>7. ASSUME NEW p \in Procs, Start(p)
      PROVE  Titled'
  BY <1>1, <1>7 DEF Titled, Busy, Start
<1>8. ASSUME NEW p \in Procs, StoreChunk(p)
      PROVE  Titled'
  BY <1>2, <1>3, <1>8 DEF StoreChunk
<1>9. ASSUME NEW p \in Procs, NEW n \in Names, cmd_retr(p, n) \/ cmd_stor(p, n)
      PROVE  Titled'
  BY <1>3, <1>4, <1>9 DEF cmd_retr, cmd_stor, Over
<1>10. ASSUME NEW p \in Procs,
              DialFails(p) \/ EndRetrieve(p) \/ EndStore(p) \/ TransferFails(p)
       PROVE  Titled'
  BY <1>3, <1>10 DEF DialFails, EndRetrieve, EndStore, TransferFails, Over
<1>11. ASSUME NEW p \in Procs,
              \/ cmd_rest(p) \/ SelectMode(p) \/ RetrieveChunk(p)
              \/ \E n \in Names : cmd_dele(p, n) \/ cmd_rnfr(p, n) \/ cmd_rnto(p, n)
       PROVE  Titled'
  BY <1>2, <1>11 DEF cmd_rest, SelectMode, RetrieveChunk, cmd_dele, cmd_rnfr, cmd_rnto
<1>12. QED
  BY <1>5, <1>6, <1>7, <1>8, <1>9, <1>10, <1>11 DEF Next

LEMMA FilesNext ==
  ASSUME FilesInv, [Next]_vars
  PROVE  FilesInv'
<1>1. IInv'
  BY NextKeeps, StutterKeeps DEF FilesInv
<1>2. CASE Next
  BY <1>1, <1>2, OneNameNext, TitledNext DEF FilesInv
<1>3. CASE UNCHANGED vars
  BY <1>1, <1>3 DEF FilesInv, OneName, Titled, Busy, vars, fs
<1>4. QED
  BY <1>2, <1>3

LEMMA FilesStart ==
  ASSUME Init
  PROVE  FilesInv /\ Files!FInit
<1>1. IInv
  BY InitGood
<1>2. OneName
  BY DEF Init, OneName
<1>3. Titled
  BY DEF Init, Titled, Busy
<1>4. \A n \in Names : FileOf(n) \in SUBSET Seq(Nat)
  BY <1>1 DEF FileOf, IInv, TypeOK, Byte
<1>5. \A p \in Procs : NamesOf(p) = {}
  BY DEF Init, NamesOf, Busy
<1>6. Files!FInit
  BY <1>4, <1>5 DEF Files!FInit, Init
<1>7. QED
  BY <1>1, <1>2, <1>3, <1>6 DEF FilesInv

\* A file has at most one name, and a transfer that is under way a title: in
\* every state, with the invariant of the transfers.
THEOREM FilesInvariance == Spec => []FilesInv
<1>1. Init => FilesInv
  BY FilesStart
<1>2. FilesInv /\ [Next]_vars => FilesInv'
  BY FilesNext
<1>3. QED
  BY <1>1, <1>2, PTL DEF Spec

\* Every step of a session is a step of FtpFiles, or cannot be seen there.
LEMMA StepIsFiles ==
  ASSUME FilesInv, FilesInv', [Next]_vars
  PROVE  FilesStep
<1>1. CASE UNCHANGED vars
  BY <1>1, QuietStep DEF vars, fs, loc, Quiet
<1>2. CASE Next
  <2>1. PICK p \in Procs :
          \/ cmd_rest(p) \/ SelectMode(p)
          \/ \E n \in Names : \/ cmd_dele(p, n) \/ cmd_rnfr(p, n) \/ cmd_rnto(p, n)
                              \/ cmd_retr(p, n) \/ cmd_stor(p, n)
          \/ DialFails(p) \/ DialWorks(p)
          \/ RetrieveChunk(p) \/ EndRetrieve(p)
          \/ StoreChunk(p) \/ EndStore(p)
          \/ TransferFails(p) \/ Die(p) \/ Start(p)
    BY <1>2 DEF Next
  <2>2. TRUE \in BOOLEAN /\ FALSE \in BOOLEAN /\ OneName'
    BY DEF FilesInv
  <2>3. CASE \/ cmd_rest(p) \/ SelectMode(p)
             \/ \E n \in Names : cmd_dele(p, n) \/ cmd_rnfr(p, n) \/ cmd_rnto(p, n)
    BY <2>3, CommandStep
  <2>4. ASSUME NEW n \in Names, cmd_retr(p, n)
        PROVE  FilesStep
    BY <2>2, <2>4, OverStep, FetchStep DEF cmd_retr
  <2>5. ASSUME NEW n \in Names, cmd_stor(p, n)
        PROVE  FilesStep
    <3>1. Selected(p) /\ (Over(p, FALSE) \/ \E i : Created(p, n, i))
      BY <2>5 DEF cmd_stor, Created
    <3>2. QED
      BY <2>2, <3>1, OverStep, CreateStep
  <2>6. CASE DialFails(p)
    BY <2>2, <2>6, OverStep DEF DialFails
  <2>7. CASE EndRetrieve(p) \/ EndStore(p) \/ TransferFails(p)
    BY <2>2, <2>7, OverStep DEF EndRetrieve, EndStore, TransferFails
  <2>8. QED
    BY <2>1, <2>3, <2>4, <2>5, <2>6, <2>7, SilentStep, StoreStep, DieStep, StartStep
<1>3. QED
  BY <1>1, <1>2

\* Whatever the sessions do to each other, a transfer touches only the file
\* that it named, wherever that has been renamed, and never another that has
\* come to its name.
THEOREM FilesRefinement == Spec => ImplementsFiles
<1>1. Init => Files!FInit
  BY FilesStart
<1>2. FilesInv /\ FilesInv' /\ [Next]_vars => [Files!FNext]_Files!fvars
  BY StepIsFiles DEF FilesStep
<1>3. QED
  BY <1>1, <1>2, FilesInvariance, PTL DEF Spec, ImplementsFiles, Files!FSpec
=============================================================================
