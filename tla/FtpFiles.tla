------------------------------ MODULE FtpFiles ------------------------------
(***************************************************************************)
(* What the session processes together do to the directory, as one sees it *)
(* who knows names and bytes only: a transfer belongs to the file that it  *)
(* named, follows it when it is renamed, and never comes to touch another  *)
(* that has its name later.  FtpTransfer, which has inodes, descriptors    *)
(* and positions instead, is shown to implement this specification.        *)
(***************************************************************************)
EXTENDS Naturals, Sequences

CONSTANTS Procs, Names, BufSize

VARIABLES
  file,    \* name -> {its bytes}, or {} if there is no such file
  job,     \* what p is doing: "RETR", "STOR" or "none"
  target   \* {the name that the file of p's job has now}, or {} if it has none

fvars == <<file, job, target>>

FInit ==
  /\ file \in [Names -> SUBSET Seq(Nat)]
  /\ job = [p \in Procs |-> "none"]
  /\ target = [p \in Procs |-> {}]

Begin(p, title, n) ==
  /\ job[p] = "none"
  /\ job' = [job EXCEPT ![p] = title]
  /\ target' = [target EXCEPT ![p] = {n}]

End(p) ==
  /\ job[p] # "none"
  /\ job' = [job EXCEPT ![p] = "none"]
  /\ target' = [target EXCEPT ![p] = {}]

\* RETR of a file that is there.
Fetch(p, n) ==
  /\ file[n] # {}
  /\ Begin(p, "RETR", n)
  /\ file' = file

\* STOR: the name is there and empty, whether or not the transfer goes on.
Empty(p, n) ==
  /\ job[p] = "none"
  /\ Begin(p, "STOR", n) \/ UNCHANGED <<job, target>>
  /\ file' = [file EXCEPT ![n] = {<<>>}]

\* new is old but for one block, which may lie beyond the end of old.
BlockPut(old, new) ==
  /\ new \in Seq(Nat) /\ Len(old) <= Len(new)
  /\ \E pos \in 0 .. Len(new) :
       /\ Len(new) > Len(old) => Len(new) <= pos + BufSize
       /\ \A i \in 1 .. Len(new) :
            i <= pos \/ pos + BufSize < i =>
              new[i] = IF i <= Len(old) THEN old[i] ELSE 0

\* An upload puts a block into its own file; one that is put in part ends it.
Put(p) ==
  /\ job[p] = "STOR"
  /\ End(p) \/ UNCHANGED <<job, target>>
  /\ \E n \in target[p] : \E old \in file[n], new \in file'[n] :
       /\ BlockPut(old, new)
       /\ file' = [file EXCEPT ![n] = {new}]

\* A transfer is over, well or badly; the file stays as it is.
Finish(p) ==
  /\ End(p)
  /\ file' = file

\* DELE: a transfer of the file goes on, out of sight.
Delete(n) ==
  /\ file' = [file EXCEPT ![n] = {}]
  /\ target' = [p \in Procs |-> target[p] \ {n}]
  /\ job' = job

\* RNTO: what had the new name is deleted, transfers of the file go with it.
Rename(old, n) ==
  /\ file[old] # {} /\ old # n
  /\ file' = [file EXCEPT ![old] = {}, ![n] = file[old]]
  /\ target' = [p \in Procs |-> IF old \in target[p] THEN {n} ELSE target[p] \ {n}]
  /\ job' = job

FNext ==
  \/ \E p \in Procs :
       \/ \E n \in Names : Fetch(p, n) \/ Empty(p, n)
       \/ Put(p)
       \/ Finish(p)
  \/ \E n \in Names : Delete(n) \/ \E old \in Names : Rename(old, n)

FSpec == FInit /\ [][FNext]_fvars
=============================================================================
