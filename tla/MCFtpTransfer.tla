--------------------------- MODULE MCFtpTransfer ---------------------------
(* The instance of FtpTransfer that TLC checks. *)
EXTENDS FtpTransfer, TLC

MCContents == {<<1, 2>>, <<3>>}
MCOffsets == {0, 1}
\* With one that lseek refuses.
MCAnyOffsets == {-1, 0, 1}
\* Sessions, names and files are interchangeable: no definition tells one from
\* another of its kind.
MCSymmetry == Permutations(Procs) \cup Permutations(Names) \cup Permutations(Inodes)

\* States that differ only in what nothing reads again are one state: bytes
\* of a file that is neither named nor open, and what a download has sent
\* once no property speaks of it.
MCView ==
  <<dir, phase, cmd, ctl, fd, off, hist,
    [i \in Inodes |-> IF i \in Unused THEN <<>> ELSE data[i]],
    [p \in Procs |-> IF cmd[p] = "RETR" /\ (cut[p] \/ ~sole[p]) THEN <<>>
                     ELSE stream[p]]>>
=============================================================================
