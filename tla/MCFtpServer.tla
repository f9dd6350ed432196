---------------------------- MODULE MCFtpServer ----------------------------
(* The instance of FtpServer that TLC checks. *)
EXTENDS FtpServer, TLC

\* Connections are interchangeable; only for a run without liveness.
MCSymmetry == Permutations(Conns)
=============================================================================
